----------------------------- MODULE SmpProofs -----------------------------
(***************************************************************************)
(* The start of the other cores, and the jobs broadcast to them, for any   *)
(* number of cores.  One core at a time is between its startup and its     *)
(* idle loop, because the boot CPU waits for the word in slot 6 and then   *)
(* 10 ms: so the words of the page are that core's until it has copied     *)
(* them, and nobody counts between the two halves of ++online.             *)
(*                                                                         *)
(* The console lock and the panic path for any number of CPUs, consoles    *)
(* and calls.  The lock stays in the hands of a CPU that panics inside a   *)
(* put(), comes back once more for the last line of halt(), and is never   *)
(* given back by a CPU that stops with it: the invariant says where its    *)
(* owner may be, and that an NMI only finds CPUs that are not behind it.   *)
(*                                                                         *)
(* Below it, what a report says of a stack that overflowed, for any set of *)
(* processors, and the frames it lists, for any stack.                     *)
(***************************************************************************)
EXTENDS Smp, Panic, Faults, TLAPS

\* A leaf of a proof is a call of Zenon unless it names another prover.
USE Zenon

\* Every core comes up within the delays of the boot CPU and every job within its
\* broadcast, or the last core may stall on a machine that broadcasts nothing.
InTime(m) == (m.slow = {} /\ ~m.timeout) \/ (m.slow \subseteq {N} /\ m.jobs = 0)

\* Before its word in slot 6 a core depends on the page; then it is on its own.
OnPage == {"real_mode", "on_stack", "ap_entry", "identified"}
Counts == {"counted", "starting", "online", "idle", "job"}
Rising == OnPage \cup {"setup", "counting", "counted", "starting"}
AtWork == {"online", "idle", "job"}
InLoop == {"idle", "job"}
Looping == {"fill", "init", "startup", "check", "again", "answer", "wait"}
Starting == {"startup", "check", "again", "answer"}
Later == {"up", "publish", "collect"}

\* The cores that are at one of these places.
Standing(S) == {c \in Cores : at[c] \in S}

BootShape ==
    /\ boot \in [at : {"start"} \cup Looping \cup Later, i : Nat] /\ started \in 1..N + 1
    /\ data \in [stack : 0..N, ready : {0, 1}, index : 0..N, consumed : {0, 1}]
    /\ page \in {"data", "code"}

CoreShape ==
    /\ at \in [Cores -> {"off", "reset", "dead"} \cup Rising \cup AtWork]
    /\ rsp \in [Cores -> 0..N] /\ index \in [Cores -> 0..N] /\ block \in [Cores -> 0..N]
    /\ kernel_stack_top \in [Cores -> 0..N]
    /\ sample \in [Cores -> Nat] /\ online \in Nat /\ cpus_online \in Nat

JobShape ==
    /\ generation \in 0..MaxJobs /\ answer \in {"none", "true", "false"} /\ finished \in Nat
    /\ seen \in [Cores -> Nat] /\ ran \in [Cores -> Nat]

SmpShape == machine \in Machines /\ InTime(machine) /\ BootShape /\ CoreShape /\ JobShape

\* Where the cores are while the boot CPU is in its loop: those before i are past the page,
\* the ones behind it are off.
LoopInv ==
    /\ boot.at \in Looping => boot.i \in 1..N + 1 /\ page = "code"
    /\ boot.at = "start" => boot.i = 1
    /\ boot.at \in Starting \cup {"init"} => boot.i \in Cores /\ data.stack = boot.i /\ data.index = boot.i
    /\ boot.at \in {"init", "startup"} => data.consumed = 0
    /\ \A c \in Cores :
        /\ boot.at \in Looping \cup {"start"} =>
            /\ c > boot.i => at[c] = "off"
            /\ c < boot.i => at[c] \in Rising \cup AtWork /\ (at[c] \in OnPage => c \in Slow)
        /\ c = boot.i =>
            /\ boot.at \in {"start", "fill", "init", "wait"} => at[c] = "off"
            /\ boot.at = "startup" => at[c] = "reset"
            /\ boot.at \in {"check", "again", "answer"} => at[c] \in Rising \cup AtWork

\* One core at a time is between its startup and its idle loop, and the words of the page
\* are its own until it has copied them.
OneAtATime ==
    \A c \in Cores :
        /\ at[c] \in OnPage => data.stack = c /\ data.index = c /\ data.consumed = 0
        /\ \A d \in Cores : at[c] \in Rising /\ at[d] \in Rising => c = d
        /\ at[c] = "reset" => boot.at = "startup" /\ boot.i = c

IdentityInv ==
    /\ OwnIdentity
    /\ \A c \in Cores :
        /\ at[c] \in {"identified", "setup"} => index[c] = c
        /\ at[c] \in {"counting", "counted"} => block[c] = c

\* Nothing else counts between the two halves of ++online.
CountInv ==
    /\ online = 1 + Cardinality(Standing(Counts))
    /\ cpus_online = 1 + Cardinality(Standing(AtWork))
    /\ \A c \in Cores : at[c] = "counting" => sample[c] = online
    /\ boot.at \in Looping \cup {"start"} => started <= boot.i /\ (Slow = {} => started = boot.i)

\* Jobs are broadcast when every core that was started has come up.
JobPhase ==
    /\ boot.at \in Looping \cup {"start"} => generation = 0 /\ answer = "none"
    /\ generation > 0 \/ boot.at \in {"publish", "collect"} => Slow = {} /\ boot.at \in Later
    /\ boot.at \in Later /\ Slow = {} => \A c \in Cores : at[c] \in AtWork \cup {"off"}

\* The cores that have run the newest job.
Done == {c \in Standing(AtWork) : ran[c] = generation}

Broadcast ==
    /\ boot.at = "publish" => finished = 0 /\ generation < MaxJobs
    /\ boot.at \in {"publish", "collect"} => boot.i = Cardinality(Standing(AtWork))
    /\ boot.at = "collect" => generation > 0 /\ finished = Cardinality(Done)

\* A core in its loop has seen the newest job, whether it ran it or missed it, or is
\* about to run it while the boot CPU collects.
Served(c) == at[c] = "idle" /\ seen[c] = generation /\ ran[c] <= generation

Serving(c) ==
    /\ ran[c] <= generation - 1
    /\ \/ at[c] = "idle" /\ seen[c] = generation - 1
       \/ at[c] = "job" /\ seen[c] = generation

CoreJobs ==
    \A c \in Cores :
        /\ at[c] \notin InLoop => ran[c] = 0 /\ seen[c] = 0
        /\ at[c] \in InLoop => Served(c) \/ (boot.at = "collect" /\ Serving(c))

\* A broadcast that said true was run by every core.
AnswerInv ==
    answer = "true" =>
        /\ boot.at = "up" /\ generation > 0
        /\ \A c \in Cores : at[c] \in AtWork => at[c] = "idle" /\ ran[c] = generation

JobInv == JobPhase /\ Broadcast /\ CoreJobs /\ AnswerInv

SmpInv == (boot.at # "start" => Cores # {}) /\ SmpShape /\ LoopInv /\ OneAtATime /\ IdentityInv /\ CountInv /\ JobInv

\* What is known of the machine of a run.
LEMMA MachineFacts ==
    ASSUME machine \in Machines, InTime(machine)
    PROVE  /\ N \in Nat /\ MaxJobs \in Nat
           /\ Slow = {} \/ Slow \subseteq {N}
           /\ MaxJobs > 0 => Slow = {} /\ ~JobsTimeOut
BY SMT, SmpAssumption DEF InTime, Slow, MaxJobs, JobsTimeOut

\* What is used of finite sets; CountingHolds proves it.
CountTo == \A k \in Nat : IsFiniteSet(1..k) /\ Cardinality(1..k) = k
CountPart ==
    \A S : IsFiniteSet(S) => \A T \in SUBSET S :
        /\ IsFiniteSet(T) /\ Cardinality(T) \in Nat /\ Cardinality(T) <= Cardinality(S)
        /\ Cardinality(S) = Cardinality(T) => S = T
CountMore == \A S, x : IsFiniteSet(S) /\ x \notin S => Cardinality(S \cup {x}) = Cardinality(S) + 1
CountNone == Cardinality({}) = 0
Counting == CountTo /\ CountPart /\ CountMore /\ CountNone

\* Sets of cores can be counted.
LEMMA StandingCounts ==
    ASSUME Counting, N \in Nat, NEW S
    PROVE  IsFiniteSet(Standing(S)) /\ Cardinality(Standing(S)) \in Nat /\ Cardinality(Standing(S)) <= N
<1>1. IsFiniteSet(Cores) /\ Cardinality(Cores) = N
    BY DEF Counting, CountTo, Cores
<1>2. Standing(S) \in SUBSET Cores
    BY DEF Standing
<1>3. QED
    BY <1>1, <1>2 DEF Counting, CountPart

\* A core that gets to one of these places is one more there.
LEMMA OneMore ==
    ASSUME Counting, N \in Nat, CoreShape, NEW c \in Cores, NEW to, at' = [at EXCEPT ![c] = to],
           NEW S, at[c] \notin S, to \in S
    PROVE  Cardinality(Standing(S)') = Cardinality(Standing(S)) + 1
<1>1. Standing(S)' = Standing(S) \cup {c} /\ c \notin Standing(S)
    BY DEF Standing, CoreShape
<1>2. QED
    BY <1>1, StandingCounts DEF Counting, CountMore

\* The invariant holds before smp_init() starts.
LEMMA SmpInitInv == Counting /\ (\A m \in Machines : InTime(m)) /\ SmpInit => SmpInv
<1> SUFFICES ASSUME Counting, \A m \in Machines : InTime(m), SmpInit PROVE SmpInv
    OBVIOUS
<1>1. InTime(machine) /\ machine \in Machines /\ N \in Nat /\ MaxJobs \in Nat
    BY MachineFacts DEF SmpInit
<1>2. SmpShape
    BY SMT, <1>1 DEF SmpInit, SmpShape, BootShape, CoreShape, JobShape, Rising, AtWork, Cores, Looping, Later
<1>3. LoopInv /\ OneAtATime /\ IdentityInv
    BY SMT, <1>1 DEF SmpInit, LoopInv, OneAtATime, IdentityInv, OwnIdentity, Rising, OnPage, Starting, Looping, Cores
<1>4. Standing(Counts) = {} /\ Standing(AtWork) = {}
    BY SMT DEF SmpInit, Standing, Counts, AtWork
<1>5. CountInv
    <2>1. Cardinality({}) = 0
        BY DEF Counting, CountNone
    <2>2. QED
        BY SMT, <1>1, <1>4, <2>1 DEF SmpInit, CountInv
<1>6. JobInv
    BY SMT, <1>1 DEF SmpInit, JobInv, JobPhase, Broadcast, CoreJobs, AnswerInv, Later, Looping, InLoop
<1>7. boot.at = "start"
    BY SMT DEF SmpInit
<1>8. QED
    BY <1>2, <1>3, <1>5, <1>6, <1>7 DEF SmpInv

\* Every step keeps the types.
LEMMA ShapeKept ==
    ASSUME SmpInv, NEW c \in Cores, UNCHANGED machine, BootCpu \/ Core(c)
    PROVE  SmpShape'
<1>1. /\ SmpShape /\ BootShape /\ CoreShape /\ JobShape /\ LoopInv /\ IdentityInv /\ CountInv /\ JobInv
      /\ MaxJobs' = MaxJobs /\ N \in Nat /\ MaxJobs \in Nat
    BY MachineFacts DEF SmpInv, SmpShape, MaxJobs
<1> USE DEF Looping, Starting, Later
<1>2. BootShape'
    <2>1. CASE Install \/ SendInit \/ CheckReady \/ LoopDone \/ Retire \/ Publish \/ Collect
        BY SMT, <1>1, <2>1 DEF Install, SendInit, CheckReady, LoopDone, Retire, Publish, Collect, BootShape
    <2>2. CASE SendStartup
        BY SMT, <1>1, <2>2 DEF SendStartup, BootShape
    <2>3. CASE Fill
        BY SMT, <1>1, <2>3 DEF Fill, Filled, More, BootShape, LoopInv, Cores
    <2>4. CASE Answer \/ NoAnswer
        BY SMT, <1>1, <2>4 DEF Answer, NoAnswer, BootShape, LoopInv, CountInv, Cores
    <2>5. CASE ClearFinished
        <3>1. online - 1 \in Nat /\ boot' = [boot EXCEPT !.at = "publish", !.i = online - 1] /\ UNCHANGED <<data, page, started>>
            BY SMT, <1>1, <2>5 DEF ClearFinished, CoreShape
        <3>2. QED
            BY <1>1, <3>1 DEF BootShape
    <2>6. CASE SetReady(c) \/ Consume(c)
        BY SMT, <1>1, <2>6 DEF SetReady, Consume, BootShape
    <2>7. CASE UNCHANGED <<data, page, boot, started>>
        BY <1>1, <2>7 DEF BootShape
    <2>8. QED
        BY <2>1, <2>2, <2>3, <2>4, <2>5, <2>6, <2>7
           DEF BootCpu, Core, Fault, LoadStack, ReadIndex, Setup, CountOnline, TakeKernelStack, ComeUp, GoIdle, TakeJob,
               JobReturns, bootside
<1>3. CoreShape'
    <2> USE DEF Rising, OnPage, AtWork, CoreStep
    <2>1. CASE SendInit \/ SendStartup
        BY SMT, <1>1, <2>1 DEF SendInit, SendStartup, CoreShape
    <2>2. CASE Fault(c) \/ SetReady(c) \/ Consume(c) \/ TakeJob(c) \/ JobReturns(c)
        BY SMT, <1>1, <2>2 DEF Fault, SetReady, Consume, TakeJob, JobReturns, CoreShape
    <2>3. CASE LoadStack(c) \/ ReadIndex(c)
        BY SMT, <1>1, <2>3 DEF LoadStack, ReadIndex, CoreShape, BootShape
    <2>4. CASE Setup(c)
        BY SMT, <1>1, <2>4 DEF Setup, CoreShape, IdentityInv
    <2>5. CASE CountOnline(c) \/ ComeUp(c) \/ GoIdle(c)
        BY SMT, <1>1, <2>5 DEF CountOnline, ComeUp, GoIdle, CoreShape
    <2>6. CASE TakeKernelStack(c)
        BY <1>1, <2>6 DEF TakeKernelStack, CoreShape, BootShape
    <2>7. CASE UNCHANGED core
        BY <1>1, <2>7 DEF core, CoreShape
    <2>8. QED
        BY <2>1, <2>2, <2>3, <2>4, <2>5, <2>6, <2>7
           DEF BootCpu, Core, Install, Fill, CheckReady, Answer, NoAnswer, LoopDone, Retire, ClearFinished, Publish, Collect
<1>4. JobShape'
    <2>1. CASE ClearFinished \/ Publish \/ Collect
        BY SMT, <1>1, <2>1 DEF ClearFinished, Publish, Collect, JobShape, JobInv, Broadcast
    <2>2. CASE GoIdle(c) \/ TakeJob(c) \/ JobReturns(c)
        BY SMT, <1>1, <2>2 DEF GoIdle, TakeJob, JobReturns, JobShape
    <2>3. CASE UNCHANGED jobs
        BY <1>1, <2>3 DEF jobs, JobShape
    <2>4. QED
        BY <2>1, <2>2, <2>3
           DEF BootCpu, Core, Install, Fill, SendInit, SendStartup, CheckReady, Answer, NoAnswer, LoopDone, Retire,
               Fault, LoadStack, SetReady, ReadIndex, Consume, Setup, CountOnline, TakeKernelStack, ComeUp, bootside
<1>5. QED
    BY <1>1, <1>2, <1>3, <1>4 DEF SmpShape

\* The boot CPU goes on to the next core only when the last one is past the page.
LEMMA LoopKept ==
    ASSUME SmpInv, NEW c \in Cores, UNCHANGED machine, BootCpu \/ Core(c)
    PROVE  LoopInv'
<1>1. /\ BootShape /\ CoreShape /\ LoopInv /\ OneAtATime /\ JobInv /\ Slow' = Slow /\ N \in Nat
      /\ Slow = {} \/ Slow \subseteq {N}
    BY MachineFacts DEF SmpInv, SmpShape, Slow
<1>2. \A d \in Cores : d \in Nat /\ d >= 1 /\ d <= N
    BY SMT, <1>1 DEF Cores
<1> USE DEF Looping, Starting, Later, Rising, OnPage, AtWork
<1>3. CASE Install
    BY SMT, <1>1, <1>2, <1>3 DEF Install, core, BootShape, LoopInv
<1>4. CASE Fill
    BY SMT, <1>1, <1>2, <1>4 DEF Fill, Filled, More, core, BootShape, LoopInv, Cores
<1>5. CASE SendInit
    BY SMT, <1>1, <1>2, <1>5 DEF SendInit, BootShape, CoreShape, LoopInv
<1>6. CASE SendStartup
    BY SMT, <1>1, <1>2, <1>6 DEF SendStartup, BootShape, CoreShape, LoopInv
<1>7. CASE CheckReady
    BY SMT, <1>1, <1>2, <1>7 DEF CheckReady, core, BootShape, LoopInv
<1>8. CASE Answer
    BY SMT, <1>1, <1>2, <1>8 DEF Answer, Answered, core, BootShape, LoopInv, OneAtATime, Cores
<1>9. CASE NoAnswer
    BY SMT, <1>1, <1>2, <1>9 DEF NoAnswer, core, BootShape, LoopInv, Cores
<1>10. CASE LoopDone
    BY SMT, <1>1, <1>2, <1>10 DEF LoopDone, More, core, BootShape, LoopInv
<1>11. CASE Retire \/ ClearFinished \/ Publish \/ Collect
    BY ZenonT(30), <1>1, <1>11 DEF Retire, ClearFinished, Publish, Collect, BootShape, LoopInv
<1>12. CASE Core(c)
    <2>1. boot' = boot /\ page' = page /\ data'.stack = data.stack /\ data'.index = data.index
        BY <1>1, <1>12 DEF Core, Fault, LoadStack, SetReady, ReadIndex, Consume, Setup, CountOnline, TakeKernelStack,
            ComeUp, GoIdle, TakeJob, JobReturns, bootside, BootShape
    <2>2. PICK to \in {"dead"} \cup Rising \cup AtWork :
            /\ at' = [at EXCEPT ![c] = to] /\ at[c] \in Rising \cup AtWork
            /\ to = "dead" => page = "data"
            /\ to \in OnPage => at[c] \in OnPage
        BY <1>12 DEF Core, Fault, LoadStack, SetReady, ReadIndex, Consume, Setup, CountOnline, TakeKernelStack,
            ComeUp, GoIdle, TakeJob, JobReturns, CoreStep
    <2>3. boot.at \in {"init", "startup"} => data'.consumed = 0
        <3>1. CASE Consume(c)
            BY SMT, <1>1, <1>2, <3>1 DEF Consume, CoreStep, LoopInv, OneAtATime
        <3>2. CASE ~Consume(c)
            BY <1>1, <1>12, <3>2 DEF Core, Fault, LoadStack, SetReady, ReadIndex, Setup, CountOnline, TakeKernelStack,
                ComeUp, GoIdle, TakeJob, JobReturns, bootside, BootShape, LoopInv
        <3>3. QED
            BY <3>1, <3>2
    <2>4. QED
        BY SMT, <1>1, <1>2, <2>1, <2>2, <2>3 DEF LoopInv, CoreShape
<1>13. QED
    BY <1>3, <1>4, <1>5, <1>6, <1>7, <1>8, <1>9, <1>10, <1>11, <1>12 DEF BootCpu

\* A core is sent its startup when no other one is under way, and the page is written when
\* nobody depends on it.
LEMMA OneAtATimeKept ==
    ASSUME SmpInv, NEW c \in Cores, UNCHANGED machine, BootCpu \/ Core(c)
    PROVE  OneAtATime'
<1>1. /\ BootShape /\ CoreShape /\ LoopInv /\ OneAtATime /\ N \in Nat
      /\ Slow = {} \/ Slow \subseteq {N}
    BY MachineFacts DEF SmpInv, SmpShape
<1>2. \A d \in Cores : d \in Nat /\ d >= 1 /\ d <= N
    BY SMT, <1>1 DEF Cores
<1> USE DEF Looping, Starting, Rising, OnPage, AtWork
<1>3. CASE Fill
    <2>1. \A d \in Cores : at[d] \notin OnPage /\ at[d] # "reset"
        BY SMT, <1>1, <1>2, <1>3 DEF Fill, More, BootShape, LoopInv, OneAtATime
    <2>2. QED
        BY <1>1, <1>3, <2>1 DEF Fill, core, OneAtATime
<1>4. CASE SendInit
    <2>1. boot.i \in Cores /\ at[boot.i] = "off" /\ at' = [at EXCEPT ![boot.i] = "reset"] /\ data' = data
          /\ boot'.at = "startup" /\ boot'.i = boot.i
        BY SMT, <1>1, <1>4 DEF SendInit, BootShape, LoopInv
    <2>2. \A d \in Cores : at[d] # "reset"
        BY <1>1, <1>4 DEF SendInit, OneAtATime
    <2>3. QED
        BY SMT, <1>1, <2>1, <2>2 DEF CoreShape, OneAtATime
<1>5. CASE SendStartup /\ boot.at = "startup"
    <2>1. boot.i \in Cores /\ at' = [at EXCEPT ![boot.i] = "real_mode"] /\ data' = data
          /\ data.stack = boot.i /\ data.index = boot.i /\ data.consumed = 0
        BY <1>1, <1>5 DEF SendStartup, LoopInv
    <2>2. \A d \in Cores \ {boot.i} : at[d] \notin Rising /\ at[d] # "reset"
        BY SMT, <1>1, <1>2, <1>5 DEF SendStartup, Settled, BootShape, LoopInv, OneAtATime
    <2>3. QED
        BY ZenonT(30), <1>1, <2>1, <2>2 DEF CoreShape, OneAtATime
<1>6. CASE BootCpu /\ ~Fill /\ ~SendInit /\ boot.at # "startup"
    <2>1. data' = data /\ at' = at
        BY <1>1, <1>6 DEF BootCpu, Install, SendStartup, CheckReady, Answer, NoAnswer, LoopDone, Retire,
            ClearFinished, Publish, Collect, core, LoopInv
    <2>2. QED
        BY <1>1, <1>6, <2>1 DEF OneAtATime
<1>7. CASE Core(c)
    <2>1. PICK to \in {"dead"} \cup Rising \cup AtWork :
            /\ at' = [at EXCEPT ![c] = to]
            /\ to \in Rising => at[c] \in Rising
            /\ to \in OnPage => at[c] \in OnPage
            /\ Consume(c) => to = "setup" /\ at[c] = "identified"
        BY <1>7 DEF Core, Fault, LoadStack, SetReady, ReadIndex, Consume, Setup, CountOnline, TakeKernelStack,
            ComeUp, GoIdle, TakeJob, JobReturns, CoreStep
    <2>2. boot' = boot /\ data'.stack = data.stack /\ data'.index = data.index
        BY <1>1, <1>7 DEF Core, Fault, LoadStack, SetReady, ReadIndex, Consume, Setup, CountOnline, TakeKernelStack,
            ComeUp, GoIdle, TakeJob, JobReturns, bootside, BootShape
    <2>3. ~Consume(c) => data'.consumed = data.consumed
        BY <1>1, <1>7 DEF Core, Fault, LoadStack, SetReady, ReadIndex, Setup, CountOnline, TakeKernelStack,
            ComeUp, GoIdle, TakeJob, JobReturns, bootside, BootShape
    <2>4. Consume(c) => \A d \in Cores : at'[d] \notin OnPage
        BY <1>1, <2>1 DEF CoreShape, OneAtATime
    <2>5. ASSUME NEW d \in Cores
          PROVE  /\ at'[d] \in Rising => at[d] \in Rising
                 /\ at'[d] \in OnPage => at[d] \in OnPage
                 /\ at'[d] = "reset" => at[d] = "reset"
        <3>1. at'[d] = IF d = c THEN to ELSE at[d]
            BY <1>1, <2>1 DEF CoreShape
        <3>2. QED
            BY SMT, <2>1, <3>1
    <2> HIDE DEF Rising, OnPage
    <2>6. QED
        <3>1. ASSUME NEW d \in Cores, at'[d] \in OnPage
              PROVE  data'.stack = d /\ data'.index = d /\ data'.consumed = 0
            <4>1. at[d] \in OnPage /\ ~Consume(c)
                BY <2>4, <2>5, <3>1
            <4>2. data.stack = d /\ data.index = d /\ data.consumed = 0
                BY <1>1, <4>1 DEF OneAtATime
            <4>3. QED
                BY <2>2, <2>3, <4>1, <4>2
        <3>2. ASSUME NEW d \in Cores, NEW e \in Cores, at'[d] \in Rising, at'[e] \in Rising
              PROVE  d = e
            <4>1. at[d] \in Rising /\ at[e] \in Rising
                BY <2>5, <3>2
            <4>2. QED
                BY <1>1, <4>1 DEF OneAtATime
        <3>3. ASSUME NEW d \in Cores, at'[d] = "reset"
              PROVE  boot'.at = "startup" /\ boot'.i = d
            BY <1>1, <2>2, <2>5, <3>3 DEF OneAtATime
        <3>4. QED
            BY <3>1, <3>2, <3>3 DEF OneAtATime
<1>8. QED
    BY <1>3, <1>4, <1>5, <1>6, <1>7 DEF BootCpu, Install, CheckReady, Answer, NoAnswer, LoopDone, Retire,
        ClearFinished, Publish, Collect

\* Each core reads its own words.
LEMMA IdentityKept ==
    ASSUME SmpInv, NEW c \in Cores, UNCHANGED machine, BootCpu \/ Core(c)
    PROVE  IdentityInv'
<1>1. BootShape /\ CoreShape /\ OneAtATime /\ IdentityInv /\ LoopInv
    BY DEF SmpInv, SmpShape
<1> USE DEF OwnIdentity, CoreStep, OnPage
<1>2. CASE BootCpu
    <2>1. UNCHANGED <<rsp, index, block>>
        BY <1>2 DEF BootCpu, Install, Fill, SendInit, SendStartup, CheckReady, Answer, NoAnswer, LoopDone, Retire,
            ClearFinished, Publish, Collect, core
    <2>2. \/ at' = at
          \/ at' = [at EXCEPT ![boot.i] = "reset"]
          \/ at' = [at EXCEPT ![boot.i] = "real_mode"]
        BY <1>2 DEF BootCpu, Install, Fill, SendInit, SendStartup, CheckReady, Answer, NoAnswer, LoopDone, Retire,
            ClearFinished, Publish, Collect, core
    <2>3. \A d \in Cores : at'[d] = at[d] \/ at'[d] \in {"reset", "real_mode"}
        BY <1>1, <2>2 DEF CoreShape
    <2>4. QED
        BY <1>1, <2>1, <2>3 DEF IdentityInv
<1>3. CASE LoadStack(c)
    BY SMT, <1>1, <1>3 DEF LoadStack, CoreShape, OneAtATime, IdentityInv
<1>4. CASE ReadIndex(c)
    BY SMT, <1>1, <1>4 DEF ReadIndex, CoreShape, OneAtATime, IdentityInv
<1>5. CASE Consume(c)
    BY SMT, <1>1, <1>5 DEF Consume, CoreShape, IdentityInv
<1>6. CASE Setup(c)
    BY SMT, <1>1, <1>6 DEF Setup, CoreShape, IdentityInv
<1>7. CASE CountOnline(c)
    BY SMT, <1>1, <1>7 DEF CountOnline, CoreShape, IdentityInv
<1>8. CASE Fault(c) \/ SetReady(c) \/ TakeKernelStack(c) \/ ComeUp(c) \/ GoIdle(c) \/ TakeJob(c) \/ JobReturns(c)
    <2>1. /\ UNCHANGED <<rsp, index, block>>
          /\ \E to \in {"dead", "ap_entry", "starting", "online", "idle", "job"} : at' = [at EXCEPT ![c] = to]
        BY <1>8 DEF Fault, SetReady, TakeKernelStack, ComeUp, GoIdle, TakeJob, JobReturns, bootside
    <2>2. QED
        BY <1>1, <2>1 DEF CoreShape, IdentityInv
<1>9. QED
    BY <1>2, <1>3, <1>4, <1>5, <1>6, <1>7, <1>8 DEF Core

\* No core is counted twice, and none is lost although ++online takes two steps.
LEMMA CountKept ==
    ASSUME Counting, SmpInv, NEW c \in Cores, UNCHANGED machine, BootCpu \/ Core(c)
    PROVE  CountInv'
<1>1. BootShape /\ CoreShape /\ LoopInv /\ OneAtATime /\ CountInv /\ Slow' = Slow /\ N \in Nat
    BY MachineFacts DEF SmpInv, SmpShape, Slow
<1> DEFINE Loop == boot.at \in Looping \cup {"start"} => started <= boot.i /\ (Slow = {} => started = boot.i)
<1>2. Loop'
    <2>1. CASE Answer
        BY SMT, <1>1, <2>1 DEF Answer, BootShape, LoopInv, CountInv, Looping
    <2>2. CASE NoAnswer
        BY SMT, <1>1, <2>2 DEF NoAnswer, BootShape, LoopInv, CountInv, Looping
    <2>3. CASE Retire \/ ClearFinished \/ Publish \/ Collect
        BY <2>3, <1>1 DEF Retire, ClearFinished, Publish, Collect, BootShape, Looping
    <2>4. CASE Install \/ Fill \/ SendInit \/ SendStartup \/ CheckReady \/ LoopDone
        BY SMT, <1>1, <2>4 DEF Install, Fill, SendInit, SendStartup, CheckReady, LoopDone, BootShape, CountInv, Looping
    <2>5. CASE Core(c)
        BY <1>1, <2>5 DEF CountInv, Core, Fault, LoadStack, SetReady, ReadIndex, Consume, Setup, CountOnline,
            TakeKernelStack, ComeUp, GoIdle, TakeJob, JobReturns, bootside
    <2>6. QED
        BY <2>1, <2>2, <2>3, <2>4, <2>5 DEF BootCpu
<1>3. CASE BootCpu
    <2>1. UNCHANGED <<online, cpus_online, sample>>
        BY <1>3 DEF BootCpu, Install, Fill, SendInit, SendStartup, CheckReady, Answer, NoAnswer, LoopDone, Retire,
            ClearFinished, Publish, Collect, core
    <2>2. \/ at' = at
          \/ \E b \in Cores : \E to \in {"reset", "real_mode"} :
                at[b] \in {"off", "reset"} /\ at' = [at EXCEPT ![b] = to]
        <3>1. CASE SendInit \/ SendStartup
            BY <1>1, <3>1 DEF SendInit, SendStartup, LoopInv, Starting
        <3>2. QED
            BY <1>3, <3>1 DEF BootCpu, Install, Fill, CheckReady, Answer, NoAnswer, LoopDone, Retire,
                ClearFinished, Publish, Collect, core
    <2>3. /\ Standing(Counts)' = Standing(Counts) /\ Standing(AtWork)' = Standing(AtWork)
          /\ \A d \in Cores : at'[d] = "counting" => at[d] = "counting"
        BY <1>1, <2>2 DEF Standing, Counts, AtWork, CoreShape
    <2>4. QED
        BY <1>1, <1>2, <2>1, <2>3 DEF CountInv
<1>4. CASE Fault(c) \/ LoadStack(c) \/ SetReady(c) \/ ReadIndex(c) \/ Consume(c) \/ TakeKernelStack(c)
           \/ GoIdle(c) \/ TakeJob(c) \/ JobReturns(c)
    <2>1. UNCHANGED <<online, cpus_online, sample>>
        BY <1>4 DEF Fault, LoadStack, SetReady, ReadIndex, Consume, TakeKernelStack, GoIdle, TakeJob, JobReturns
    <2>2. PICK to : /\ at' = [at EXCEPT ![c] = to] /\ to # "counting"
                    /\ at[c] \in Counts <=> to \in Counts
                    /\ at[c] \in AtWork <=> to \in AtWork
        BY ZenonT(30), <1>4 DEF Fault, LoadStack, SetReady, ReadIndex, Consume, TakeKernelStack, GoIdle, TakeJob, JobReturns,
            CoreStep, Counts, AtWork
    <2>3. Standing(Counts)' = Standing(Counts) /\ Standing(AtWork)' = Standing(AtWork)
        BY <1>1, <2>2 DEF Standing, CoreShape
    <2>4. \A d \in Cores : at'[d] = "counting" => at[d] = "counting"
        BY <1>1, <2>2 DEF CoreShape
    <2>5. QED
        BY <1>1, <1>2, <2>1, <2>3, <2>4 DEF CountInv
<1>5. CASE Setup(c)
    <2>1. /\ at' = [at EXCEPT ![c] = "counting"] /\ at[c] = "setup"
          /\ sample' = [sample EXCEPT ![c] = online] /\ UNCHANGED <<online, cpus_online>>
        BY <1>5 DEF Setup, CoreStep
    <2>2. Standing(Counts)' = Standing(Counts) /\ Standing(AtWork)' = Standing(AtWork)
        BY <1>1, <2>1 DEF Standing, Counts, AtWork, CoreShape
    <2>3. \A d \in Cores : at'[d] = "counting" => sample'[d] = online
        BY <1>1, <2>1 DEF CountInv, CoreShape
    <2>4. QED
        BY <1>1, <1>2, <2>1, <2>2, <2>3 DEF CountInv
<1>6. CASE CountOnline(c)
    <2>1. /\ at' = [at EXCEPT ![c] = "counted"] /\ at[c] = "counting"
          /\ online' = online + 1 /\ UNCHANGED <<cpus_online, sample>>
        BY <1>1, <1>6 DEF CountOnline, CoreStep, CountInv
    <2>2. Standing(AtWork)' = Standing(AtWork)
        BY <1>1, <2>1 DEF CoreShape, Standing, AtWork
    <2>3. "counting" \notin Counts /\ "counted" \in Counts
        BY DEF Counts
    <2>4. Cardinality(Standing(Counts)') = Cardinality(Standing(Counts)) + 1 /\ Cardinality(Standing(Counts)) \in Nat
        BY <1>1, <2>1, <2>3, OneMore, StandingCounts
    <2>5. online' = 1 + Cardinality(Standing(Counts)')
        BY SMT, <1>1, <2>1, <2>4 DEF CountInv
    <2>6. \A d \in Cores : at'[d] # "counting"
        BY <1>1, <2>1 DEF OneAtATime, Rising, CoreShape
    <2>7. QED
        BY <1>1, <1>2, <2>1, <2>2, <2>6, <2>5 DEF CountInv
<1>7. CASE ComeUp(c)
    <2>1. /\ at' = [at EXCEPT ![c] = "online"] /\ at[c] = "starting"
          /\ cpus_online' = cpus_online + 1 /\ UNCHANGED <<online, sample>>
        BY <1>7 DEF ComeUp, CoreStep
    <2>2. Standing(Counts)' = Standing(Counts)
        BY <1>1, <2>1 DEF CoreShape, Standing, Counts
    <2>3. "starting" \notin AtWork /\ "online" \in AtWork
        BY DEF AtWork
    <2>4. Cardinality(Standing(AtWork)') = Cardinality(Standing(AtWork)) + 1 /\ Cardinality(Standing(AtWork)) \in Nat
        BY <1>1, <2>1, <2>3, OneMore, StandingCounts
    <2>5. cpus_online' = 1 + Cardinality(Standing(AtWork)')
        BY SMT, <1>1, <2>1, <2>4 DEF CountInv
    <2>6. \A d \in Cores : at'[d] = "counting" => at[d] = "counting"
        BY <1>1, <2>1 DEF CoreShape
    <2>7. QED
        BY <1>1, <1>2, <2>1, <2>2, <2>6, <2>5 DEF CountInv
<1>8. QED
    BY <1>3, <1>4, <1>5, <1>6, <1>7 DEF Core

\* A step of the loop of smp_init(), or of a core on its way up, has no part in the jobs.
LEMMA RisingKeepsJobs ==
    ASSUME CoreShape, JobInv, boot' = boot \/ (boot.at \in Looping \cup {"start"} /\ boot'.at \in Looping),
           UNCHANGED jobs, Slow' = Slow, MaxJobs' = MaxJobs,
           NEW c \in Cores, NEW to, to \notin AtWork, at[c] \notin AtWork,
           at' = at \/ at' = [at EXCEPT ![c] = to],
           boot.at \in Later => at[c] # "off" \/ at' = at
    PROVE  JobInv'
<1>1. JobPhase /\ Broadcast /\ CoreJobs /\ AnswerInv
    BY DEF JobInv
<1>2. \A d \in Cores : at'[d] = at[d] \/ (d = c /\ at[d] \notin AtWork /\ at'[d] \notin AtWork)
    BY DEF CoreShape
<1>3. Standing(AtWork)' = Standing(AtWork)
    BY <1>2 DEF Standing
<1>4. Done' = Done
    BY <1>3 DEF Done, jobs
<1>5. boot.at \in Later => boot' = boot
    BY DEF Looping, Later
<1>6. JobPhase'
    <2>1. CASE boot.at \in Later
        BY <1>1, <1>2, <1>5, <2>1 DEF JobPhase, jobs, Later, Looping
    <2>2. CASE boot.at \notin Later
        BY <1>1, <2>2 DEF JobPhase, jobs, Later, Looping
    <2>3. QED
        BY <2>1, <2>2
<1>7. Broadcast'
    BY <1>1, <1>3, <1>4 DEF Broadcast, jobs, Looping
<1>8. CoreJobs'
    BY <1>1, <1>2 DEF CoreJobs, Served, Serving, jobs, Looping, AtWork, InLoop
<1>9. AnswerInv'
    BY <1>1, <1>2, <1>5 DEF AnswerInv, jobs, Later
<1>10. QED
    BY <1>6, <1>7, <1>8, <1>9 DEF JobInv

\* smp_init() is done when as many cores are up as were started: those before boot.i.
LEMMA RetireKeepsJobs ==
    ASSUME Counting, SmpInv, Retire, UNCHANGED machine
    PROVE  JobInv'
<1>1. /\ BootShape /\ CoreShape /\ LoopInv /\ CountInv /\ JobPhase /\ CoreJobs /\ N \in Nat
      /\ Slow' = Slow /\ boot.at = "wait" /\ boot'.at = "up"
      /\ at' = at /\ UNCHANGED jobs
    BY SMT, MachineFacts DEF SmpInv, SmpShape, JobInv, Slow, Retire, core, BootShape
<1>2. ASSUME Slow = {}
      PROVE  \A c \in Cores : at[c] \in AtWork \cup {"off"}
    <2> DEFINE before == 1..boot.i - 1
    <2>1. cpus_online >= started /\ started = boot.i /\ cpus_online = 1 + Cardinality(Standing(AtWork))
        BY <1>1, <1>2 DEF Retire, CountInv, Looping
    <2>2. boot.i \in Nat /\ boot.i >= 1
        BY SMT, <1>1 DEF LoopInv, Looping
    <2>3. \A c \in Cores : c \in Nat /\ c >= 1 /\ (c >= boot.i => at[c] = "off")
        BY SMT, <1>1, <2>2 DEF LoopInv, Looping, Cores
    <2>4. Standing(AtWork) \in SUBSET before
        BY SMT, <2>2, <2>3 DEF Standing, AtWork
    <2>5. IsFiniteSet(before) /\ Cardinality(before) = boot.i - 1
        <3>1. \A k \in Nat : IsFiniteSet(1..k) /\ Cardinality(1..k) = k
            BY DEF Counting, CountTo
        <3>2. boot.i - 1 \in Nat
            BY SMT, <2>2
        <3>3. QED
            BY <3>1, <3>2
    <2>6. Cardinality(Standing(AtWork)) \in Nat /\ Cardinality(Standing(AtWork)) <= Cardinality(before)
        BY <1>1, <2>4, <2>5, StandingCounts DEF Counting, CountPart
    <2>7. Cardinality(before) = Cardinality(Standing(AtWork))
        BY SMT, <2>1, <2>2, <2>5, <2>6
    <2>8. before = Standing(AtWork)
        BY <2>4, <2>5, <2>7 DEF Counting, CountPart
    <2>9. QED
        BY SMT, <2>2, <2>3, <2>8 DEF Standing
<1>3. JobPhase'
    BY SMT, <1>1, <1>2 DEF JobPhase, jobs, Looping, Later
<1>4. Broadcast'
    BY <1>1 DEF Broadcast
<1>5. CoreJobs'
    BY <1>1 DEF CoreJobs, Served, jobs
<1>6. AnswerInv'
    BY <1>1 DEF JobPhase, AnswerInv, jobs, Looping
<1>7. QED
    BY <1>3, <1>4, <1>5, <1>6 DEF JobInv

\* The boot CPU begins a broadcast, and ends it when all cores have run it.
LEMMA BroadcastKeepsJobs ==
    ASSUME Counting, SmpInv, ClearFinished \/ Publish \/ Collect, UNCHANGED machine
    PROVE  JobInv'
<1>1. /\ BootShape /\ CoreShape /\ JobShape /\ CountInv /\ JobPhase /\ Broadcast /\ CoreJobs /\ AnswerInv /\ N \in Nat
      /\ Slow' = Slow /\ MaxJobs' = MaxJobs /\ MaxJobs \in Nat
      /\ MaxJobs > 0 => Slow = {} /\ ~JobsTimeOut
    BY MachineFacts DEF SmpInv, SmpShape, JobInv, Slow, MaxJobs
<1>2. at' = at /\ Standing(AtWork)' = Standing(AtWork)
    BY DEF ClearFinished, Publish, Collect, core, Standing
<1>3. /\ Cardinality(Standing(AtWork)) \in Nat /\ IsFiniteSet(Standing(AtWork)) /\ generation \in Nat
    BY SMT, <1>1, StandingCounts DEF JobShape
<1>4. CASE ClearFinished
    <2>1. /\ boot.at = "up" /\ boot'.at = "publish" /\ boot'.i = online - 1 /\ finished' = 0
          /\ generation < MaxJobs /\ UNCHANGED <<generation, seen, ran>>
        BY SMT, <1>1, <1>4 DEF ClearFinished, BootShape
    <2>2. Slow = {} /\ \A c \in Cores : at[c] \in AtWork \cup {"off"}
        BY SMT, <1>1, <1>3, <2>1 DEF JobPhase, Later
    <2>3. Standing(Counts) = Standing(AtWork)
        BY <2>2 DEF Standing, Counts, AtWork
    <2>4. boot'.i = Cardinality(Standing(AtWork))
        BY SMT, <1>1, <1>3, <2>1, <2>3 DEF CountInv
    <2>5. JobPhase'
        BY <1>1, <1>2, <2>1, <2>2 DEF JobPhase, Later, Looping
    <2>6. Broadcast'
        BY <1>1, <1>2, <2>1, <2>4 DEF Broadcast
    <2>7. CoreJobs'
        BY <1>1, <1>2, <2>1 DEF CoreJobs, Served
    <2>8. AnswerInv'
        BY <1>4 DEF ClearFinished, AnswerInv
    <2>9. QED
        BY <2>5, <2>6, <2>7, <2>8 DEF JobInv
<1>5. CASE Publish
    <2>1. /\ boot.at = "publish" /\ boot'.at = "collect" /\ boot'.i = boot.i /\ finished = 0 /\ finished' = 0
          /\ generation' = generation + 1 /\ UNCHANGED <<seen, ran, answer>>
        BY SMT, <1>1, <1>5 DEF Publish, BootShape, Broadcast
    <2>2. Slow = {} /\ \A c \in Cores : at[c] \in AtWork \cup {"off"}
        BY <1>1, <2>1 DEF JobPhase, Later
    <2>3. \A c \in Cores : at[c] \in InLoop => at[c] = "idle" /\ ran[c] <= generation /\ seen[c] = generation
        BY <1>1, <2>1 DEF CoreJobs, Served
    <2>4. Done' = {}
        <3>1. \A c \in Cores : at[c] \in AtWork => ran[c] = 0 \/ ran[c] <= generation
            BY <1>1, <2>3 DEF CoreJobs, AtWork, InLoop
        <3>2. \A c \in Cores : ran[c] \in Nat
            BY <1>1 DEF JobShape
        <3>3. \A c \in Cores : at[c] \in AtWork => ran[c] # generation'
            BY SMT, <1>3, <2>1, <3>1, <3>2
        <3>4. QED
            BY <1>2, <2>1, <3>3 DEF Done, Standing
    <2>5. JobPhase'
        BY <1>1, <1>2, <2>1, <2>2 DEF JobPhase, Later, Looping
    <2>6. generation' > 0 /\ generation' - 1 = generation
        BY SMT, <1>3, <2>1
    <2>7. Broadcast'
        BY <1>1, <1>2, <2>1, <2>4, <2>6 DEF Broadcast, Counting, CountNone
    <2>8. CoreJobs'
        BY <1>1, <1>2, <2>1, <2>3, <2>6 DEF CoreJobs, Serving
    <2>9. AnswerInv'
        BY <1>1, <2>1 DEF AnswerInv
    <2>10. QED
        BY <2>5, <2>7, <2>8, <2>9 DEF JobInv
<1>6. CASE Collect
    <2>1. /\ boot.at = "collect" /\ boot'.at = "up" /\ UNCHANGED <<generation, seen, ran>>
          /\ AllFinished \/ JobsTimeOut \/ NoneToCome
          /\ answer' = "true" => AllFinished
        BY SMT, <1>1, <1>6 DEF Collect, BootShape
    <2>2. /\ Slow = {} /\ \A c \in Cores : at[c] \in AtWork \cup {"off"}
          /\ generation > 0 /\ finished = Cardinality(Done) /\ boot.i = Cardinality(Standing(AtWork))
        BY <1>1, <2>1 DEF JobPhase, Broadcast, Later
    <2>3. ~JobsTimeOut
        BY SMT, <1>1, <2>2 DEF JobShape
    <2>4. ASSUME AllFinished
          PROVE  \A c \in Cores : at[c] \in AtWork => at[c] = "idle" /\ ran[c] = generation
        <3>1. Done \in SUBSET Standing(AtWork)
            BY DEF Done
        <3>2. Cardinality(Done) <= Cardinality(Standing(AtWork)) /\ Cardinality(Done) \in Nat
            BY <1>3, <3>1 DEF Counting, CountPart
        <3>3. Cardinality(Standing(AtWork)) = Cardinality(Done)
            BY SMT, <1>3, <2>2, <2>4, <3>2 DEF AllFinished
        <3>4. Standing(AtWork) = Done
            BY <1>3, <3>1, <3>3 DEF Counting, CountPart
        <3>5. \A c \in Cores : at[c] \in AtWork => ran[c] = generation
            BY <3>4 DEF Done, Standing
        <3>6. generation # 0 /\ ~(generation <= generation - 1)
            BY SMT, <1>3, <2>2
        <3>7. ASSUME NEW c \in Cores, at[c] \in AtWork
              PROVE  at[c] = "idle"
            <4>1. ran[c] = generation /\ ran[c] # 0 /\ ~(ran[c] <= generation - 1)
                BY <3>5, <3>6, <3>7
            <4>2. at[c] \in InLoop
                BY <1>1, <4>1 DEF CoreJobs
            <4>3. QED
                BY <1>1, <4>1, <4>2 DEF CoreJobs, Served, Serving
        <3>8. QED
            BY <3>5, <3>7
    <2>5. \A c \in Cores : at[c] \in InLoop => Served(c)
        <3>1. \A c \in Cores : ran[c] \in Nat /\ (ran[c] <= generation - 1 => ran[c] <= generation)
            BY SMT, <1>1, <1>3 DEF JobShape
        <3>2. CASE AllFinished
            <4>1. ~(generation <= generation - 1)
                BY SMT, <1>3
            <4>2. QED
                BY <1>1, <2>4, <3>2, <4>1 DEF CoreJobs, Serving, InLoop, AtWork
        <3>3. CASE NoneToCome
            BY <1>1, <3>1, <3>3 DEF CoreJobs, Serving, Served, InLoop, NoneToCome
        <3>4. QED
            BY <2>1, <2>3, <3>2, <3>3
    <2>6. JobPhase'
        BY <1>1, <1>2, <2>1, <2>2 DEF JobPhase, Later, Looping
    <2>7. Broadcast'
        BY <2>1 DEF Broadcast
    <2>8. CoreJobs'
        BY <1>1, <1>2, <2>1, <2>5 DEF CoreJobs, Served
    <2>9. AnswerInv'
        BY <1>2, <2>1, <2>2, <2>4 DEF AnswerInv
    <2>10. QED
        BY <2>6, <2>7, <2>8, <2>9 DEF JobInv
<1>7. QED
    BY <1>4, <1>5, <1>6

\* A core in its idle loop runs each job once.
LEMMA IdleKeepsJobs ==
    ASSUME Counting, SmpInv, NEW c \in Cores, ComeUp(c) \/ GoIdle(c) \/ TakeJob(c) \/ JobReturns(c), UNCHANGED machine
    PROVE  JobInv'
<1>1. /\ BootShape /\ CoreShape /\ JobShape /\ JobPhase /\ Broadcast /\ CoreJobs /\ AnswerInv /\ N \in Nat
      /\ Slow' = Slow /\ MaxJobs' = MaxJobs
    BY MachineFacts DEF SmpInv, SmpShape, JobInv, Slow, MaxJobs
<1>2. boot' = boot /\ generation' = generation /\ answer' = answer /\ generation \in Nat
    BY SMT, <1>1 DEF ComeUp, GoIdle, TakeJob, JobReturns, JobShape, bootside, jobs
<1>3. CASE ComeUp(c)
    <2>1. /\ at' = [at EXCEPT ![c] = "online"] /\ at[c] = "starting"
          /\ UNCHANGED <<seen, ran, finished>>
        BY <1>3 DEF ComeUp, CoreStep, bootside, jobs
    <2>2. ~(boot.at \in Later /\ Slow = {})
        BY <1>1, <2>1 DEF JobPhase, AtWork
    <2>3. ~(generation > 0) /\ boot.at \notin {"publish", "collect"}
        BY <1>1, <2>2 DEF JobPhase
    <2>4. JobPhase'
        BY <1>1, <1>2, <2>2, <2>3 DEF JobPhase
    <2>5. Broadcast'
        BY <1>2, <2>3 DEF Broadcast
    <2>6. CoreJobs'
        <3>1. at'[c] = "online" /\ \A d \in Cores \ {c} : at'[d] = at[d]
            BY <1>1, <2>1 DEF CoreShape
        <3>2. QED
            BY <1>1, <1>2, <2>1, <2>3, <3>1 DEF CoreJobs, Served, InLoop
    <2>7. AnswerInv'
        BY <1>1, <1>2, <2>3 DEF AnswerInv
    <2>8. QED
        BY <2>4, <2>5, <2>6, <2>7 DEF JobInv
<1>7. CASE GoIdle(c)
    <2>1. /\ at' = [at EXCEPT ![c] = "idle"] /\ at[c] = "online"
          /\ seen' = [seen EXCEPT ![c] = generation] /\ ran' = ran /\ finished' = finished
        BY <1>7 DEF GoIdle, CoreStep
    <2>2. ran[c] = 0 /\ 0 <= generation
        <3>1. 0 <= generation
            BY SMT, <1>2
        <3>2. QED
            BY <1>1, <2>1, <3>1 DEF CoreJobs, InLoop
    <2>3. Standing(AtWork)' = Standing(AtWork)
        BY <1>1, <2>1 DEF Standing, AtWork, CoreShape
    <2>4. Done' = Done
        BY <1>2, <2>1, <2>3 DEF Done
    <2>5. JobPhase'
        BY <1>1, <1>2, <2>1 DEF JobPhase, CoreShape, AtWork
    <2>6. Broadcast'
        BY <1>1, <1>2, <2>1, <2>3, <2>4 DEF Broadcast
    <2>7. CoreJobs'
        <3>1. /\ at'[c] = "idle" /\ seen'[c] = generation
              /\ \A d \in Cores \ {c} : at'[d] = at[d] /\ seen'[d] = seen[d]
            BY <1>1, <2>1 DEF CoreShape, JobShape
        <3>2. QED
            BY ZenonT(30), <1>1, <1>2, <2>1, <2>2, <3>1 DEF CoreJobs, Served, Serving, InLoop
    <2>8. AnswerInv'
        BY <1>1, <1>2, <2>1 DEF AnswerInv, AtWork
    <2>9. QED
        BY <2>5, <2>6, <2>7, <2>8 DEF JobInv
<1>4. CASE TakeJob(c)
    <2>1. /\ at' = [at EXCEPT ![c] = "job"] /\ at[c] = "idle" /\ generation # seen[c]
          /\ seen' = [seen EXCEPT ![c] = generation] /\ ran' = ran /\ finished' = finished
        BY <1>4 DEF TakeJob
    <2>2. boot.at = "collect" /\ ran[c] <= generation - 1
        BY <1>1, <2>1 DEF CoreJobs, Served, Serving, InLoop
    <2>3. Standing(AtWork)' = Standing(AtWork)
        BY <1>1, <2>1 DEF Standing, AtWork, CoreShape
    <2>4. Done' = Done
        BY <1>2, <2>1, <2>3 DEF Done
    <2>5. JobPhase'
        BY <1>1, <1>2, <2>1 DEF JobPhase, CoreShape, AtWork
    <2>6. Broadcast'
        BY <1>1, <1>2, <2>1, <2>3, <2>4 DEF Broadcast
    <2>7. CoreJobs'
        <3>1. /\ at'[c] = "job" /\ seen'[c] = generation /\ ran'[c] <= generation - 1
              /\ \A d \in Cores \ {c} : at'[d] = at[d] /\ seen'[d] = seen[d]
            BY <1>1, <2>1, <2>2 DEF CoreShape, JobShape
        <3>2. QED
            BY <1>1, <1>2, <2>1, <2>2, <3>1 DEF CoreJobs, Served, Serving, InLoop
    <2>8. AnswerInv'
        BY <1>1, <1>2, <2>2 DEF AnswerInv
    <2>9. QED
        BY <2>5, <2>6, <2>7, <2>8 DEF JobInv
<1>5. CASE JobReturns(c)
    <2>1. /\ at' = [at EXCEPT ![c] = "idle"] /\ at[c] = "job"
          /\ ran' = [ran EXCEPT ![c] = seen[c]] /\ seen' = seen /\ finished' = finished + 1
        BY <1>5 DEF JobReturns
    <2>2. boot.at = "collect" /\ ran[c] <= generation - 1 /\ seen[c] = generation
        BY <1>1, <2>1 DEF CoreJobs, Served, Serving, InLoop
    <2>3. Standing(AtWork)' = Standing(AtWork) /\ c \in Standing(AtWork)
        BY <1>1, <2>1 DEF Standing, AtWork, CoreShape
    <2>4. ran[c] # generation
        BY SMT, <1>1, <1>2, <2>2 DEF JobShape
    <2>5. Done' = Done \cup {c} /\ c \notin Done
        BY <1>1, <1>2, <2>1, <2>2, <2>3, <2>4 DEF Done, Standing, JobShape
    <2>6. IsFiniteSet(Done)
        BY <1>1, StandingCounts DEF Done, Counting, CountPart
    <2>7. Cardinality(Done') = Cardinality(Done) + 1
        BY <2>5, <2>6 DEF Counting, CountMore
    <2>8. JobPhase'
        BY <1>1, <1>2, <2>1 DEF JobPhase, CoreShape, AtWork
    <2>9. Broadcast'
        BY <1>1, <1>2, <2>1, <2>2, <2>3, <2>7 DEF Broadcast
    <2>10. CoreJobs'
        <3>1. /\ at'[c] = "idle" /\ ran'[c] = generation /\ seen[c] = generation
              /\ \A d \in Cores \ {c} : at'[d] = at[d] /\ ran'[d] = ran[d]
            BY <1>1, <2>1, <2>2 DEF CoreShape, JobShape
        <3>2. generation <= generation
            BY SMT, <1>2
        <3>3. QED
            BY ZenonT(30), <1>1, <1>2, <2>1, <3>1, <3>2 DEF CoreJobs, Served, Serving, InLoop
    <2>11. AnswerInv'
        BY <1>1, <1>2, <2>2 DEF AnswerInv
    <2>12. QED
        BY <2>8, <2>9, <2>10, <2>11 DEF JobInv
<1>6. QED
    BY <1>3, <1>4, <1>5, <1>7

\* Every step keeps the facts about the broadcast jobs.
LEMMA JobsKept ==
    ASSUME Counting, SmpInv, NEW c \in Cores, UNCHANGED machine, BootCpu \/ Core(c)
    PROVE  JobInv'
<1>1. CoreShape /\ BootShape /\ JobInv /\ LoopInv /\ Slow' = Slow /\ MaxJobs' = MaxJobs
    BY DEF SmpInv, SmpShape, Slow, MaxJobs
<1>2. CASE \/ Install \/ Fill \/ CheckReady \/ Answer \/ NoAnswer \/ LoopDone
           \/ SendStartup /\ at[boot.i] # "reset"
    <2>1. /\ at' = at /\ UNCHANGED jobs
          /\ boot.at \in Looping \cup {"start"} /\ boot'.at \in Looping
        BY SMT, <1>1, <1>2 DEF Install, Fill, CheckReady, Answer, NoAnswer, LoopDone, SendStartup, core, BootShape, Looping
    <2>2. Standing(AtWork)' = Standing(AtWork) /\ boot.at \notin Later /\ boot'.at \notin Later
        BY <2>1 DEF Standing, Looping, Later
    <2>3. QED
        BY <1>1, <2>1, <2>2 DEF JobInv, JobPhase, Broadcast, CoreJobs, Served, AnswerInv, Looping, Later, jobs
<1>3. CASE SendInit \/ (SendStartup /\ at[boot.i] = "reset")
    <2> DEFINE b == boot.i
    <2>1. b \in Cores /\ at[b] \notin AtWork /\ \E to \in {"reset", "real_mode"} : at' = [at EXCEPT ![b] = to]
        BY <1>1, <1>3 DEF SendInit, SendStartup, LoopInv, Starting, AtWork
    <2>2. UNCHANGED jobs /\ boot.at \in Looping \cup {"start"} /\ boot'.at \in Looping
        BY SMT, <1>1, <1>3 DEF SendInit, SendStartup, BootShape, Looping
    <2>3. PICK to : at' = [at EXCEPT ![b] = to] /\ to \notin AtWork
        BY <2>1 DEF AtWork
    <2>4. boot.at \notin Later
        BY <2>2 DEF Looping, Later
    <2>5. QED
        BY <1>1, <2>1, <2>2, <2>3, <2>4, RisingKeepsJobs
<1>4. CASE Core(c) /\ ~ComeUp(c) /\ ~GoIdle(c) /\ ~TakeJob(c) /\ ~JobReturns(c)
    <2>1. boot' = boot /\ UNCHANGED jobs
        BY <1>4 DEF Core, Fault, LoadStack, SetReady, ReadIndex, Consume, Setup, CountOnline,
            TakeKernelStack, bootside
    <2>2. PICK to \in Rising \cup {"dead"} : at[c] \in Rising /\ at' = [at EXCEPT ![c] = to]
        BY <1>4 DEF Core, Fault, LoadStack, SetReady, ReadIndex, Consume, Setup, CountOnline,
            TakeKernelStack, CoreStep, Rising, OnPage
    <2>3. at[c] \notin AtWork /\ at[c] # "off" /\ to \notin AtWork
        BY <2>2 DEF Rising, OnPage, AtWork
    <2>4. QED
        BY <1>1, <2>1, <2>2, <2>3, RisingKeepsJobs
<1>5. QED
    BY <1>2, <1>3, <1>4, RetireKeepsJobs, BroadcastKeepsJobs, IdleKeepsJobs DEF BootCpu

\* What the run checks follows from the invariant.
LEMMA SmpInvIsEnough == Counting /\ SmpInv => CoresAccounted
<1> SUFFICES ASSUME Counting, SmpInv PROVE CoresAccounted
    OBVIOUS
<1>1. /\ BootShape /\ CoreShape /\ JobShape /\ IdentityInv /\ CountInv /\ JobInv /\ N \in Nat
    BY MachineFacts DEF SmpInv, SmpShape
<1>2. online \in 1..N + 1 /\ cpus_online \in 1..N + 1
    <2>1. \A k \in Nat : k <= N => 1 + k \in 1..N + 1
        BY SMT, <1>1
    <2>2. QED
        BY <1>1, <2>1, StandingCounts DEF CountInv
<1>3. SmpTypeOK
    BY <1>1, <1>2 DEF SmpTypeOK, BootShape, CoreShape, JobShape
<1>4. OnlineExact
    BY <1>1 DEF OnlineExact, CountInv, Standing, Counts
<1>5. JobsWaitForAll
    BY <1>1 DEF JobsWaitForAll, JobInv, AnswerInv, AtWork
<1>6. QED
    BY <1>1, <1>3, <1>4, <1>5 DEF CoresAccounted, IdentityInv

----------------------------------------------------------------------------
Places == Busy \cup {"run", "lock", "spin", "halt", "stopped"}
Dying == {"panic", "halt"}

Types ==
    /\ console_locked \in {"free", "taken"} /\ console_owner \in CPUs \cup {nobody}
    /\ console_depth \in 0..2
    /\ console_pc \in [CPUs -> Places] /\ want \in [CPUs -> Ops \cup Dying \cup {"nothing"}]
    /\ left \in [CPUs -> 0..Prints] /\ target \in [CPUs -> Consoles \cup {nobody}]
    /\ consoles \subseteq Consoles /\ nmi \subseteq CPUs /\ halting \in {"yes", "no"}
    /\ reports \in [begun : SUBSET CPUs, done : SUBSET CPUs]

\* Which call a CPU is in, from where it is.
CallInv ==
    \A c \in CPUs :
        /\ console_pc[c] = "run" => want[c] \in Ops \cup {"nothing"}
        /\ console_pc[c] \in {"report", "halt"} => want[c] = "panic"
        /\ console_pc[c] = "put" => want[c] \in {"write", "halt"}
        /\ console_pc[c] \in Busy \cup {"lock", "spin"} => want[c] \in Ops \cup Dying

\* One CPU is behind the lock, or owns it on its way back in or for good.
LockInv ==
    /\ console_locked = "free" => console_owner = nobody /\ console_depth = 0
    /\ console_owner = nobody => console_depth = 0
    /\ \A c \in CPUs :
        /\ console_pc[c] \in Busy => console_locked = "taken"
        /\ \A d \in CPUs :
            console_pc[c] \in Busy /\ (console_pc[d] \in Busy \/ console_owner = d) => c = d
        /\ console_pc[c] \in {"own", "free"} => console_owner = nobody
        /\ console_pc[c] \in {"count", "disown"} => console_owner = c /\ console_depth = 0
        /\ console_pc[c] \in {"inside", "put", "report", "leave"} =>
            /\ console_owner = c /\ console_depth \in 1..2
            /\ want[c] \in Ops => console_depth = 1
        /\ console_owner = c /\ console_pc[c] \notin Busy =>
            /\ console_pc[c] \in {"lock", "halt", "stopped"}
            /\ console_depth = 1 /\ want[c] \in Dying

TargetInv ==
    \A c \in CPUs : target[c] # nobody => console_pc[c] = "put" /\ target[c] \in consoles

\* The first CPU that halts the others: they have stopped or are about to, and it
\* waits for that with the console in its hands.
Halts(d) ==
    /\ reports.begun = {d} /\ d \notin nmi
    /\ \A o \in CPUs \ {d} : o \in nmi \/ console_pc[o] = "stopped"
    /\ want[d] \in Dying
    /\ want[d] = "panic" => console_pc[d] \in {"report", "leave", "disown", "free", "halt"}
    /\ nmi # {} => console_pc[d] = "report"

HaltInv ==
    \/ reports.begun = {} /\ nmi = {}
    \/ \E d \in CPUs : Halts(d)

IndInv == Types /\ CallInv /\ LockInv /\ TargetInv /\ HaltInv

----------------------------------------------------------------------------
\* No CPU is in a call when the consoles come up.
LEMMA InitHolds == PanicInit => IndInv
BY SMT, NobodyIsNothing, PrintsIsNat
   DEF PanicInit, IndInv, Types, CallInv, LockInv, TargetInv, HaltInv, Places, Busy, Ops, Dying, nobody

\* Every step keeps the types.
LEMMA TypesKept == IndInv /\ PanicNext => Types'
<1> SUFFICES ASSUME IndInv, PanicNext PROVE Types'
    OBVIOUS
<1> USE NobodyIsNothing, PrintsIsNat DEF IndInv, Types, Places, Busy, Ops, Dying, nobody, Jump, lock
<1>1. ASSUME NEW c \in CPUs, ConsoleCall(c) PROVE Types'
    BY SMT, <1>1 DEF ConsoleCall
<1>2. ASSUME NEW c \in CPUs, Panics(c) PROVE Types'
    BY <1>2 DEF Panics
<1>3. ASSUME NEW c \in CPUs, LockAgain(c) PROVE Types'
    BY SMT, <1>3 DEF LockAgain, Owns, LockInv
<1>4. ASSUME NEW c \in CPUs, LockFirst(c) \/ ConsoleExchange(c) \/ StoreConsoleOwner(c) \/ StoreDepth(c) PROVE Types'
    BY SMT, <1>4 DEF LockFirst, ConsoleExchange, StoreConsoleOwner, StoreDepth
<1>5. ASSUME NEW c \in CPUs, CountDown(c) PROVE Types'
    BY SMT, <1>5 DEF CountDown, After, LockInv
<1>6. ASSUME NEW c \in CPUs, ConsoleUnlock(c) PROVE Types'
    BY <1>6 DEF ConsoleUnlock, UnlockStores, After
<1>7. ASSUME NEW c \in CPUs, Put(c) \/ PutReturns(c) \/ PutNowhere(c) PROVE Types'
    BY SMT, <1>7 DEF Put, PutReturns, PutNowhere
<1>8. ASSUME NEW c \in CPUs, console_register(c) \/ console_unregister(c) PROVE Types'
    BY SMT, <1>8 DEF console_register, console_unregister
<1>9. ASSUME NEW c \in CPUs, HaltOthers(c) \/ Report(c) \/ Halt(c) \/ NmiStops(c) PROVE Types'
    BY SMT, <1>9 DEF HaltOthers, Report, Halt, NmiStops
<1> QED
    BY <1>1, <1>2, <1>3, <1>4, <1>5, <1>6, <1>7, <1>8, <1>9 DEF PanicNext, Step

\* A CPU stays in the call it made.
LEMMA CallKept == IndInv /\ PanicNext => CallInv'
<1> SUFFICES ASSUME IndInv, PanicNext PROVE CallInv'
    OBVIOUS
<1> USE DEF IndInv, Types, CallInv, Places, Busy, Ops, Dying, Jump
<1>1. ASSUME NEW c \in CPUs, ConsoleCall(c) \/ Panics(c) \/ Halt(c) \/ NmiStops(c) PROVE CallInv'
    BY SMT, <1>1 DEF ConsoleCall, Panics, Halt, NmiStops
<1>2. ASSUME NEW c \in CPUs, LockAgain(c) \/ LockFirst(c) \/ ConsoleExchange(c)
                             \/ StoreConsoleOwner(c) \/ StoreDepth(c) PROVE CallInv'
    BY SMT, <1>2 DEF LockAgain, LockFirst, ConsoleExchange, StoreConsoleOwner, StoreDepth
<1>3. ASSUME NEW c \in CPUs, CountDown(c) \/ ConsoleUnlock(c) PROVE CallInv'
    BY SMT, <1>3 DEF CountDown, ConsoleUnlock, UnlockStores, After
<1>4. ASSUME NEW c \in CPUs, Put(c) \/ PutReturns(c) \/ PutNowhere(c) \/ console_register(c)
                             \/ console_unregister(c) PROVE CallInv'
    BY SMT, <1>4 DEF Put, PutReturns, PutNowhere, console_register, console_unregister
<1>5. ASSUME NEW c \in CPUs, HaltOthers(c) \/ Report(c) PROVE CallInv'
    BY SMT, <1>5 DEF HaltOthers, Report
<1> QED
    BY <1>1, <1>2, <1>3, <1>4, <1>5 DEF PanicNext, Step

\* An NMI never finds a CPU behind the lock: whoever sent it is there.
LEMMA NmiFindsOutside ==
    ASSUME IndInv, NEW c \in nmi
    PROVE  c \in CPUs /\ console_pc[c] \notin Busy /\ console_owner # c /\ target[c] = nobody
<1>1. PICK d \in CPUs : Halts(d)
    BY DEF IndInv, HaltInv
<1>2. console_pc[d] = "report" /\ c # d /\ c \in CPUs
    BY <1>1 DEF Halts, IndInv, Types
<1>3. console_pc[d] \in Busy /\ console_owner = d
    BY <1>2 DEF IndInv, LockInv, Busy
<1>4. console_pc[c] \notin Busy
    BY <1>2, <1>3 DEF IndInv, LockInv
<1> QED
    BY <1>2, <1>3, <1>4 DEF IndInv, TargetInv, Busy

\* A step of a CPU keeps what the lock, its owner and its depth say of each other.
LEMMA LockKept == IndInv /\ PanicNext => LockInv'
<1> SUFFICES ASSUME IndInv, PanicNext PROVE LockInv'
    OBVIOUS
<1> USE NobodyIsNothing DEF IndInv, Types, CallInv, LockInv, Places, Busy, Ops, Dying, nobody, Jump, lock
<1>1. ASSUME NEW c \in CPUs, ConsoleCall(c) PROVE LockInv'
    BY SMT, <1>1 DEF ConsoleCall
<1>2. ASSUME NEW c \in CPUs, Panics(c) PROVE LockInv'
    BY SMT, <1>2 DEF Panics
<1>3. ASSUME NEW c \in CPUs, LockAgain(c) PROVE LockInv'
    BY SMT, <1>3 DEF LockAgain, Owns
<1>4. ASSUME NEW c \in CPUs, LockFirst(c) PROVE LockInv'
    BY SMT, <1>4 DEF LockFirst, Owns
<1>5. ASSUME NEW c \in CPUs, ConsoleExchange(c) PROVE LockInv'
    BY SMT, <1>5 DEF ConsoleExchange, SpinEnds
<1>6. ASSUME NEW c \in CPUs, StoreConsoleOwner(c) PROVE LockInv'
    BY SMT, <1>6 DEF StoreConsoleOwner
<1>7. ASSUME NEW c \in CPUs, StoreDepth(c) PROVE LockInv'
    BY SMT, <1>7 DEF StoreDepth
<1>8. ASSUME NEW c \in CPUs, CountDown(c) PROVE LockInv'
    BY SMT, <1>8 DEF CountDown, After
<1>9. ASSUME NEW c \in CPUs, ConsoleUnlock(c) PROVE LockInv'
    BY SMT, <1>9 DEF ConsoleUnlock, UnlockStores, After
<1>10. ASSUME NEW c \in CPUs, Put(c) \/ PutReturns(c) \/ PutNowhere(c) PROVE LockInv'
    BY SMT, <1>10 DEF Put, PutReturns, PutNowhere
<1>11. ASSUME NEW c \in CPUs, console_register(c) \/ console_unregister(c) PROVE LockInv'
    BY SMT, <1>11 DEF console_register, console_unregister
<1>12. ASSUME NEW c \in CPUs, HaltOthers(c) \/ Report(c) PROVE LockInv'
    BY SMT, <1>12 DEF HaltOthers, Report
<1>13. ASSUME NEW c \in CPUs, Halt(c) PROVE LockInv'
    BY SMT, <1>13 DEF Halt
<1>14. ASSUME NEW c \in CPUs, NmiStops(c) PROVE LockInv'
    <2>1. c \in nmi
        BY <1>14 DEF NmiStops
    <2>2. console_pc[c] \notin Busy /\ console_owner # c
        BY <2>1, NmiFindsOutside
    <2> QED
        BY SMT, <1>14, <2>2 DEF NmiStops
<1> QED
    BY ZenonT(30), <1>1, <1>2, <1>3, <1>4, <1>5, <1>6, <1>7, <1>8, <1>9, <1>10, <1>11, <1>12, <1>13, <1>14
       DEF PanicNext, Step

\* A CPU in a put() is in one of a registered console.
LEMMA TargetKept == IndInv /\ PanicNext => TargetInv'
<1> SUFFICES ASSUME IndInv, PanicNext PROVE TargetInv'
    OBVIOUS
<1> USE NobodyIsNothing DEF IndInv, Types, TargetInv, Places, Busy, Ops, Dying, nobody, Jump
<1>1. ASSUME NEW c \in CPUs, ConsoleCall(c) \/ Panics(c) \/ Halt(c) \/ HaltOthers(c) \/ Report(c) PROVE TargetInv'
    BY SMT, <1>1 DEF ConsoleCall, Panics, Halt, HaltOthers, Report
<1>2. ASSUME NEW c \in CPUs, LockAgain(c) \/ LockFirst(c) \/ ConsoleExchange(c)
                             \/ StoreConsoleOwner(c) \/ StoreDepth(c) PROVE TargetInv'
    BY SMT, <1>2 DEF LockAgain, LockFirst, ConsoleExchange, StoreConsoleOwner, StoreDepth
<1>3. ASSUME NEW c \in CPUs, CountDown(c) \/ ConsoleUnlock(c) PROVE TargetInv'
    BY ZenonT(30), <1>3 DEF CountDown, ConsoleUnlock, UnlockStores
<1>4. ASSUME NEW c \in CPUs, Put(c) \/ PutReturns(c) \/ PutNowhere(c) PROVE TargetInv'
    BY SMT, <1>4 DEF Put, PutReturns, PutNowhere
<1>5. ASSUME NEW c \in CPUs, console_register(c) \/ console_unregister(c) PROVE TargetInv'
    BY <1>5 DEF console_register, console_unregister, LockInv
<1>6. ASSUME NEW c \in CPUs, NmiStops(c) PROVE TargetInv'
    BY ZenonT(30), <1>6, NmiFindsOutside DEF NmiStops
<1> QED
    BY <1>1, <1>2, <1>3, <1>4, <1>5, <1>6 DEF PanicNext, Step

\* A CPU that halts the others is the first to do so: the others have stopped, or
\* have an NMI on its way that keeps them out of the console.
LEMMA FirstToHalt ==
    ASSUME IndInv, NEW c \in CPUs, console_pc[c] = "inside", want[c] = "panic"
    PROVE  reports.begun = {} /\ nmi = {}
<1> SUFFICES ASSUME NEW d \in CPUs, Halts(d) PROVE FALSE
    BY DEF IndInv, HaltInv
<1>1. c # d
    BY DEF Halts
<1>2. c \in nmi
    BY <1>1 DEF Halts
<1> QED
    BY <1>2, NmiFindsOutside DEF Busy

\* One CPU halts the others, and reports before any of them could.
LEMMA HaltKept == IndInv /\ PanicNext => HaltInv'
<1> SUFFICES ASSUME IndInv, PanicNext PROVE HaltInv'
    OBVIOUS
<1>1. ASSUME NEW c \in CPUs, HaltOthers(c) PROVE HaltInv'
    <2>1. reports.begun = {} /\ nmi = {}
        BY <1>1, FirstToHalt DEF HaltOthers
    <2>2. Halts(c)'
        BY <1>1, <2>1 DEF HaltOthers, Halts, Jump, IndInv, Types, Dying
    <2> QED
        BY <2>2 DEF HaltInv
<1>2. ASSUME ~ \E c \in CPUs : HaltOthers(c), reports.begun = {}, nmi = {} PROVE HaltInv'
    <2>1. reports'.begun = {} /\ nmi' = {}
        BY ZenonT(30), <1>2 DEF PanicNext, Step, ConsoleCall, Panics, LockAgain, LockFirst, ConsoleExchange,
           StoreConsoleOwner, StoreDepth, CountDown, ConsoleUnlock, Put, PutReturns, PutNowhere,
           console_register, console_unregister, Report, Halt, NmiStops, IndInv, Types
    <2> QED
        BY <2>1 DEF HaltInv
<1>3. ASSUME ~ \E c \in CPUs : HaltOthers(c), NEW d \in CPUs, Halts(d) PROVE HaltInv'
    <2> SUFFICES Halts(d)'
        BY DEF HaltInv
    <2> USE <1>3 DEF Halts, IndInv, Types, Jump, Dying
    <2>1. ASSUME NEW c \in CPUs, NmiStops(c) PROVE Halts(d)'
        BY <2>1 DEF NmiStops
    <2>2. ASSUME NEW c \in CPUs, ConsoleCall(c) \/ Panics(c) PROVE Halts(d)'
        BY ZenonT(30), <2>2 DEF ConsoleCall, Panics, CallInv, Ops
    <2>3. ASSUME NEW c \in CPUs, LockAgain(c) \/ LockFirst(c) \/ ConsoleExchange(c)
                                 \/ StoreConsoleOwner(c) \/ StoreDepth(c) PROVE Halts(d)'
        BY ZenonT(30), <2>3 DEF LockAgain, LockFirst, ConsoleExchange, StoreConsoleOwner, StoreDepth
    <2>4. ASSUME NEW c \in CPUs, CountDown(c) \/ ConsoleUnlock(c) PROVE Halts(d)'
        BY ZenonT(30), <2>4 DEF CountDown, ConsoleUnlock, After
    <2>5. ASSUME NEW c \in CPUs, Put(c) \/ PutReturns(c) \/ PutNowhere(c) \/ console_register(c)
                                 \/ console_unregister(c) PROVE Halts(d)'
        BY <2>5 DEF Put, PutReturns, PutNowhere, console_register, console_unregister, CallInv
    <2>6. ASSUME NEW c \in CPUs, Report(c) \/ Halt(c) PROVE Halts(d)'
        BY SMT, <2>6 DEF Report, Halt
    <2> QED
        BY ZenonT(30), <2>1, <2>2, <2>3, <2>4, <2>5, <2>6 DEF PanicNext, Step
<1> QED
    BY <1>1, <1>2, <1>3 DEF IndInv, HaltInv

\* Every step keeps the invariant.
LEMMA InvariantKept == IndInv /\ [PanicNext]_panic_vars => IndInv'
<1>1. CASE PanicNext
    BY <1>1, TypesKept, CallKept, LockKept, TargetKept, HaltKept DEF IndInv
<1>2. CASE UNCHANGED panic_vars
    BY SMT, <1>2 DEF panic_vars, lock, IndInv, Types, CallInv, LockInv, TargetInv, HaltInv, Halts
<1> QED
    BY <1>1, <1>2

\* The invariant is strong enough.
LEMMA InvariantSuffices == IndInv => ConsoleStaysWhole
<1> SUFFICES ASSUME IndInv PROVE ConsoleStaysWhole
    OBVIOUS
<1>1. PanicTypeOK
    BY DEF IndInv, Types, PanicTypeOK
<1>2. ConsoleIsExclusive /\ PutsOnRegistered
    BY DEF IndInv, LockInv, TargetInv, ConsoleIsExclusive, PutsOnRegistered
<1>3. OneReport
    BY DEF IndInv, HaltInv, Halts, OneReport
<1> QED
    BY <1>1, <1>2, <1>3 DEF ConsoleStaysWhole

\* What reaches the screen is whole, for any number of CPUs: one CPU at a time is
\* behind console_lock, also when panic() or an NMI breaks into a write, it prints on
\* registered consoles only, and of the CPUs that panic together one reports.
THEOREM ScreenStaysWhole == PanicSpec => []ConsoleStaysWhole
<1>1. PanicInit => IndInv
    BY InitHolds
<1>2. IndInv /\ [PanicNext]_panic_vars => IndInv'
    BY InvariantKept
<1>3. IndInv => ConsoleStaysWhole
    BY InvariantSuffices
<1> QED
    BY <1>1, <1>2, <1>3, PTL DEF PanicSpec

-----------------------------------------------------------------------------
\* What each variable of a fault may hold.
FaultTypes ==
    /\ guards_unmapped \in BOOLEAN /\ overwritten \in SUBSET Guarded
    /\ stack \in [Processors -> Stacks]
    /\ regs \in [Stacks -> [vector : {0, 2, 6, 8, 14, 18}, rsp : {elsewhere} \cup Stacks]]
    /\ cr2 \in [Processors -> {elsewhere} \cup Stacks]
    /\ doing \in [Processors -> {"runs", "dispatch", "panic", "halted", "stopped"}]
    /\ halt_sent \in BOOLEAN /\ nmis \subseteq Processors /\ reset \in BOOLEAN
    /\ named \in [Processors -> SUBSET Guarded] /\ trampled \subseteq Processors
    /\ ran_into \subseteq Processors \X Stacks

\* An address that a processor is about to report is one of a hole it ran into; and
\* whichever frame it is about to look at leads to that address, or to the halt.
Remembered ==
    \A p \in Processors :
        /\ cr2[p] = elsewhere \/ <<p, cr2[p]>> \in ran_into
        /\ doing[p] = "runs" =>
              cr2[p] = elsewhere /\ stack[p] \notin {double_fault, nmi_stack, machine_check}
        /\ p \notin trampled /\ doing[p] = "dispatch" =>
              /\ regs[stack[p]].rsp = elsewhere \/ <<p, regs[stack[p]].rsp>> \in ran_into
              /\ \/ regs[stack[p]].vector \in {8, 14} \/ cr2[p] = elsewhere \/ reset
                 \/ regs[stack[p]].vector = 2 /\ halt_sent

NmisFollowHalt == nmis # {} => halt_sent

FaultInv ==
    /\ FaultTypes /\ Remembered /\ NmisFollowHalt
    /\ NamesAreTrue /\ HoleIsNamed /\ PatternIsNamed /\ ResetOnlyInDoubleFault

\* The stacks are numbered from one, the guarded ones first (kernel/stack_guard.cpp).
LEMMA StacksAreNumbers ==
    Stacks \subseteq Nat \ {0} /\ Guarded \subseteq Stacks /\ elsewhere \notin Stacks
    /\ \A p \in Processors : ThreadStack(p) \in Stacks \ Guarded
BY SMT, TheBootProcessor DEF Stacks, Guarded, ThreadStack, kernel, elsewhere

\* What holds of the reports holds before the first fault.
LEMMA FaultInvInit == FaultsInit => FaultInv
<1> SUFFICES ASSUME FaultsInit PROVE FaultInv
  OBVIOUS
<1>1. FaultTypes
  <2>1. stack \in [Processors -> Stacks]
    BY SMT, StacksAreNumbers DEF FaultsInit, Guarded, kernel
  <2>2. no_frame \in [vector : {0, 2, 6, 8, 14, 18}, rsp : {elsewhere} \cup Stacks]
    BY DEF no_frame
  <2>3. regs \in [Stacks -> [vector : {0, 2, 6, 8, 14, 18}, rsp : {elsewhere} \cup Stacks]]
    BY <2>2 DEF FaultsInit
  <2> QED
    BY ZenonT(30), <2>1, <2>3 DEF FaultsInit, FaultTypes
<1>2. Remembered /\ NmisFollowHalt
  BY SMT, StacksAreNumbers, TheBootProcessor
     DEF FaultsInit, Remembered, NmisFollowHalt, ThreadStack, kernel, double_fault, nmi_stack, machine_check
<1>3. NamesAreTrue /\ HoleIsNamed /\ PatternIsNamed /\ ResetOnlyInDoubleFault
  BY DEF FaultsInit, NamesAreTrue, HoleIsNamed, PatternIsNamed, ResetOnlyInDoubleFault
<1> QED
  BY <1>1, <1>2, <1>3 DEF FaultInv

\* The frame that p now finds on its stack.
OwnFrame(p, vector, top) == regs'[stack'[p]].vector = vector /\ regs'[stack'[p]].rsp = top

\* What q still finds after another processor's frame.
OthersFrame(q) ==
    /\ stack'[q] = stack[q]
    /\ q \notin trampled' /\ doing[q] = "dispatch" => regs'[stack'[q]] = regs[stack[q]]

\* What the push of a frame does, to the processor and to the others.
LEMMA PushedFrame ==
    ASSUME FaultTypes, NEW p \in Processors, NEW vector \in {2, 6, 8, 14, 18},
           NEW top \in {elsewhere} \cup Stacks, PushFrame(p, vector, top)
    PROVE  /\ stack' \in [Processors -> Stacks] /\ doing' = [doing EXCEPT ![p] = "dispatch"]
           /\ regs' \in [Stacks -> [vector : {0, 2, 6, 8, 14, 18}, rsp : {elsewhere} \cup Stacks]]
           /\ OwnFrame(p, vector, top)
           /\ trampled \subseteq trampled' /\ trampled' \subseteq Processors
           /\ \A q \in Processors \ {p} : OthersFrame(q)
<1> DEFINE s == ist_for_vector(p, vector)
<1>1. s \in Stacks
  BY SMT, StacksAreNumbers DEF ist_for_vector, tss_init_cpu, exception_stack_top, FaultTypes, Guarded,
     double_fault, nmi_stack, machine_check
<1>2. /\ stack' = [stack EXCEPT ![p] = s]
      /\ regs' = [regs EXCEPT ![s] = [vector |-> vector, rsp |-> top]]
      /\ doing' = [doing EXCEPT ![p] = "dispatch"]
      /\ trampled' = trampled \cup {q \in Processors \ {p} : stack[q] = s /\ doing[q] # "stopped"}
  BY DEF PushFrame
<1> HIDE DEF s
<1>3. [vector |-> vector, rsp |-> top] \in [vector : {0, 2, 6, 8, 14, 18}, rsp : {elsewhere} \cup Stacks]
  OBVIOUS
<1>4. OwnFrame(p, vector, top)
  <2>1. regs'[stack'[p]] = [vector |-> vector, rsp |-> top]
    BY <1>1, <1>2 DEF FaultTypes
  <2>2. QED
    BY SMT, <2>1 DEF OwnFrame
<1>5. ASSUME NEW q \in Processors \ {p}
      PROVE  OthersFrame(q)
  BY <1>1, <1>2 DEF FaultTypes, OthersFrame
<1>6. /\ stack' \in [Processors -> Stacks]
      /\ regs' \in [Stacks -> [vector : {0, 2, 6, 8, 14, 18}, rsp : {elsewhere} \cup Stacks]]
      /\ trampled \subseteq trampled' /\ trampled' \subseteq Processors
  BY <1>1, <1>2, <1>3 DEF FaultTypes
<1> QED
  BY <1>2, <1>4, <1>5, <1>6

\* Every step of a fault keeps the types.
LEMMA TypesStep == FaultTypes /\ [FaultsNext]_fault_vars => FaultTypes'
<1> SUFFICES ASSUME FaultTypes, [FaultsNext]_fault_vars PROVE FaultTypes'
  OBVIOUS
<1>1. CASE unmap_stack_guards
  BY <1>1 DEF unmap_stack_guards, FaultTypes
<1>2. CASE SwitchThread
  BY SMT, <1>2, StacksAreNumbers, TheBootProcessor DEF SwitchThread, FaultTypes, Guarded, kernel
<1>3. ASSUME NEW p \in Processors, Overflow(p) PROVE FaultTypes'
  <2> DEFINE s == stack[p]
  <2>0. s \in Stacks
    BY DEF FaultTypes
  <2>1. CASE /\ s \in Guarded /\ ~guards_unmapped /\ overwritten' = overwritten \cup {s}
             /\ UNCHANGED <<stack, regs, cr2, doing, ran_into, trampled, reset>>
    BY <1>3, <2>1 DEF Overflow, FaultTypes
  <2>2. CASE /\ ran_into' = ran_into \cup {<<p, s>>} /\ cr2' = [cr2 EXCEPT ![p] = s]
             /\ reset' = TRUE /\ UNCHANGED <<stack, regs, doing, trampled, overwritten>>
    BY SMT, <1>3, <2>0, <2>2 DEF Overflow, FaultTypes
  <2>3. CASE /\ ran_into' = ran_into \cup {<<p, s>>} /\ cr2' = [cr2 EXCEPT ![p] = s]
             /\ \E top \in {s, elsewhere} : PushFrame(p, 8, top)
             /\ UNCHANGED <<overwritten, reset>>
    <3>1. PICK top \in {s, elsewhere} : PushFrame(p, 8, top)
      BY <2>3
    <3>2. top \in {elsewhere} \cup Stacks
      BY <2>0
    <3>3. /\ stack' \in [Processors -> Stacks] /\ doing' = [doing EXCEPT ![p] = "dispatch"]
          /\ regs' \in [Stacks -> [vector : {0, 2, 6, 8, 14, 18}, rsp : {elsewhere} \cup Stacks]]
          /\ trampled' \subseteq Processors
      BY ZenonT(30), <3>1, <3>2, PushedFrame
    <3> QED
      BY SMT, <1>3, <2>0, <2>3, <3>3 DEF Overflow, FaultTypes
  <2> QED
    BY ZenonT(30), <1>3, <2>1, <2>2, <2>3 DEF Overflow
<1>4. ASSUME NEW p \in Processors, NEW vector \in {6, 14, 18}, Exception(p, vector) PROVE FaultTypes'
  <2>1. /\ stack' \in [Processors -> Stacks] /\ doing' = [doing EXCEPT ![p] = "dispatch"]
        /\ regs' \in [Stacks -> [vector : {0, 2, 6, 8, 14, 18}, rsp : {elsewhere} \cup Stacks]]
        /\ trampled' \subseteq Processors
    BY ZenonT(30), <1>4, PushedFrame DEF Exception
  <2> QED
    BY <1>4, <2>1 DEF Exception, FaultTypes
<1>5. ASSUME NEW p \in Processors, TakeNmi(p) PROVE FaultTypes'
  <2>1. /\ stack' \in [Processors -> Stacks] /\ doing' = [doing EXCEPT ![p] = "dispatch"]
        /\ regs' \in [Stacks -> [vector : {0, 2, 6, 8, 14, 18}, rsp : {elsewhere} \cup Stacks]]
        /\ trampled' \subseteq Processors
    BY ZenonT(30), <1>5, PushedFrame DEF TakeNmi
  <2> QED
    BY <1>5, <2>1 DEF TakeNmi, FaultTypes
<1>6. ASSUME NEW p \in Processors, isr_dispatch(p) PROVE FaultTypes'
  <2>1. named' \in [Processors -> SUBSET Guarded]
    BY <1>6 DEF isr_dispatch, FaultTypes, report_double_fault, guard_page_owner
  <2> QED
    BY <1>6, <2>1 DEF isr_dispatch, FaultTypes
<1>7. ASSUME NEW p \in Processors, Panic(p) PROVE FaultTypes'
  BY <1>7 DEF Panic, FaultTypes, dump_stack_guards, overflowed_stack_name
<1>8. CASE UNCHANGED fault_vars
  BY <1>8 DEF fault_vars, FaultTypes
<1> QED
  BY <1>1, <1>2, <1>3, <1>4, <1>5, <1>6, <1>7, <1>8 DEF FaultsNext

\* A frame pushed on p for an address that is elsewhere or a hole p ran into keeps what
\* is remembered, of p and of the others.
LEMMA PushRemembers ==
    ASSUME FaultInv, FaultTypes', NEW p \in Processors, NEW vector \in {2, 6, 8, 14, 18},
           NEW top \in {elsewhere} \cup Stacks, PushFrame(p, vector, top),
           ran_into \subseteq ran_into', UNCHANGED <<halt_sent, reset>>,
           top = elsewhere \/ <<p, top>> \in ran_into',
           \A q \in Processors \ {p} : cr2'[q] = cr2[q],
           cr2'[p] = elsewhere \/ <<p, cr2'[p]>> \in ran_into',
           vector \in {8, 14} \/ cr2'[p] = elsewhere \/ (vector = 2 /\ halt_sent)
    PROVE  Remembered'
<1>0. FaultTypes
  BY DEF FaultInv
<1>1. /\ doing' = [doing EXCEPT ![p] = "dispatch"] /\ trampled \subseteq trampled'
      /\ OwnFrame(p, vector, top)
      /\ \A q \in Processors \ {p} : OthersFrame(q)
  BY ZenonT(30), <1>0, PushedFrame
<1>2. doing'[p] = "dispatch" /\ \A q \in Processors \ {p} : doing'[q] = doing[q]
  BY ZenonT(30), <1>1 DEF FaultInv, FaultTypes
<1>3. ASSUME NEW q \in Processors
      PROVE  /\ cr2'[q] = elsewhere \/ <<q, cr2'[q]>> \in ran_into'
             /\ doing'[q] = "runs" =>
                    cr2'[q] = elsewhere /\ stack'[q] \notin {double_fault, nmi_stack, machine_check}
             /\ q \notin trampled' /\ doing'[q] = "dispatch" =>
                    /\ regs'[stack'[q]].rsp = elsewhere \/ <<q, regs'[stack'[q]].rsp>> \in ran_into'
                    /\ \/ regs'[stack'[q]].vector \in {8, 14} \/ cr2'[q] = elsewhere \/ reset'
                       \/ regs'[stack'[q]].vector = 2 /\ halt_sent'
  <2>1. CASE q = p
    <3>1. regs'[stack'[p]].rsp = top /\ regs'[stack'[p]].vector = vector
      BY <1>1 DEF OwnFrame
    <3>2. doing'[p] # "runs"
      BY <1>2
    <3>3. \/ regs'[stack'[p]].vector \in {8, 14} \/ cr2'[p] = elsewhere \/ reset'
          \/ regs'[stack'[p]].vector = 2 /\ halt_sent'
      BY <3>1
    <3>4. regs'[stack'[p]].rsp = elsewhere \/ <<p, regs'[stack'[p]].rsp>> \in ran_into'
      BY <3>1
    <3> QED
      BY <2>1, <3>2, <3>3, <3>4
  <2>2. CASE q # p
    <3>1. /\ stack'[q] = stack[q] /\ cr2'[q] = cr2[q] /\ doing'[q] = doing[q]
          /\ q \notin trampled' => q \notin trampled
          /\ q \notin trampled' /\ doing[q] = "dispatch" => regs'[stack'[q]] = regs[stack[q]]
      BY <1>1, <1>2, <2>2 DEF OthersFrame
    <3> QED
      BY ZenonT(30), <3>1 DEF FaultInv, Remembered
  <2> QED
    BY <2>1, <2>2
<1> QED
  BY ZenonT(30), <1>3 DEF Remembered

\* The rest of the invariant, when nobody reports and no pattern is written over.
LEMMA PushKeepsReports ==
    ASSUME FaultInv, NEW p \in Processors, doing' = [doing EXCEPT ![p] = "dispatch"],
           \A q \in Processors \ {p} : cr2'[q] = cr2[q],
           trampled \subseteq trampled', ran_into \subseteq ran_into',
           UNCHANGED <<named, overwritten, guards_unmapped, reset>>
    PROVE  NamesAreTrue' /\ HoleIsNamed' /\ PatternIsNamed' /\ ResetOnlyInDoubleFault'
<1>1. doing'[p] = "dispatch" /\ \A q \in Processors \ {p} : doing'[q] = doing[q]
  BY DEF FaultInv, FaultTypes
<1>2. NamesAreTrue'
  BY ZenonT(30) DEF FaultInv, NamesAreTrue
<1>3. HoleIsNamed'
  <2> SUFFICES ASSUME NEW q \in Processors \ trampled', ~reset', doing'[q] \in {"panic", "halted"}
               PROVE  guard_page_owner(cr2'[q]) \subseteq named'[q]
    BY DEF HoleIsNamed, guard_page_owner
  <2>1. q # p /\ q \notin trampled
    BY <1>1
  <2> QED
    BY <1>1, <2>1 DEF FaultInv, HoleIsNamed, guard_page_owner
<1>4. PatternIsNamed'
  BY <1>1, TheBootProcessor DEF FaultInv, PatternIsNamed
<1>5. ResetOnlyInDoubleFault'
  BY DEF FaultInv, ResetOnlyInDoubleFault
<1> QED
  BY <1>2, <1>3, <1>4, <1>5

\* A stack that overflows keeps them true: over a pattern, into a hole, or into a reset.
LEMMA OverflowStep ==
    ASSUME FaultInv, FaultTypes', NEW p \in Processors, Overflow(p)
    PROVE  FaultInv'
<1> DEFINE s == stack[p]
<1>0. s \in Stacks /\ FaultTypes
  BY DEF FaultInv, FaultTypes
<1>1. CASE /\ s \in Guarded /\ ~guards_unmapped /\ overwritten' = overwritten \cup {s}
           /\ UNCHANGED <<stack, regs, cr2, doing, ran_into, trampled, reset>>
  <2>1. UNCHANGED <<guards_unmapped, halt_sent, nmis, named>> /\ Executes(p)
    BY DEF Overflow
  <2>2. p = 1 /\ doing[1] # "halted"
    BY <1>1, <2>1 DEF Executes, Up
  <2>3. Remembered' /\ NmisFollowHalt'
    BY <1>1, <2>1 DEF FaultInv, Remembered, NmisFollowHalt
  <2>4. NamesAreTrue' /\ PatternIsNamed' /\ ResetOnlyInDoubleFault'
    <3>1. NamesAreTrue'
      BY ZenonT(30), <1>1, <2>1 DEF FaultInv, NamesAreTrue
    <3>2. PatternIsNamed'
      BY <1>1, <2>1, <2>2 DEF FaultInv, PatternIsNamed
    <3>3. ResetOnlyInDoubleFault'
      BY <1>1, <2>1 DEF FaultInv, ResetOnlyInDoubleFault
    <3> QED
      BY <3>1, <3>2, <3>3
  <2>5. HoleIsNamed'
    BY <1>1, <2>1 DEF FaultInv, HoleIsNamed, guard_page_owner
  <2> QED
    BY <2>3, <2>4, <2>5 DEF FaultInv
<1>2. CASE /\ ran_into' = ran_into \cup {<<p, s>>} /\ cr2' = [cr2 EXCEPT ![p] = s]
           /\ s = double_fault
           /\ reset' = TRUE /\ UNCHANGED <<stack, regs, doing, trampled, overwritten>>
  <2>1. UNCHANGED <<guards_unmapped, halt_sent, nmis, named>> /\ Executes(p)
    BY DEF Overflow
  <2>2. cr2'[p] = s /\ \A q \in Processors \ {p} : cr2'[q] = cr2[q]
    BY <1>0, <1>2 DEF FaultTypes
  <2>3. doing[p] # "runs"
    BY ZenonT(30), <1>2 DEF FaultInv, Remembered
  <2>4. Remembered'
    <3> SUFFICES ASSUME NEW q \in Processors
                 PROVE  /\ cr2'[q] = elsewhere \/ <<q, cr2'[q]>> \in ran_into'
                        /\ doing[q] = "runs" =>
                              cr2'[q] = elsewhere /\ stack[q] \notin {double_fault, nmi_stack, machine_check}
                        /\ q \notin trampled /\ doing[q] = "dispatch" =>
                              regs[stack[q]].rsp = elsewhere \/ <<q, regs[stack[q]].rsp>> \in ran_into'
      BY <1>2 DEF Remembered
    <3>0. /\ cr2[q] = elsewhere \/ <<q, cr2[q]>> \in ran_into
          /\ doing[q] = "runs" =>
                cr2[q] = elsewhere /\ stack[q] \notin {double_fault, nmi_stack, machine_check}
          /\ q \notin trampled /\ doing[q] = "dispatch" =>
                regs[stack[q]].rsp = elsewhere \/ <<q, regs[stack[q]].rsp>> \in ran_into
      BY DEF FaultInv, Remembered
    <3> HIDE DEF s
    <3>1. CASE q = p
      <4>1. cr2'[q] = s /\ <<q, s>> \in ran_into' /\ doing[q] # "runs"
        BY <1>2, <2>2, <2>3, <3>1
      <4>2. ran_into \subseteq ran_into'
        BY <1>2
      <4> QED
        BY <3>0, <4>1, <4>2
    <3>2. CASE q # p
      <4>1. cr2'[q] = cr2[q]
        BY <2>2, <3>2
      <4>2. ran_into \subseteq ran_into'
        BY <1>2
      <4> QED
        BY <3>0, <4>1, <4>2
    <3> QED
      BY <3>1, <3>2
  <2>5. NmisFollowHalt' /\ NamesAreTrue' /\ HoleIsNamed' /\ PatternIsNamed'
    BY <1>2, <2>1 DEF FaultInv, NmisFollowHalt, NamesAreTrue, HoleIsNamed, PatternIsNamed
  <2>6. ResetOnlyInDoubleFault'
    BY <1>2 DEF ResetOnlyInDoubleFault
  <2> QED
    BY <2>4, <2>5, <2>6 DEF FaultInv
<1>3. CASE /\ ran_into' = ran_into \cup {<<p, s>>} /\ cr2' = [cr2 EXCEPT ![p] = s]
           /\ \E top \in {s, elsewhere} : PushFrame(p, 8, top)
           /\ UNCHANGED <<overwritten, reset>>
  <2>1. PICK top \in {s, elsewhere} : PushFrame(p, 8, top)
    BY <1>3
  <2>2. top \in {elsewhere} \cup Stacks /\ (top = elsewhere \/ <<p, top>> \in ran_into')
    BY <1>0, <1>3
  <2>3. UNCHANGED <<guards_unmapped, halt_sent, nmis, named>>
    BY DEF Overflow
  <2>4. cr2'[p] = s /\ \A q \in Processors \ {p} : cr2'[q] = cr2[q]
    BY <1>0, <1>3 DEF FaultTypes
  <2>5. Remembered'
    <3>1. ran_into \subseteq ran_into' /\ <<p, cr2'[p]>> \in ran_into'
      BY SMT, <1>3, <2>4
    <3> HIDE DEF s
    <3> QED
      BY <1>3, <2>1, <2>2, <2>3, <2>4, <3>1, PushRemembers
  <2>6. doing' = [doing EXCEPT ![p] = "dispatch"] /\ trampled \subseteq trampled'
    BY ZenonT(30), <1>0, <2>1, <2>2, PushedFrame
  <2>7. NamesAreTrue' /\ HoleIsNamed' /\ PatternIsNamed' /\ ResetOnlyInDoubleFault'
    BY ZenonT(30), <1>3, <2>3, <2>4, <2>6, PushKeepsReports
  <2> QED
    BY <2>3, <2>5, <2>7 DEF FaultInv, NmisFollowHalt
<1> QED
  BY ZenonT(30), <1>1, <1>2, <1>3 DEF Overflow

\* So does a fault that is no overflow.
LEMMA ExceptionStep ==
    ASSUME FaultInv, FaultTypes', NEW p \in Processors, NEW vector \in {6, 14, 18}, Exception(p, vector)
    PROVE  FaultInv'
<1>1. /\ PushFrame(p, vector, elsewhere) /\ doing[p] = "runs"
      /\ UNCHANGED <<guards_unmapped, overwritten, halt_sent, nmis, named, ran_into, reset>>
  BY DEF Exception
<1>2. cr2'[p] = elsewhere /\ \A q \in Processors \ {p} : cr2'[q] = cr2[q]
  BY ZenonT(30), <1>1 DEF Exception, FaultInv, FaultTypes, Remembered
<1>3. Remembered'
  BY ZenonT(30), <1>1, <1>2, PushRemembers
<1>4. doing' = [doing EXCEPT ![p] = "dispatch"] /\ trampled \subseteq trampled'
  BY ZenonT(30), <1>1, PushedFrame DEF FaultInv
<1>5. NamesAreTrue' /\ HoleIsNamed' /\ PatternIsNamed' /\ ResetOnlyInDoubleFault'
  BY ZenonT(30), <1>1, <1>2, <1>4, PushKeepsReports
<1> QED
  BY <1>1, <1>3, <1>5 DEF FaultInv, NmisFollowHalt

\* So does the NMI of a processor that panics, which finds the one it stops in any place.
LEMMA TakeNmiStep ==
    ASSUME FaultInv, FaultTypes', NEW p \in Processors, TakeNmi(p)
    PROVE  FaultInv'
<1>1. /\ PushFrame(p, 2, elsewhere) /\ p \in nmis /\ nmis' = nmis \ {p}
      /\ UNCHANGED <<guards_unmapped, overwritten, cr2, halt_sent, named, ran_into, reset>>
  BY DEF TakeNmi
<1>2. halt_sent /\ (cr2[p] = elsewhere \/ <<p, cr2[p]>> \in ran_into)
  BY ZenonT(30), <1>1 DEF FaultInv, NmisFollowHalt, Remembered
<1>3. Remembered'
  BY ZenonT(30), <1>1, <1>2, PushRemembers
<1>4. doing' = [doing EXCEPT ![p] = "dispatch"] /\ trampled \subseteq trampled'
  BY ZenonT(30), <1>1, PushedFrame DEF FaultInv
<1>5. NamesAreTrue' /\ HoleIsNamed' /\ PatternIsNamed' /\ ResetOnlyInDoubleFault'
  BY ZenonT(30), <1>1, <1>4, PushKeepsReports
<1> QED
  BY <1>1, <1>2, <1>3, <1>5 DEF FaultInv, NmisFollowHalt

\* isr_dispatch() keeps the reports true: the frame it reads leads to the hole, if any.
LEMMA DispatchStep ==
    ASSUME FaultInv, FaultTypes', NEW p \in Processors, isr_dispatch(p)
    PROVE  FaultInv'
<1> DEFINE frame == regs[stack[p]]
           report == CASE frame.vector = 8 -> named[p] \cup report_double_fault(p, frame)
                       [] frame.vector = 14 -> named[p] \cup guard_page_owner(cr2[p])
                       [] OTHER -> named[p]
<1>1. /\ ~reset /\ doing[p] = "dispatch"
      /\ doing'[p] = (IF frame.vector = 2 /\ halt_sent THEN "stopped" ELSE "panic")
      /\ \A q \in Processors \ {p} : doing'[q] = doing[q] /\ named'[q] = named[q]
      /\ named'[p] = report
      /\ UNCHANGED <<guards_unmapped, overwritten, stack, regs, cr2, halt_sent, nmis, ran_into, trampled, reset>>
  BY ZenonT(30) DEF isr_dispatch, FaultInv, FaultTypes
<1>2. named[p] \subseteq report /\ (frame.vector \in {8, 14} => guard_page_owner(cr2[p]) \subseteq report)
  BY DEF report_double_fault
<1>3. \A s \in report : s \in named[p] \/ s \in {cr2[p], frame.rsp} \cap Guarded
  BY DEF report_double_fault, guard_page_owner
<1> HIDE DEF report
<1>4. Remembered'
  <2> SUFFICES ASSUME NEW q \in Processors
               PROVE  /\ cr2[q] = elsewhere \/ <<q, cr2[q]>> \in ran_into
                      /\ doing'[q] = "runs" =>
                            cr2[q] = elsewhere /\ stack[q] \notin {double_fault, nmi_stack, machine_check}
                      /\ q \notin trampled /\ doing'[q] = "dispatch" =>
                            /\ regs[stack[q]].rsp = elsewhere \/ <<q, regs[stack[q]].rsp>> \in ran_into
                            /\ \/ regs[stack[q]].vector \in {8, 14} \/ cr2[q] = elsewhere \/ reset
                               \/ regs[stack[q]].vector = 2 /\ halt_sent
    BY <1>1 DEF Remembered
  <2>1. doing'[q] \in {"runs", "dispatch"} => doing'[q] = doing[q]
    BY ZenonT(30), <1>1
  <2> QED
    BY <2>1 DEF FaultInv, Remembered
<1>5. NamesAreTrue'
  <2> SUFFICES ASSUME NEW q \in Processors \ trampled, NEW s \in named'[q]
               PROVE  <<q, s>> \in ran_into \/ s \in overwritten
    BY ZenonT(30), <1>1 DEF NamesAreTrue
  <2>1. CASE s \in named[q]
    BY <2>1 DEF FaultInv, NamesAreTrue
  <2>2. CASE s \notin named[q]
    <3>1. q = p /\ s \in {cr2[p], frame.rsp} /\ s # elsewhere
      BY SMT, <1>1, <1>3, <2>2 DEF Guarded, elsewhere
    <3> QED
      BY ZenonT(30), <1>1, <3>1 DEF FaultInv, Remembered
  <2> QED
    BY <2>1, <2>2
<1>6. HoleIsNamed'
  <2> SUFFICES ASSUME NEW q \in Processors \ trampled, doing'[q] \in {"panic", "halted"}
               PROVE  guard_page_owner(cr2[q]) \subseteq named'[q]
    BY <1>1 DEF HoleIsNamed, guard_page_owner
  <2>1. CASE q = p
    <3>1. frame.vector \in {8, 14} \/ cr2[p] = elsewhere
      BY ZenonT(30), <1>1, <2>1 DEF FaultInv, Remembered
    <3>2. cr2[p] = elsewhere => guard_page_owner(cr2[p]) = {}
      BY SMT DEF guard_page_owner, Guarded, elsewhere
    <3> QED
      BY <1>1, <1>2, <2>1, <3>1, <3>2
  <2>2. CASE q # p
    BY <1>1, <2>2 DEF FaultInv, HoleIsNamed
  <2> QED
    BY <2>1, <2>2
<1>7. PatternIsNamed' /\ ResetOnlyInDoubleFault' /\ NmisFollowHalt'
  BY <1>1, <1>2, TheBootProcessor DEF FaultInv, PatternIsNamed, ResetOnlyInDoubleFault, NmisFollowHalt
<1> QED
  BY <1>4, <1>5, <1>6, <1>7 DEF FaultInv

\* dump_stack_guards() names a stack whose pattern is gone if there is one to read.
LEMMA GuardsSearched ==
    ASSUME FaultTypes
    PROVE  /\ dump_stack_guards \subseteq overwritten
           /\ ~guards_unmapped /\ overwritten # {} => dump_stack_guards # {}
<1>1. dump_stack_guards \subseteq overwritten
  BY DEF dump_stack_guards, overflowed_stack_name, guard_intact
<1>2. ASSUME ~guards_unmapped, overwritten # {} PROVE dump_stack_guards # {}
  <2>0. overwritten \subseteq {1, 2, 3, 4}
    BY SMT DEF FaultTypes, Guarded
  <2>1. PICK s \in overwritten : \A k \in overwritten : s <= k
    <3>1. CASE 1 \in overwritten
      BY SMT, <2>0, <3>1
    <3>2. CASE 1 \notin overwritten /\ 2 \in overwritten
      BY SMT, <2>0, <3>2
    <3>3. CASE 1 \notin overwritten /\ 2 \notin overwritten /\ 3 \in overwritten
      BY SMT, <2>0, <3>3
    <3>4. CASE overwritten = {4}
      BY SMT, <2>0, <3>4
    <3> QED
      BY ZenonT(30), <1>2, <2>0, <3>1, <3>2, <3>3, <3>4
  <2>2. s \in Guarded /\ s \in Nat
    BY SMT DEF FaultTypes, Guarded
  <2>3. ~guard_intact(s) /\ \A k \in 1..(s - 1) : guard_intact(k)
    BY SMT, <1>2, <2>1, <2>2 DEF guard_intact
  <2> QED
    BY <2>2, <2>3 DEF dump_stack_guards, overflowed_stack_name
<1> QED
  BY <1>1, <1>2

\* panic() keeps them true, and stops the other processors.
LEMMA PanicReportStep ==
    ASSUME FaultInv, FaultTypes', NEW p \in Processors, Panic(p)
    PROVE  FaultInv'
<1>1. /\ doing[p] = "panic" /\ doing'[p] = "halted" /\ halt_sent'
      /\ \A q \in Processors \ {p} : doing'[q] = doing[q] /\ named'[q] = named[q]
      /\ named'[p] = named[p] \cup dump_stack_guards
      /\ UNCHANGED <<guards_unmapped, overwritten, stack, regs, cr2, ran_into, trampled, reset>>
  BY SMT DEF Panic, FaultInv, FaultTypes
<1>2. Remembered'
  <2> SUFFICES ASSUME NEW q \in Processors
               PROVE  /\ cr2[q] = elsewhere \/ <<q, cr2[q]>> \in ran_into
                      /\ doing'[q] = "runs" =>
                            cr2[q] = elsewhere /\ stack[q] \notin {double_fault, nmi_stack, machine_check}
                      /\ q \notin trampled /\ doing'[q] = "dispatch" =>
                            /\ regs[stack[q]].rsp = elsewhere \/ <<q, regs[stack[q]].rsp>> \in ran_into
                            /\ \/ regs[stack[q]].vector \in {8, 14} \/ cr2[q] = elsewhere \/ reset
                               \/ regs[stack[q]].vector = 2 /\ halt_sent'
    BY <1>1 DEF Remembered
  <2>1. doing'[q] \in {"runs", "dispatch"} => doing'[q] = doing[q]
    BY ZenonT(30), <1>1
  <2> QED
    BY <1>1, <2>1 DEF FaultInv, Remembered
<1>3. NamesAreTrue'
  BY ZenonT(30), <1>1, GuardsSearched DEF FaultInv, NamesAreTrue
<1>4. HoleIsNamed'
  BY ZenonT(30), <1>1 DEF FaultInv, HoleIsNamed, guard_page_owner
<1>5. PatternIsNamed'
  BY ZenonT(30), <1>1, GuardsSearched, TheBootProcessor DEF FaultInv, PatternIsNamed
<1>6. ResetOnlyInDoubleFault' /\ NmisFollowHalt'
  BY ZenonT(30), <1>1 DEF FaultInv, ResetOnlyInDoubleFault, NmisFollowHalt
<1> QED
  BY <1>2, <1>3, <1>4, <1>5, <1>6 DEF FaultInv

\* Every step does.
LEMMA FaultInvStep == FaultInv /\ [FaultsNext]_fault_vars => FaultInv'
<1> SUFFICES ASSUME FaultInv, [FaultsNext]_fault_vars PROVE FaultInv'
  OBVIOUS
<1>0. FaultTypes'
  BY TypesStep DEF FaultInv
<1>1. CASE unmap_stack_guards
  <2>1. Remembered' /\ NmisFollowHalt'
    BY <1>1 DEF unmap_stack_guards, FaultInv, Remembered, NmisFollowHalt
  <2>2. NamesAreTrue' /\ HoleIsNamed' /\ PatternIsNamed' /\ ResetOnlyInDoubleFault'
    BY <1>1 DEF unmap_stack_guards, FaultInv, NamesAreTrue, HoleIsNamed, PatternIsNamed,
       ResetOnlyInDoubleFault, guard_page_owner
  <2> QED
    BY <1>0, <2>1, <2>2 DEF FaultInv
<1>2. CASE SwitchThread
  <2>1. /\ doing[1] = "runs" /\ stack'[1] \in {kernel, ThreadStack(1)}
        /\ \A q \in Processors \ {1} : stack'[q] = stack[q]
        /\ UNCHANGED <<guards_unmapped, overwritten, regs, cr2, doing, halt_sent, nmis, named, ran_into, trampled, reset>>
    BY <1>2, TheBootProcessor DEF SwitchThread, FaultInv, FaultTypes
  <2>2. stack'[1] \notin {double_fault, nmi_stack, machine_check}
    BY SMT, <2>1 DEF kernel, ThreadStack, double_fault, nmi_stack, machine_check
  <2>3. Remembered' /\ NmisFollowHalt'
    BY ZenonT(30), <2>1, <2>2 DEF FaultInv, Remembered, NmisFollowHalt
  <2>4. NamesAreTrue' /\ HoleIsNamed' /\ PatternIsNamed' /\ ResetOnlyInDoubleFault'
    BY <2>1 DEF FaultInv, NamesAreTrue, HoleIsNamed, PatternIsNamed, ResetOnlyInDoubleFault, guard_page_owner
  <2> QED
    BY ZenonT(30), <1>0, <2>3, <2>4 DEF FaultInv
<1>3. ASSUME NEW p \in Processors,
             \/ Overflow(p) \/ (\E vector \in {6, 14, 18} : Exception(p, vector))
             \/ TakeNmi(p) \/ isr_dispatch(p) \/ Panic(p)
      PROVE  FaultInv'
  BY <1>0, <1>3, OverflowStep, ExceptionStep, TakeNmiStep, DispatchStep, PanicReportStep
<1>4. CASE UNCHANGED fault_vars
  <2>1. Remembered' /\ NmisFollowHalt'
    BY <1>4 DEF fault_vars, FaultInv, Remembered, NmisFollowHalt
  <2>2. NamesAreTrue' /\ HoleIsNamed' /\ PatternIsNamed' /\ ResetOnlyInDoubleFault'
    BY <1>4 DEF fault_vars, FaultInv, NamesAreTrue, HoleIsNamed, PatternIsNamed,
       ResetOnlyInDoubleFault, guard_page_owner
  <2> QED
    BY ZenonT(30), <1>0, <2>1, <2>2 DEF FaultInv
<1> QED
  BY <1>1, <1>2, <1>3, <1>4 DEF FaultsNext

\* For any set of processors and any order of their faults: what a report says of a stack
\* is true, an overflow into a hole or over a pattern is in the report of the processor
\* that panics, and only an overflow of the double-fault stack resets the machine.
THEOREM ReportsAreTrue ==
    FaultsSpec => [](NamesAreTrue /\ HoleIsNamed /\ PatternIsNamed /\ ResetOnlyInDoubleFault)
<1>1. FaultInv => NamesAreTrue /\ HoleIsNamed /\ PatternIsNamed /\ ResetOnlyInDoubleFault
  BY DEF FaultInv
<1> QED
  BY <1>1, FaultInvInit, FaultInvStep, PTL DEF FaultsSpec

\* The frames printed so far go up the stack, and the walk stands above the last.
TraceInv ==
    /\ previous \in [FramePlaces -> 0..Depth] /\ returns \subseteq FramePlaces
    /\ trace_at \in 0..Depth /\ printed \in Seq(FramePlaces)
    /\ trace_pc \in {"walk", "done"}
    /\ trace_pc = "walk" /\ Len(printed) > 0 =>
            previous[printed[Len(printed)]] = trace_at /\ printed[Len(printed)] < trace_at
    /\ TraceIsSound

\* A turn of the loop of backtrace_from() keeps the frames in order.
LEMMA TraceInvStep == TraceInv /\ [TraceStep]_trace_vars => TraceInv'
<1> SUFFICES ASSUME TraceInv, [TraceStep]_trace_vars PROVE TraceInv'
  OBVIOUS
<1> USE TraceBounds
<1>0. printed # Append(printed, trace_at)
  BY SMT DEF TraceInv
<1>1. CASE UNCHANGED trace_vars
  BY <1>1 DEF trace_vars, TraceInv, TraceIsSound
<1>2. CASE TraceStep /\ printed' = printed
  <2>1. trace_pc' = "done" /\ trace_pc = "walk" /\ UNCHANGED <<trace_at, printed, previous, returns>>
        /\ (Len(printed) < max_frames => trace_at = 0 \/ trace_at \notin returns)
    BY <1>2, <1>0 DEF TraceStep, plausible_frame, plausible_text, TraceInv
  <2> DEFINE last == printed[Len(printed)]
  <2>2. ASSUME Len(printed) \in 1..(max_frames - 1) PROVE previous[last] <= last \/ previous[last] \notin returns
    <3>1. Len(printed) > 0 /\ Len(printed) < max_frames /\ last \in FramePlaces
      BY SMT, <2>2 DEF TraceInv
    <3>2. previous[last] = trace_at /\ last \in Nat
      BY SMT, <2>1, <3>1 DEF TraceInv, FramePlaces
    <3>3. trace_at = 0 => trace_at <= last
      BY SMT, <3>2
    <3> QED
      BY <2>1, <3>1, <3>2, <3>3
  <2>3. TraceIsSound'
    BY <2>1, <2>2 DEF TraceInv, TraceIsSound
  <2> QED
    BY <2>1, <2>3 DEF TraceInv
<1>3. CASE TraceStep /\ printed' = Append(printed, trace_at)
  <2>1. /\ trace_pc = "walk" /\ trace_at \in returns /\ UNCHANGED <<previous, returns>>
        /\ IF previous[trace_at] > trace_at THEN trace_at' = previous[trace_at] /\ trace_pc' = "walk"
           ELSE trace_pc' = "done" /\ trace_at' = trace_at
    BY <1>3, <1>0 DEF TraceStep, plausible_text, Higher
  <2>2. trace_at \in FramePlaces /\ printed' \in Seq(FramePlaces)
    BY SMT, <1>3, <2>1 DEF TraceInv
  <2>3. /\ Len(printed') = Len(printed) + 1 /\ Len(printed) \in Nat
        /\ printed'[Len(printed')] = trace_at
        /\ \A i \in 1..Len(printed) : printed'[i] = printed[i]
    BY SMT, <1>3, <2>2 DEF TraceInv
  <2>4. \A i \in 1..(Len(printed') - 1) :
            printed'[i] < printed'[i + 1] /\ printed'[i + 1] = previous'[printed'[i]]
    <3> SUFFICES ASSUME NEW i \in 1..Len(printed)
                 PROVE  printed'[i] < printed'[i + 1] /\ printed'[i + 1] = previous[printed'[i]]
      BY SMT, <2>1, <2>3
    <3>1. CASE i = Len(printed)
      BY SMT, <2>1, <2>3, <3>1 DEF TraceInv
    <3>2. CASE i \in 1..(Len(printed) - 1)
      <4>1. i \in 1..Len(printed) /\ i + 1 \in 1..Len(printed)
        BY SMT, <2>3, <3>2
      <4> QED
        BY <2>3, <3>2, <4>1 DEF TraceInv, TraceIsSound
    <3> QED
      BY SMT, <2>3, <3>1, <3>2
  <2>5. previous[trace_at] \in 0..Depth
    BY <2>2 DEF TraceInv
  <2>6. TraceIsSound'
    BY SMT, <2>1, <2>2, <2>3, <2>4, <2>5 DEF TraceIsSound, FramePlaces
  <2>7. trace_at' \in 0..Depth /\ trace_pc' \in {"walk", "done"}
    BY <2>1, <2>5 DEF TraceInv
  <2>8. trace_pc' = "walk" => previous'[trace_at] = trace_at' /\ trace_at < trace_at'
    BY <2>1, <2>2, <2>5 DEF FramePlaces
  <2> QED
    BY <2>1, <2>2, <2>3, <2>6, <2>7, <2>8 DEF TraceInv
<1> QED
  BY <1>1, <1>2, <1>3 DEF TraceStep

\* With the trace that follows, for any stack: the frames of a report are callers of one
\* another, going up the stack (FaultsAreReported).
THEOREM FaultsReported == FaultsSpec /\ TraceSpec => []FaultsAreReported
<1>1. TraceInit => TraceInv
  BY SMT, TraceBounds DEF TraceInit, TraceInv, TraceIsSound
<1>2. TraceInv => TraceIsSound
  BY DEF TraceInv
<1> QED
  BY <1>1, <1>2, TraceInvStep, ReportsAreTrue, PTL DEF TraceSpec, FaultsAreReported

----------------------------------------------------------------------------
INSTANCE FiniteSetTheorems

\* Finite sets count as the lemmas on the cores suppose.
LEMMA CountingHolds == Counting
<1>1. CountTo
    BY SMT, FS_Interval DEF CountTo
<1>2. CountPart
    BY FS_Subset, FS_CardinalityType DEF CountPart
<1>3. CountMore
    BY FS_AddElement DEF CountMore
<1>4. CountNone
    BY FS_EmptySet DEF CountNone
<1>5. QED
    BY <1>1, <1>2, <1>3, <1>4 DEF Counting

\* However the boot CPU and the cores interleave, every core comes up with its own index,
\* block and stack, is counted once, and smp_run_on_others() says true only after all of
\* them: for any number of cores that come up within the delays smp_init() allows.
THEOREM CoresStayAccounted == (\A m \in Machines : InTime(m)) => (SmpSpec => []CoresAccounted)
<1> SUFFICES ASSUME \A m \in Machines : InTime(m) PROVE SmpSpec => []CoresAccounted
    OBVIOUS
<1>1. SmpInit => SmpInv
    BY CountingHolds, SmpInitInv
<1>2. SmpInv /\ [SmpNext]_smp_vars => SmpInv'
    <2> SUFFICES ASSUME SmpInv, [SmpNext]_smp_vars PROVE SmpInv'
        OBVIOUS
    <2>1. CASE UNCHANGED smp_vars
        <3>1. Slow' = Slow /\ MaxJobs' = MaxJobs /\ Standing(AtWork)' = Standing(AtWork) /\ Standing(Counts)' = Standing(Counts)
            BY <2>1 DEF smp_vars, shared, Slow, MaxJobs, Standing
        <3>2. SmpShape'
            BY <2>1, <3>1 DEF SmpInv, smp_vars, shared, jobs, SmpShape, BootShape, CoreShape, JobShape
        <3>3. LoopInv' /\ OneAtATime' /\ (boot'.at # "start" => Cores # {})
            BY <2>1, <3>1 DEF SmpInv, smp_vars, shared, LoopInv, OneAtATime
        <3>4. IdentityInv' /\ CountInv'
            BY <2>1, <3>1 DEF SmpInv, smp_vars, shared, IdentityInv, OwnIdentity, CountInv
        <3>5. JobPhase' /\ Broadcast'
            BY <2>1, <3>1 DEF SmpInv, smp_vars, shared, jobs, JobInv, JobPhase, Broadcast, Done
        <3>6. CoreJobs' /\ AnswerInv'
            BY <2>1 DEF SmpInv, smp_vars, shared, jobs, JobInv, CoreJobs, Served, Serving, AnswerInv
        <3>7. QED
            BY <3>2, <3>3, <3>4, <3>5, <3>6 DEF SmpInv, JobInv
    <2>2. ASSUME NEW c \in Cores, BootCpu \/ Core(c), UNCHANGED machine PROVE SmpInv'
        BY <2>2, ShapeKept, LoopKept, OneAtATimeKept, IdentityKept, CountKept, JobsKept, CountingHolds
        DEF SmpInv
    <2>3. BootCpu => Cores # {}
        BY DEF SmpInv, BootCpu, Install, Fill, SendInit, SendStartup, CheckReady, Answer, NoAnswer, LoopDone, Retire,
            ClearFinished, Publish, Collect
    <2>4. QED
        BY <2>1, <2>2, <2>3 DEF SmpNext
<1>3. SmpInv => CoresAccounted
    BY CountingHolds, SmpInvIsEnough
<1>4. QED
    BY <1>1, <1>2, <1>3, PTL DEF SmpSpec
=============================================================================
