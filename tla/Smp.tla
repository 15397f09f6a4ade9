-------------------------------- MODULE Smp --------------------------------
(***************************************************************************)
(* kernel/cpu/smp.cpp, trampoline.asm and percpu.cpp: the boot CPU starts  *)
(* the other cores one after another through one shared page, and later    *)
(* asks all of them to run a job.  Core i is the one with APIC id i; its   *)
(* own stack is called i as well.                                          *)
(***************************************************************************)
EXTENDS Integers, FiniteSets

CONSTANTS N,       \* application processors, numbered in the order of the MADT
          Machines \* [slow, jobs, timeout]: the cores that may stall for longer than any
                   \* delay of the boot CPU, a bound on the jobs that are broadcast, and
                   \* whether a job may outlast its broadcast

Cores == 1..N

ASSUME SmpAssumption ==
    /\ N \in Nat
    /\ \A m \in Machines : m.slow \subseteq Cores /\ m.jobs \in Nat /\ m.timeout \in BOOLEAN

VARIABLES data,    \* the slots of the page: stack, ready, index, consumed
          page,    \* is it executable
          boot,    \* where the boot CPU is, and with which core
          at,      \* where each core is
          rsp, index,          \* what each core took from the page
          kernel_stack_top,    \* of each per CPU block
          block,   \* per CPU block that gs of each core points at, 0 before
          online, cpus_online,
          sample,  \* online as read by ++online
          started,
          generation, finished, seen, ran, answer,
          machine  \* the one this is

Slow == machine.slow
MaxJobs == machine.jobs
JobsTimeOut == machine.timeout

shared == <<data, page, boot, at, rsp, index, kernel_stack_top, block, online, cpus_online, sample, started>>
jobs == <<generation, finished, seen, ran, answer>>
smp_vars == <<shared, jobs, machine>>

SmpInit ==
    /\ machine \in Machines
    /\ data = [stack |-> 0, ready |-> 0, index |-> 0, consumed |-> 0]
    /\ page = "data" /\ boot = [at |-> "start", i |-> 1]
    /\ at = [c \in Cores |-> "off"]
    /\ rsp = [c \in Cores |-> 0] /\ index = [c \in Cores |-> 0]
    /\ kernel_stack_top = [c \in Cores |-> 0] /\ block = [c \in Cores |-> 0]
    /\ online = 1 /\ cpus_online = 1 /\ sample = [c \in Cores |-> 0] /\ started = 1
    /\ generation = 0 /\ finished = 0
    /\ seen = [c \in Cores |-> 0] /\ ran = [c \in Cores |-> 0] /\ answer = "none"

----------------------------------------------------------------------------
(* The boot CPU in smp_init()                                               *)

core == <<at, rsp, index, kernel_stack_top, block, online, cpus_online, sample>>

Install ==
    /\ boot.at = "start" /\ Cores # {}
    /\ page' = "code" /\ boot' = [boot EXCEPT !.at = "fill"]
    /\ UNCHANGED <<core, data, started, jobs>>

\* The boot CPU leaves the word of the last core as it is.
FilledStale(i) == [data EXCEPT !.stack = i, !.ready = 0, !.index = i]

Filled(i) == [stack |-> i, ready |-> 0, index |-> i, consumed |-> 0]

\* i < count && i < max_cpus
More(i) == i <= N

\* A core whose stack cannot be allocated ends the loop.
Fill ==
    /\ boot.at = "fill" /\ More(boot.i)
    /\ \/ data' = Filled(boot.i) /\ boot' = [boot EXCEPT !.at = "init"]
       \/ boot' = [boot EXCEPT !.at = "wait"] /\ UNCHANGED data
    /\ UNCHANGED <<core, page, started, jobs>>

\* lapic_send_init()
SendInit ==
    /\ boot.at = "init"
    /\ at' = [at EXCEPT ![boot.i] = "reset"]
    /\ boot' = [boot EXCEPT !.at = "startup"]
    /\ UNCHANGED <<data, page, rsp, index, kernel_stack_top, block, online, cpus_online, sample, started, jobs>>

\* mdelay(10), before the first startup: long enough for a core that does not stall
\* to get from its last word in the page to its idle loop
Settled == boot.at = "startup" => \A c \in Cores \ Slow : at[c] \in {"off", "reset", "idle"}

\* lapic_send_startup(), which only a core in reset takes; a second one follows
\* when the ready word is still clear
SendStartup ==
    /\ boot.at \in {"startup", "again"} /\ Settled
    /\ at' = IF at[boot.i] = "reset" THEN [at EXCEPT ![boot.i] = "real_mode"] ELSE at
    /\ boot' = [boot EXCEPT !.at = IF boot.at = "startup" THEN "check" ELSE "answer"]
    /\ UNCHANGED <<data, page, rsp, index, kernel_stack_top, block, online, cpus_online, sample, started, jobs>>

CheckReady ==
    /\ boot.at = "check"
    /\ boot' = [boot EXCEPT !.at = IF data.ready = 0 THEN "again" ELSE "answer"]
    /\ UNCHANGED <<core, data, page, started, jobs>>

\* The boot CPU goes on when the core has its stack.
AnsweredReady == data.ready = 1

Answered == data.consumed = 1

Answer ==
    /\ boot.at = "answer" /\ Answered
    /\ started' = started + 1
    /\ boot' = [at |-> "fill", i |-> boot.i + 1]
    /\ UNCHANGED <<core, data, page, jobs>>

\* 100 ms have passed
NoAnswer ==
    /\ boot.at = "answer" /\ ~Answered /\ boot.i \in Slow
    /\ boot' = [at |-> "fill", i |-> boot.i + 1]
    /\ UNCHANGED <<core, data, page, started, jobs>>

LoopDone ==
    /\ boot.at = "fill" /\ ~More(boot.i)
    /\ boot' = [boot EXCEPT !.at = "wait"]
    /\ UNCHANGED <<core, data, page, started, jobs>>

\* The wait for cpus_online, 200 ms, and retire_trampoline()
Retire ==
    /\ boot.at = "wait"
    /\ cpus_online >= started \/ \E c \in Slow : at[c] # "idle"
    /\ page' = "data" /\ boot' = [boot EXCEPT !.at = "up"]
    /\ UNCHANGED <<core, data, started, jobs>>

----------------------------------------------------------------------------
(* A core, from its first instruction in the page to its idle loop          *)

bootside == <<data, page, boot, started, jobs>>
CoreStep(c, from, to) == at[c] = from /\ at' = [at EXCEPT ![c] = to]

\* The page no longer is executable under a core that is late.
Fault(c) ==
    /\ at[c] \in {"real_mode", "on_stack"} /\ page = "data"
    /\ at' = [at EXCEPT ![c] = "dead"]
    /\ UNCHANGED <<bootside, rsp, index, kernel_stack_top, block, online, cpus_online, sample>>

LoadStack(c) ==
    /\ page = "code"
    /\ CoreStep(c, "real_mode", "on_stack")
    /\ rsp' = [rsp EXCEPT ![c] = data.stack]
    /\ UNCHANGED <<bootside, index, kernel_stack_top, block, online, cpus_online, sample>>

SetReady(c) ==
    /\ page = "code"
    /\ CoreStep(c, "on_stack", "ap_entry")
    /\ data' = [data EXCEPT !.ready = 1]
    /\ UNCHANGED <<page, boot, started, jobs, rsp, index, kernel_stack_top, block, online, cpus_online, sample>>

ReadIndex(c) ==
    /\ CoreStep(c, "ap_entry", "identified")
    /\ index' = [index EXCEPT ![c] = data.index]
    /\ UNCHANGED <<bootside, rsp, kernel_stack_top, block, online, cpus_online, sample>>

Consume(c) ==
    /\ CoreStep(c, "identified", "setup")
    /\ data' = [data EXCEPT !.consumed = 1]
    /\ UNCHANGED <<page, boot, started, jobs, rsp, index, kernel_stack_top, block, online, cpus_online, sample>>

\* percpu_setup(), whose ++online is not atomic
Setup(c) ==
    /\ CoreStep(c, "setup", "counting")
    /\ block' = [block EXCEPT ![c] = index[c]]
    /\ kernel_stack_top' = [kernel_stack_top EXCEPT ![index[c]] = 0]
    /\ sample' = [sample EXCEPT ![c] = online]
    /\ UNCHANGED <<bootside, rsp, index, online, cpus_online>>

CountOnline(c) ==
    /\ CoreStep(c, "counting", "counted")
    /\ online' = sample[c] + 1
    /\ UNCHANGED <<bootside, rsp, index, kernel_stack_top, block, cpus_online, sample>>

\* cpu.kernel_stack_top = *trampoline_data(1)
TakeKernelStack(c) ==
    /\ CoreStep(c, "counted", "starting")
    /\ kernel_stack_top' = [kernel_stack_top EXCEPT ![block[c]] = data.stack]
    /\ UNCHANGED <<bootside, rsp, index, block, online, cpus_online, sample>>

\* The tables of the core and sched_start_cpu(); the core counts itself as up
ComeUp(c) ==
    /\ CoreStep(c, "starting", "online")
    /\ cpus_online' = cpus_online + 1
    /\ UNCHANGED <<bootside, rsp, index, kernel_stack_top, block, online, sample>>

\* and then takes the newest job for one that it has seen.
GoIdle(c) ==
    /\ CoreStep(c, "online", "idle")
    /\ seen' = [seen EXCEPT ![c] = generation]
    /\ UNCHANGED <<data, page, boot, started, rsp, index, kernel_stack_top, block, online, cpus_online, sample>>
    /\ UNCHANGED <<generation, finished, ran, answer>>

----------------------------------------------------------------------------
(* smp_run_on_others() on the boot CPU, and the loop of ap_entry()          *)

ClearFinished ==
    /\ boot.at = "up" /\ generation < MaxJobs /\ online > 1
    /\ finished' = 0 /\ answer' = "none"
    /\ boot' = [boot EXCEPT !.at = "publish", !.i = online - 1]
    /\ UNCHANGED <<core, data, page, started, generation, seen, ran>>

Publish ==
    /\ boot.at = "publish"
    /\ generation' = generation + 1
    /\ boot' = [boot EXCEPT !.at = "collect"]
    /\ UNCHANGED <<core, data, page, started, finished, seen, ran, answer>>

\* The answer waits for one core too many.
AllFinishedAndOne == finished > boot.i

AllFinished == finished >= boot.i

\* No core is in the job or has yet to see it.
NoneToCome ==
    \A c \in Cores : at[c] \notin {"online", "job"} /\ (at[c] = "idle" => seen[c] = generation)

\* The limit is longer than any job takes, unless JobsTimeOut.
Collect ==
    /\ boot.at = "collect"
    /\ AllFinished \/ JobsTimeOut \/ NoneToCome
    /\ answer' = IF AllFinished THEN "true" ELSE "false"
    /\ boot' = [boot EXCEPT !.at = "up"]
    /\ UNCHANGED <<core, data, page, started, generation, finished, seen, ran>>

TakeJob(c) ==
    /\ at[c] = "idle" /\ generation # seen[c]
    /\ at' = [at EXCEPT ![c] = "job"] /\ seen' = [seen EXCEPT ![c] = generation]
    /\ UNCHANGED <<data, page, boot, started, generation, finished, ran, answer>>
    /\ UNCHANGED <<rsp, index, kernel_stack_top, block, online, cpus_online, sample>>

JobReturns(c) ==
    /\ at[c] = "job"
    /\ at' = [at EXCEPT ![c] = "idle"] /\ ran' = [ran EXCEPT ![c] = seen[c]]
    /\ finished' = finished + 1
    /\ UNCHANGED <<data, page, boot, started, generation, seen, answer>>
    /\ UNCHANGED <<rsp, index, kernel_stack_top, block, online, cpus_online, sample>>

BootCpu ==
    \/ Install \/ Fill \/ SendInit \/ SendStartup \/ CheckReady \/ Answer \/ NoAnswer \/ LoopDone \/ Retire
    \/ ClearFinished \/ Publish \/ Collect

Core(c) ==
    \/ Fault(c) \/ LoadStack(c) \/ SetReady(c) \/ ReadIndex(c) \/ Consume(c) \/ Setup(c) \/ CountOnline(c)
    \/ TakeKernelStack(c) \/ ComeUp(c) \/ GoIdle(c) \/ TakeJob(c) \/ JobReturns(c)

SmpNext == (BootCpu \/ \E c \in Cores : Core(c)) /\ UNCHANGED machine

\* Every CPU executes its instructions.
SmpSpec ==
    /\ SmpInit /\ [][SmpNext]_smp_vars
    /\ WF_smp_vars(BootCpu /\ UNCHANGED machine)
    /\ \A c \in Cores : WF_smp_vars(Core(c) /\ UNCHANGED machine)

----------------------------------------------------------------------------
SmpTypeOK ==
    /\ data \in [stack : 0..N, ready : {0, 1}, index : 0..N, consumed : {0, 1}]
    /\ page \in {"data", "code"}
    /\ rsp \in [Cores -> 0..N] /\ index \in [Cores -> 0..N] /\ block \in [Cores -> 0..N]
    /\ kernel_stack_top \in [Cores -> 0..N]
    /\ online \in 1..N + 1 /\ cpus_online \in 1..N + 1 /\ started \in 1..N + 1
    /\ generation \in 0..MaxJobs /\ answer \in {"none", "true", "false"}

\* Every core comes up with its own index, on its own per CPU block and on its
\* own stack, although all of them read the same words of the trampoline page.
OwnIdentity ==
    \A c \in Cores :
        /\ rsp[c] \in {0, c} /\ index[c] \in {0, c} /\ block[c] \in {0, c}

\* cpu_online_count() is the number of CPUs that have a per CPU block.
OnlineExact ==
    \/ \E c \in Cores : at[c] = "counting"
    \/ online = 1 + Cardinality({c \in Cores : at[c] \in {"counted", "starting", "online", "idle", "job"}})

\* smp_run_on_others() answers true only when every core has run this very job.
JobsWaitForAll ==
    answer = "true" /\ boot.at = "up" =>
        \A c \in Cores : at[c] \in {"online", "idle", "job"} => ran[c] = generation

\* smp_init() and smp_run_on_others() keep account of the cores: each has its own
\* index and stack although all read the same page, is counted once, and a broadcast
\* that says true has been run by all of them.  That is so on a machine where no core but
\* the last outlasts the delays of the boot CPU, and no job its broadcast (Machines).
CoresAccounted == SmpTypeOK /\ OwnIdentity /\ OnlineExact /\ JobsWaitForAll

\* Every core that is started and does not stall ends up in its idle loop, smp_init()
\* and every smp_run_on_others() return, and a broadcast that outlasts its jobs is
\* answered by all cores unless one of them was between counting itself and its first
\* look at job_generation when the job was published.
EveryoneComesUp ==
    /\ \A c \in Cores : at[c] = "reset" /\ c \notin Slow ~> at[c] = "idle"
    /\ boot.at = "fill" ~> boot.at = "up"
    /\ boot.at = "collect" ~> boot.at = "up"
    /\ boot.at = "publish" /\ ~JobsTimeOut /\ (\A c \in Cores : at[c] # "online")
        ~> boot.at = "up" /\ answer = "true"

\* Every core in its loop has run the newest job it knows of.  A job published while a
\* core is between the two is one that this core never runs.
NoJobMissed == \A c \in Cores : at[c] = "idle" /\ seen[c] = generation => ran[c] = generation

\* The stack an interrupt from ring 3 lands on is the core's own.
KernelStackOwn == \A c \in Cores : kernel_stack_top[c] \in {0, c}
====
