------------------------------ MODULE Schedule ------------------------------
(***************************************************************************)
(* The scheduler of gemOS, Assn3/schedule.c: the timer interrupt handler,  *)
(* the system calls sleep, exit, clone, signal and alarm, and the delivery *)
(* of signals.                                                             *)
(*                                                                         *)
(* One processor runs with interrupts off from the entry of every handler  *)
(* to its iretq, so a handler is one action.  What interleaves is the      *)
(* order in which ticks, system calls and exceptions reach the kernel.     *)
(*                                                                         *)
(* A user context is abstracted to a frame: where it executes (rip), its   *)
(* other registers as one opaque value (gpr), and rax apart, because the   *)
(* two context switches of the code treat rax differently.  The part of    *)
(* the user stack that signals write is the sequence of pushed rips.       *)
(***************************************************************************)
EXTENDS Naturals, Sequences

CONSTANTS
  MAX_PROCESSES,  \* slots of the context list (16 in the code)
  Pfn,            \* page frames of OS_PT_REG that os_pfn_alloc can return
  NoPfn,          \* 0x0, "no frame" in free_os_pfn and in unused slots
  Gpr,            \* abstract register contents
  SyncSignals,    \* the signals raised by exceptions: SIGFPE, SIGSEGV
  SIGALRM,        \* the signal raised by the alarm
  Main,           \* rip of a context that is in none of its handlers
  SleepTicks,     \* arguments user code passes to sleep
  AlarmTicks,     \* arguments user code passes to alarm
  MaxNesting      \* bound: handlers of one context that are active at once

Swapper == 0
Init1 == 1
Pid == 0 .. MAX_PROCESSES - 1
UserPid == Pid \ {Swapper}
Signal == SyncSignals \cup {SIGALRM}
Rip == Signal \cup {Main}
Frame == [rip : Rip, gpr : Gpr, rax : Gpr]
ProcState == {"UNUSED", "READY", "RUNNING", "WAITING"}

ASSUME SchedAssumption ==
  /\ MAX_PROCESSES \in Nat /\ MAX_PROCESSES >= 2
  /\ NoPfn \notin Pfn
  /\ Main \notin Signal
  /\ SleepTicks \subseteq Nat
  /\ AlarmTicks \subseteq Nat
  /\ MaxNesting \in Nat

VARIABLES
  current,            \* pid of get_current_ctx()
  state,              \* exec_context.state
  ticks_to_sleep,     \* exec_context.ticks_to_sleep
  ticks_to_alarm,     \* exec_context.ticks_to_alarm
  alarm_config_time,  \* exec_context.alarm_config_time
  sighandlers,        \* the signals of a context whose handler is not NULL
  os_stack_pfn,       \* exec_context.os_stack_pfn
  free_os_pfn,        \* stacks of exited contexts, freed by the next tick
  allocated,          \* OS stacks taken from os_pfn_alloc and not freed
  regs,               \* exec_context.regs, the saved frame
  frame,              \* the frame iretq returns to, live on the processor
  ustack,             \* the rips that signals pushed on the user stack
  user,               \* history: the frame as the user code last left it
  halted              \* do_cleanup() was called

vars == <<current, state, ticks_to_sleep, ticks_to_alarm, alarm_config_time,
          sighandlers, os_stack_pfn, free_os_pfn, allocated, regs, frame,
          ustack, user, halted>>

alarmVars == <<ticks_to_alarm, alarm_config_time>>
stackVars == <<os_stack_pfn, free_os_pfn, allocated>>
frameVars == <<regs, frame, user>>

-----------------------------------------------------------------------------
(* pick_next_context scans the list from the slot after the current one,   *)
(* wrapping around, and skips slot 0.                                      *)

\* How many slots the scan from c advances to reach p; c itself is last.
ScanDistance(c, p) == IF p > c THEN p - c ELSE p + MAX_PROCESSES - c

\* Mutant: the scan stops one slot early.
CandidatesShortScan(st, c) ==
  {p \in UserPid \ {c} : p < MAX_PROCESSES - 1 /\ st[p] = "READY"}

Candidates(st, c) == {p \in UserPid \ {c} : st[p] = "READY"}

\* Mutant: the scan starts from slot 1 and not from the current one.
pick_lowest_context(st, c, next) ==
  \/ next \in Candidates(st, c) /\ \A q \in Candidates(st, c) : next <= q
  \/ Candidates(st, c) = {} /\ next = Swapper

pick_next_context(st, c, next) ==
  \/ /\ next \in Candidates(st, c)
     /\ \A q \in Candidates(st, c) : ScanDistance(c, next) <= ScanDistance(c, q)
  \/ /\ Candidates(st, c) = {}
     /\ next = Swapper

\* Mutant: rax is lost between the interrupt stack and the saved registers.
switch_context_timer_no_rax(live, next) ==
  /\ regs' = [regs EXCEPT ![current] = [live EXCEPT !.rax = regs[current].rax]]
  /\ frame' = regs[next]

\* switch_context_timer: every register goes through the interrupt stack.
switch_context_timer(live, next) ==
  /\ regs' = [regs EXCEPT ![current] = live]
  /\ frame' = regs[next]

\* switch_context_sleep saves every register but rax.
switch_context_sleep(next) ==
  /\ regs' = [regs EXCEPT ![current] = [frame EXCEPT !.rax = regs[current].rax]]
  /\ frame' = regs[next]

\* Mutant: the successor stays READY.
DispatchUnmarked(st, next) == current' = next /\ state' = st

\* The successor becomes the current, RUNNING context (st: the states so far).
Dispatch(st, next) ==
  /\ current' = next
  /\ state' = [st EXCEPT ![next] = "RUNNING"]

-----------------------------------------------------------------------------
(* handle_timer_tick                                                       *)

Asleep(p) == state[p] = "WAITING" /\ ticks_to_sleep[p] > 0

\* Mutants: the wake-up comes a tick too early; the test for the last tick is
\* made as if the count had already been decremented.
WakeSleepersEarly ==
  [p \in Pid |-> IF Asleep(p) /\ ticks_to_sleep[p] <= 2 THEN "READY" ELSE state[p]]
WakeSleepersAtZero ==
  [p \in Pid |-> IF Asleep(p) /\ ticks_to_sleep[p] = 0 THEN "READY" ELSE state[p]]

WakeSleepers ==
  [p \in Pid |-> IF Asleep(p) /\ ticks_to_sleep[p] = 1 THEN "READY" ELSE state[p]]

\* Mutant: a sleep of 0 ticks is counted like any other.
CountSleepUnguarded ==
  [p \in Pid |-> IF state[p] = "WAITING" THEN ticks_to_sleep[p] - 1
                                         ELSE ticks_to_sleep[p]]

CountSleep ==
  [p \in Pid |-> IF Asleep(p) THEN ticks_to_sleep[p] - 1 ELSE ticks_to_sleep[p]]

\* Only the current context's alarm is counted.
AlarmCounts == ticks_to_alarm[current] > 0 /\ alarm_config_time[current] > 0
AlarmFires == /\ AlarmCounts
              /\ ticks_to_alarm[current] = 1
              /\ SIGALRM \in sighandlers[current]

CountAlarm ==
  [ticks_to_alarm EXCEPT ![current] = CASE AlarmFires -> alarm_config_time[current]
                                        [] AlarmCounts /\ ~AlarmFires -> @ - 1
                                        [] OTHER -> @]

\* invoke_sync_signal with a handler: the interrupted rip is pushed on the
\* user stack and the frame continues in the handler.
PushRipOver == [ustack EXCEPT ![current] = <<frame.rip>>]  \* mutant: no push
PushRip == [ustack EXCEPT ![current] = <<frame.rip>> \o @]
Redirect(fr, signo) == [fr EXCEPT !.rip = signo]

\* Mutants: the stack that is freed is the one the slot names by now; the list
\* is not cleared.
FreeSlotStacks ==
  /\ allocated' = allocated \ {os_stack_pfn[p] : p \in {q \in UserPid : free_os_pfn[q] # NoPfn}}
  /\ free_os_pfn' = [p \in Pid |-> NoPfn]
  /\ UNCHANGED os_stack_pfn
FreePendingForever ==
  /\ allocated' = allocated \ {free_os_pfn[p] : p \in UserPid}
  /\ UNCHANGED <<os_stack_pfn, free_os_pfn>>

FreePendingStacks ==
  /\ allocated' = allocated \ {free_os_pfn[p] : p \in UserPid}
  /\ free_os_pfn' = [p \in Pid |-> NoPfn]
  /\ UNCHANGED os_stack_pfn

\* The tick on which the alarm fires (fires) or does not.
TickWith(fires, live) ==
  /\ ~halted
  /\ FreePendingStacks
  /\ ticks_to_sleep' = CountSleep
  /\ ticks_to_alarm' = CountAlarm
  /\ ustack' = IF fires THEN PushRip ELSE ustack
  /\ user' = IF fires THEN [user EXCEPT ![current] = Redirect(@, SIGALRM)] ELSE user
  /\ \/ /\ Candidates(WakeSleepers, current) = {}
        /\ state' = WakeSleepers
        /\ frame' = live
        /\ UNCHANGED <<current, regs>>
     \/ \E next \in Candidates(WakeSleepers, current) :
          /\ pick_next_context(WakeSleepers, current, next)
          /\ switch_context_timer(live, next)
          /\ Dispatch([WakeSleepers EXCEPT ![current] = "READY"], next)
  /\ UNCHANGED <<alarm_config_time, sighandlers, halted>>

handle_timer_tick ==
  \/ /\ AlarmFires
     /\ Len(ustack[current]) < MaxNesting
     /\ TickWith(TRUE, Redirect(frame, SIGALRM))
  \/ /\ ~AlarmFires
     /\ TickWith(FALSE, frame)

-----------------------------------------------------------------------------
(* System calls and exceptions of the current user context.                *)

InUser == ~halted /\ current # Swapper

\* The states once the current context is UNUSED.
Gone == [state EXCEPT ![current] = "UNUSED"]

\* Mutant: sleepers are not counted as contexts that are left.
NobodyReady == \A p \in UserPid : Gone[p] # "READY"

NobodyLeft == \A p \in UserPid : Gone[p] = "UNUSED"

do_exit ==
  /\ free_os_pfn' = [free_os_pfn EXCEPT ![current] = os_stack_pfn[current]]
  /\ \/ /\ NobodyLeft
        /\ halted' = TRUE
        /\ state' = Gone
        /\ UNCHANGED <<current, regs, frame>>
     \/ /\ ~NobodyLeft
        /\ \E next \in Pid : /\ pick_next_context(Gone, current, next)
                             /\ switch_context_sleep(next)
                             /\ Dispatch(Gone, next)
        /\ UNCHANGED halted
  /\ UNCHANGED <<ticks_to_sleep, alarmVars, sighandlers, os_stack_pfn,
                 allocated, ustack, user>>

Exit == InUser /\ do_exit

do_sleep(ticks) ==
  LET blocked == [state EXCEPT ![current] = "WAITING"] IN
  /\ InUser
  /\ ticks_to_sleep' = [ticks_to_sleep EXCEPT ![current] = ticks]
  /\ \E next \in Pid : /\ pick_next_context(blocked, current, next)
                       /\ switch_context_sleep(next)
                       /\ Dispatch(blocked, next)
  \* rax still holds what the context's previous switch saved
  /\ user' = [user EXCEPT ![current].rax = regs[current].rax]
  /\ UNCHANGED <<alarmVars, sighandlers, stackVars, ustack, halted>>

\* get_new_ctx: an unused slot, with its pid set.
get_new_ctx(child) == child \in UserPid /\ state[child] = "UNUSED"

\* os_pfn_alloc(OS_PT_REG): a frame nobody holds.
os_pfn_alloc(f) == f \in Pfn \ allocated

do_clone ==
  /\ InUser
  /\ \E child \in UserPid, f \in Pfn :
       LET start == [regs[current] EXCEPT !.rip = Main] IN
       /\ get_new_ctx(child)
       /\ os_pfn_alloc(f)
       /\ os_stack_pfn' = [os_stack_pfn EXCEPT ![child] = f]
       /\ allocated' = allocated \cup {f}
       /\ state' = [state EXCEPT ![child] = "READY"]
       /\ ticks_to_sleep' = [ticks_to_sleep EXCEPT ![child] = 0]
       /\ ticks_to_alarm' = [ticks_to_alarm EXCEPT ![child] = 0]
       /\ alarm_config_time' = [alarm_config_time EXCEPT ![child] = 0]
       /\ sighandlers' = [sighandlers EXCEPT ![child] = sighandlers[current]]
       /\ regs' = [regs EXCEPT ![child] = start]
       /\ user' = [user EXCEPT ![child] = start]
       /\ ustack' = [ustack EXCEPT ![child] = <<>>]
  /\ UNCHANGED <<current, free_os_pfn, frame, halted>>

do_signal(signo) ==
  /\ InUser
  /\ sighandlers' = [sighandlers EXCEPT ![current] = @ \cup {signo}]
  /\ UNCHANGED <<current, state, ticks_to_sleep, alarmVars, stackVars,
                 frameVars, ustack, halted>>

do_alarm(ticks) ==
  /\ InUser
  /\ alarm_config_time' = [alarm_config_time EXCEPT ![current] = ticks]
  /\ ticks_to_alarm' = [ticks_to_alarm EXCEPT ![current] = ticks]
  /\ UNCHANGED <<current, state, ticks_to_sleep, sighandlers, stackVars,
                 frameVars, ustack, halted>>

\* invoke_sync_signal, called by the divide-by-zero and page fault handlers.
invoke_sync_signal(signo) ==
  /\ InUser
  /\ \/ signo \notin sighandlers[current] /\ do_exit
     \/ /\ signo \in sighandlers[current]
        /\ Len(ustack[current]) < MaxNesting
        /\ ustack' = PushRip
        /\ frame' = Redirect(frame, signo)
        /\ user' = [user EXCEPT ![current] = Redirect(@, signo)]
        /\ UNCHANGED <<current, state, ticks_to_sleep, alarmVars, sighandlers,
                       stackVars, regs, halted>>

-----------------------------------------------------------------------------
(* User code between two entries of the kernel.                            *)

Compute(g, a) ==
  /\ InUser
  /\ frame' = [frame EXCEPT !.gpr = g, !.rax = a]
  /\ user' = [user EXCEPT ![current] = [@ EXCEPT !.gpr = g, !.rax = a]]
  /\ UNCHANGED <<current, state, ticks_to_sleep, alarmVars, sighandlers,
                 stackVars, regs, ustack, halted>>

\* A handler returns with ret, which pops the rip the kernel pushed.
HandlerReturns ==
  /\ InUser
  /\ ustack[current] # <<>>
  /\ frame' = [frame EXCEPT !.rip = Head(ustack[current])]
  /\ user' = [user EXCEPT ![current].rip = Head(ustack[current])]
  /\ ustack' = [ustack EXCEPT ![current] = Tail(@)]
  /\ UNCHANGED <<current, state, ticks_to_sleep, alarmVars, sighandlers,
                 stackVars, regs, halted>>

\* do_cleanup() has shut the machine down.
Shutdown == halted /\ UNCHANGED vars

-----------------------------------------------------------------------------

Init ==
  /\ current = Init1
  /\ state = [p \in Pid |-> CASE p = Swapper -> "READY"
                              [] p = Init1 -> "RUNNING"
                              [] OTHER -> "UNUSED"]
  /\ ticks_to_sleep = [p \in Pid |-> 0]
  /\ ticks_to_alarm = [p \in Pid |-> 0]
  /\ alarm_config_time = [p \in Pid |-> 0]
  /\ sighandlers = [p \in Pid |-> {}]
  /\ \E f \in Pfn : /\ os_stack_pfn = [p \in Pid |-> IF p = Init1 THEN f ELSE NoPfn]
                    /\ allocated = {f}
  /\ free_os_pfn = [p \in Pid |-> NoPfn]
  /\ \E g \in Gpr : /\ frame = [rip |-> Main, gpr |-> g, rax |-> g]
                    /\ regs = [p \in Pid |-> frame]
  /\ user = regs
  /\ ustack = [p \in Pid |-> <<>>]
  /\ halted = FALSE

Next ==
  \/ handle_timer_tick
  \/ Exit
  \/ \E t \in SleepTicks : do_sleep(t)
  \/ do_clone
  \/ \E s \in Signal : do_signal(s)
  \/ \E t \in AlarmTicks : do_alarm(t)
  \/ \E s \in SyncSignals : invoke_sync_signal(s)
  \/ \E g, a \in Gpr : Compute(g, a)
  \/ HandlerReturns
  \/ Shutdown

Spec == Init /\ [][Next]_vars

\* The timer keeps interrupting: the only thing the kernel relies on.
FairSpec == Spec /\ WF_vars(handle_timer_tick)

-----------------------------------------------------------------------------
(* What the scheduler promises.                                            *)

Live(p) == state[p] # "UNUSED"

\* Every variable has its type.
TypeOK ==
  /\ current \in Pid
  /\ state \in [Pid -> ProcState]
  /\ ticks_to_sleep \in [Pid -> Nat]
  /\ ticks_to_alarm \in [Pid -> Nat]
  /\ alarm_config_time \in [Pid -> Nat]
  /\ sighandlers \in [Pid -> SUBSET Signal]
  /\ os_stack_pfn \in [Pid -> Pfn \cup {NoPfn}]
  /\ free_os_pfn \in [Pid -> Pfn \cup {NoPfn}]
  /\ allocated \subseteq Pfn
  /\ regs \in [Pid -> Frame]
  /\ frame \in Frame
  /\ ustack \in [Pid -> Seq(Rip)]
  /\ user \in [Pid -> Frame]
  /\ halted \in BOOLEAN

\* Exactly one context is RUNNING, and it is the one get_current_ctx returns:
\* every one of the three switches (tick, sleep, exit) must demote the old
\* context and promote the new one, whatever their order in the handler.
OneRunning ==
  ~halted => \A p \in Pid : (state[p] = "RUNNING") <=> (p = current)

\* The swapper runs only when no user context is READY: a tick that wakes a
\* sleeper while the swapper runs must switch at once, and sleep and exit pick
\* the swapper only for want of anybody else.
WorkConserving ==
  ~halted /\ current = Swapper => \A p \in UserPid : state[p] # "READY"

\* A context that has ticks left to sleep is asleep: no switch makes a sleeper
\* READY early, and a slot that clone reuses starts with none.
SleepersSleep ==
  \A p \in Pid : ticks_to_sleep[p] > 0 => state[p] = "WAITING"

\* The OS stacks of live contexts are allocated, nobody shares one, and none
\* of them is about to be freed: the tick frees the stack of an exited context
\* even when clone has since given its slot to another context.
StacksExclusive ==
  \A p \in UserPid : Live(p) =>
    /\ os_stack_pfn[p] \in allocated
    /\ \A q \in UserPid : q # p /\ Live(q) => os_stack_pfn[q] # os_stack_pfn[p]
    /\ \A q \in UserPid : free_os_pfn[q] # os_stack_pfn[p]

\* The stacks the next tick hands to os_pfn_free are allocated and pairwise
\* distinct: no double free.
PendingFreedOnce ==
  \A p \in UserPid : free_os_pfn[p] # NoPfn =>
    /\ free_os_pfn[p] \in allocated
    /\ \A q \in UserPid \ {p} : free_os_pfn[q] # free_os_pfn[p]

\* A context resumes with the registers its own code left, whichever of the
\* two switches took the processor from it and whichever gave it back.
FrameIntegrity ==
  ~halted => /\ frame = user[current]
             /\ \A p \in Pid \ {current} : Live(p) => regs[p] = user[p]

\* The rips on the way back to the main program, innermost first.
ReturnPath(p) == <<user[p].rip>> \o ustack[p]

\* A context that is in a signal handler can return to its main program:
\* every rip on its way back but the last is one of its own handlers. A handler
\* interrupted by a tick with an alarm must keep its own way back.
ReturnsToMain ==
  \A p \in UserPid : Live(p) =>
    LET path == ReturnPath(p) IN
      /\ path[Len(path)] = Main
      /\ \A i \in 1 .. Len(path) - 1 : path[i] \in sighandlers[p]

\* Round robin: a context that stays READY gets nearer to its turn with every
\* switch, so nobody is served twice before it.
RoundRobin ==
  [][\A k \in UserPid :
       state[k] = "READY" /\ state'[k] = "READY" /\ current' # current
         => ScanDistance(current', k) < ScanDistance(current, k)]_vars

\* The scheduler implements the abstract processor: the swapper is idleness,
\* READY is runnable and WAITING is blocked.
Processor == INSTANCE Processor WITH
  Process <- UserPid,
  Idle <- Swapper,
  cpu <- IF halted THEN Swapper ELSE current,
  runnable <- {p \in UserPid : state[p] = "READY"},
  blocked <- {p \in UserPid : state[p] = "WAITING"},
  up <- ~halted

ImplementsProcessor == Processor!PSpec

\* A READY context eventually runs, however the others sleep, clone and exit.
ReadyRuns ==
  \A p \in UserPid : state[p] = "READY" ~> state[p] = "RUNNING"

\* A context that sleeps for a positive number of ticks eventually runs again.
SleeperRuns ==
  \A p \in UserPid : Asleep(p) ~> state[p] = "RUNNING"

\* assignment3.pdf, page 2: sleep suspends the calling context for the given
\* number of ticks. Whoever calls it runs again, whatever the number.
SleepReturns ==
  \A p \in UserPid : state[p] = "WAITING" ~> state[p] = "RUNNING"

\* assignment3.pdf, page 3: exit frees the OS stack. Every allocated stack
\* belongs to a live context or is on the list that the next tick frees.
NoStackLeak ==
  allocated \subseteq {os_stack_pfn[p] : p \in {q \in UserPid : Live(q)}}
                      \cup {free_os_pfn[p] : p \in UserPid}

=============================================================================
