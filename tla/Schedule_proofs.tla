--------------------------- MODULE Schedule_proofs ---------------------------
(***************************************************************************)
(* Proofs about Schedule for every number of slots, stacks, registers and  *)
(* signals.                                                                *)
(***************************************************************************)
EXTENDS Schedule, SequenceTheorems, TLAPS

-----------------------------------------------------------------------------
(* Type correctness.                                                       *)

\* The slots of the list are natural numbers, the swapper's and init's among
\* them.
LEMMA PidFacts == Pid \subseteq Nat /\ Swapper \in Pid /\ Init1 \in UserPid
  BY SchedAssumption DEF Pid, UserPid, Swapper, Init1

\* Whoever pick_next_context returns is a slot of the list.
LEMMA PickType ==
  ASSUME NEW st, NEW c, NEW next, pick_next_context(st, c, next)
  PROVE  next \in Pid
  BY PidFacts DEF pick_next_context, Candidates, UserPid

\* Redirecting a frame to a handler leaves a frame.
LEMMA RedirectType ==
  ASSUME NEW fr \in Frame, NEW s \in Signal
  PROVE  Redirect(fr, s) \in Frame
  BY DEF Redirect, Frame, Rip

\* Pushing the interrupted rip leaves a sequence of rips on every user stack.
LEMMA PushType ==
  ASSUME TypeOK
  PROVE  PushRip \in [Pid -> Seq(Rip)]
<1>1. frame.rip \in Rip /\ ustack[current] \in Seq(Rip)
  BY DEF TypeOK, Frame
<1>2. <<frame.rip>> \o ustack[current] \in Seq(Rip)
  BY <1>1
<1> QED  BY <1>2 DEF PushRip, TypeOK

\* A tick preserves the types, with or without an alarm.
LEMMA TickType ==
  ASSUME TypeOK, NEW fires \in BOOLEAN, NEW live \in Frame,
         TickWith(fires, live)
  PROVE  TypeOK'
<1> USE PidFacts
<1>1. free_os_pfn' \in [Pid -> Pfn \cup {NoPfn}] /\ allocated' \subseteq Pfn
       /\ os_stack_pfn' \in [Pid -> Pfn \cup {NoPfn}]
  BY DEF TickWith, FreePendingStacks, TypeOK
<1>2. ticks_to_sleep' \in [Pid -> Nat]
  BY DEF TickWith, CountSleep, Asleep, TypeOK
<1>3. ticks_to_alarm' \in [Pid -> Nat]
  <2>1. CASE AlarmFires
    BY <2>1 DEF TickWith, CountAlarm, TypeOK
  <2>2. CASE AlarmCounts /\ ~AlarmFires
    BY <2>2 DEF TickWith, CountAlarm, AlarmCounts, TypeOK
  <2>3. CASE ~AlarmCounts
    BY <2>3 DEF TickWith, CountAlarm, AlarmFires, TypeOK
  <2> QED  BY <2>1, <2>2, <2>3
<1>4. ustack' \in [Pid -> Seq(Rip)]
  BY PushType DEF TickWith, TypeOK
<1>5. user' \in [Pid -> Frame]
  <2>1. Redirect(user[current], SIGALRM) \in Frame
    BY RedirectType DEF TypeOK, Signal
  <2> QED  BY <2>1 DEF TickWith, TypeOK
<1>6. WakeSleepers \in [Pid -> ProcState]
  BY DEF WakeSleepers, TypeOK, ProcState
<1>7. /\ current' \in Pid /\ state' \in [Pid -> ProcState]
      /\ regs' \in [Pid -> Frame] /\ frame' \in Frame
  <2>1. CASE UNCHANGED <<current, regs>> /\ state' = WakeSleepers /\ frame' = live
    BY <1>6, <2>1 DEF TypeOK
  <2>2. ASSUME NEW next \in Pid,
               switch_context_timer(live, next),
               Dispatch([WakeSleepers EXCEPT ![current] = "READY"], next)
        PROVE  /\ current' \in Pid /\ state' \in [Pid -> ProcState]
               /\ regs' \in [Pid -> Frame] /\ frame' \in Frame
    BY <1>6, <2>2 DEF switch_context_timer, Dispatch, TypeOK, ProcState
  <2> QED  BY <2>1, <2>2 DEF TickWith, Candidates, UserPid
<1>8. alarm_config_time' \in [Pid -> Nat] /\ sighandlers' \in [Pid -> SUBSET Signal]
      /\ halted' \in BOOLEAN
  BY DEF TickWith, TypeOK
<1> QED  BY <1>1, <1>2, <1>3, <1>4, <1>5, <1>7, <1>8 DEF TypeOK

\* Every step keeps the types.
LEMMA TypeStep ==
  ASSUME TypeOK, [Next]_vars
  PROVE  TypeOK'
<1> USE PidFacts
<1>1. ASSUME handle_timer_tick PROVE TypeOK'
  <2>1. frame \in Frame /\ Redirect(frame, SIGALRM) \in Frame
    BY RedirectType DEF TypeOK, Signal
  <2> QED  BY <1>1, <2>1, TickType DEF handle_timer_tick
<1>2. ASSUME do_exit PROVE TypeOK'
  <2>1. Gone \in [Pid -> ProcState]
    BY DEF Gone, TypeOK, ProcState
  <2>2. free_os_pfn' \in [Pid -> Pfn \cup {NoPfn}]
    BY <1>2 DEF do_exit, NobodyLeft, TypeOK
  <2>3. CASE halted' = TRUE /\ state' = Gone /\ UNCHANGED <<current, regs, frame>>
    BY <1>2, <2>1, <2>2, <2>3 DEF do_exit, NobodyLeft, TypeOK, alarmVars
  <2>4. ASSUME NEW next \in Pid, switch_context_sleep(next),
               Dispatch(Gone, next), UNCHANGED halted
        PROVE  TypeOK'
    BY <1>2, <2>1, <2>2, <2>4
       DEF do_exit, NobodyLeft, switch_context_sleep, Dispatch, TypeOK, ProcState, Frame, alarmVars
  <2> QED  BY <1>2, <2>3, <2>4 DEF do_exit, NobodyLeft
<1>3. ASSUME NEW t \in SleepTicks, do_sleep(t) PROVE TypeOK'
  <2> DEFINE blocked == [state EXCEPT ![current] = "WAITING"]
  <2>1. blocked \in [Pid -> ProcState]
    BY DEF TypeOK, ProcState
  <2>2. t \in Nat
    BY SchedAssumption
  <2>3. user' \in [Pid -> Frame]
    BY <1>3 DEF do_sleep, TypeOK, Frame
  <2>4. PICK next \in Pid : switch_context_sleep(next) /\ Dispatch(blocked, next)
    BY <1>3 DEF do_sleep
  <2> HIDE DEF blocked
  <2>5. current' \in Pid /\ state' \in [Pid -> ProcState]
         /\ regs' \in [Pid -> Frame] /\ frame' \in Frame
    BY <2>1, <2>4 DEF switch_context_sleep, Dispatch, TypeOK, ProcState, Frame
  <2> QED  BY <1>3, <2>2, <2>3, <2>5 DEF do_sleep, TypeOK, alarmVars, stackVars
<1>4. ASSUME do_clone PROVE TypeOK'
  <2> DEFINE start == [regs[current] EXCEPT !.rip = Main]
  <2>1. start \in Frame
    BY DEF TypeOK, Frame, Rip
  <2>2. <<>> \in Seq(Rip)
    OBVIOUS
  <2>3. PICK child \in UserPid, f \in Pfn :
          /\ os_stack_pfn' = [os_stack_pfn EXCEPT ![child] = f]
          /\ allocated' = allocated \cup {f}
          /\ state' = [state EXCEPT ![child] = "READY"]
          /\ ticks_to_sleep' = [ticks_to_sleep EXCEPT ![child] = 0]
          /\ ticks_to_alarm' = [ticks_to_alarm EXCEPT ![child] = 0]
          /\ alarm_config_time' = [alarm_config_time EXCEPT ![child] = 0]
          /\ sighandlers' = [sighandlers EXCEPT ![child] = sighandlers[current]]
          /\ regs' = [regs EXCEPT ![child] = start]
          /\ user' = [user EXCEPT ![child] = start]
          /\ ustack' = [ustack EXCEPT ![child] = <<>>]
    BY <1>4 DEF do_clone
  <2> HIDE DEF start
  <2>4. /\ os_stack_pfn' \in [Pid -> Pfn \cup {NoPfn}] /\ allocated' \subseteq Pfn
        /\ state' \in [Pid -> ProcState]
    BY <2>3 DEF TypeOK, ProcState
  <2>5. /\ ticks_to_sleep' \in [Pid -> Nat] /\ ticks_to_alarm' \in [Pid -> Nat]
        /\ alarm_config_time' \in [Pid -> Nat] /\ sighandlers' \in [Pid -> SUBSET Signal]
    BY <2>3 DEF TypeOK
  <2>6. /\ regs' \in [Pid -> Frame] /\ user' \in [Pid -> Frame]
        /\ ustack' \in [Pid -> Seq(Rip)]
    BY <2>1, <2>2, <2>3 DEF TypeOK
  <2> QED  BY <1>4, <2>4, <2>5, <2>6 DEF do_clone, TypeOK
<1>5. ASSUME NEW s \in Signal, do_signal(s) PROVE TypeOK'
  BY <1>5 DEF do_signal, TypeOK, alarmVars, stackVars, frameVars
<1>6. ASSUME NEW t \in AlarmTicks, do_alarm(t) PROVE TypeOK'
  <2>1. t \in Nat
    BY SchedAssumption
  <2> QED  BY <1>6, <2>1 DEF do_alarm, TypeOK, stackVars, frameVars
<1>7. ASSUME NEW s \in SyncSignals, invoke_sync_signal(s) PROVE TypeOK'
  <2>1. CASE do_exit
    BY <1>2, <2>1
  <2>2. CASE ~do_exit
    <3>1. Redirect(frame, s) \in Frame /\ Redirect(user[current], s) \in Frame
      BY RedirectType DEF TypeOK, Signal
    <3> QED
      BY <1>7, <2>2, <3>1, PushType
         DEF invoke_sync_signal, TypeOK, alarmVars, stackVars
  <2> QED  BY <2>1, <2>2
<1>8. ASSUME NEW g \in Gpr, NEW a \in Gpr, Compute(g, a) PROVE TypeOK'
  BY <1>8 DEF Compute, TypeOK, Frame, alarmVars, stackVars
<1>9. ASSUME HandlerReturns PROVE TypeOK'
  <2>1. ustack[current] \in Seq(Rip) /\ ustack[current] # <<>>
    BY <1>9 DEF HandlerReturns, TypeOK
  <2>2. Head(ustack[current]) \in Rip /\ Tail(ustack[current]) \in Seq(Rip)
    BY <2>1, HeadTailProperties
  <2> QED  BY <1>9, <2>2 DEF HandlerReturns, TypeOK, Frame, alarmVars, stackVars
<1>10. ASSUME UNCHANGED vars PROVE TypeOK'
  BY <1>10 DEF vars, TypeOK
<1> QED
  BY <1>1, <1>2, <1>3, <1>4, <1>5, <1>6, <1>7, <1>8, <1>9, <1>10
     DEF Next, Exit, Shutdown

\* The scheduler keeps the types of its state for every size of the list.
THEOREM TypeCorrect == Spec => []TypeOK
<1>1. ASSUME Init PROVE TypeOK
  <2> USE PidFacts
  <2>1. PICK g \in Gpr : frame = [rip |-> Main, gpr |-> g, rax |-> g]
                          /\ regs = [p \in Pid |-> frame]
    BY <1>1 DEF Init
  <2>2. frame \in Frame /\ regs \in [Pid -> Frame] /\ user \in [Pid -> Frame]
    BY <1>1, <2>1 DEF Init, Frame, Rip
  <2>3. state \in [Pid -> ProcState]
    BY <1>1 DEF Init, ProcState
  <2>4. os_stack_pfn \in [Pid -> Pfn \cup {NoPfn}] /\ allocated \subseteq Pfn
    BY <1>1 DEF Init
  <2>5. ustack \in [Pid -> Seq(Rip)]
    BY <1>1 DEF Init
  <2> QED  BY <1>1, <2>2, <2>3, <2>4, <2>5 DEF Init, TypeOK, UserPid
<1> QED  BY <1>1, TypeStep, PTL DEF Spec

-----------------------------------------------------------------------------
(* What a step does to the states of the contexts. Every action of Next is *)
(* one of five kinds, and the proofs below go through the kinds.           *)

\* A tick: sleepers are counted, and the nearest candidate, if any, runs.
Ticks ==
  /\ ~halted
  /\ halted' = halted
  /\ ticks_to_sleep' = CountSleep
  /\ \/ /\ Candidates(WakeSleepers, current) = {}
        /\ state' = WakeSleepers
        /\ current' = current
     \/ \E next \in Candidates(WakeSleepers, current) :
          /\ pick_next_context(WakeSleepers, current, next)
          /\ Dispatch([WakeSleepers EXCEPT ![current] = "READY"], next)

\* The current context gives the processor up and is in state s from then on.
Leaves(s, ticks) ==
  LET left == [state EXCEPT ![current] = s] IN
  /\ InUser
  /\ halted' = halted
  /\ ticks_to_sleep' = [ticks_to_sleep EXCEPT ![current] = ticks]
  /\ \E next \in Pid : /\ pick_next_context(left, current, next)
                       /\ Dispatch(left, next)
  /\ s = "UNUSED" => \E p \in UserPid : left[p] # "UNUSED"

\* The last context exits.
Halts ==
  /\ InUser
  /\ \A p \in UserPid : Gone[p] = "UNUSED"
  /\ halted' = TRUE
  /\ state' = Gone
  /\ UNCHANGED <<current, ticks_to_sleep>>

\* A context is created in an unused slot.
Creates ==
  /\ InUser
  /\ \E child \in UserPid :
       /\ state[child] = "UNUSED"
       /\ state' = [state EXCEPT ![child] = "READY"]
       /\ ticks_to_sleep' = [ticks_to_sleep EXCEPT ![child] = 0]
  /\ UNCHANGED <<current, halted>>

Stays == UNCHANGED <<current, state, ticks_to_sleep, halted>>

\* Exit and an unhandled exception are of the kind that leaves or halts.
LEMMA ExitKind ==
  ASSUME TypeOK, InUser, do_exit
  PROVE  Halts \/ Leaves("UNUSED", ticks_to_sleep[current])
<1>1. ticks_to_sleep' = [ticks_to_sleep EXCEPT ![current] = ticks_to_sleep[current]]
  BY DEF do_exit, NobodyLeft, TypeOK
<1>2. Gone = [state EXCEPT ![current] = "UNUSED"]
  BY DEF Gone
<1> QED  BY <1>1, <1>2 DEF do_exit, NobodyLeft, Halts, Leaves

\* Every step is of one of the kinds.
LEMMA StepKind ==
  ASSUME TypeOK, [Next]_vars
  PROVE  \/ Ticks
         \/ \E t \in Nat : Leaves("WAITING", t)
         \/ Leaves("UNUSED", ticks_to_sleep[current])
         \/ Halts
         \/ Creates
         \/ Stays
<1>1. ASSUME handle_timer_tick PROVE Ticks
  <2>1. ASSUME NEW fires \in BOOLEAN, NEW live, TickWith(fires, live) PROVE Ticks
    BY <2>1 DEF TickWith, Ticks
  <2> QED  BY <1>1, <2>1 DEF handle_timer_tick
<1>2. ASSUME NEW t \in SleepTicks, do_sleep(t) PROVE \E n \in Nat : Leaves("WAITING", n)
  <2>1. t \in Nat
    BY SchedAssumption
  <2>2. Leaves("WAITING", t)
    BY <1>2 DEF do_sleep, Leaves
  <2> QED  BY <2>1, <2>2
<1>3. ASSUME Exit PROVE Halts \/ Leaves("UNUSED", ticks_to_sleep[current])
  BY <1>3, ExitKind DEF Exit
<1>4. ASSUME NEW s \in SyncSignals, invoke_sync_signal(s)
      PROVE  Halts \/ Leaves("UNUSED", ticks_to_sleep[current]) \/ Stays
  <2>1. CASE do_exit
    BY <1>4, <2>1, ExitKind DEF invoke_sync_signal
  <2>2. CASE ~do_exit
    BY <1>4, <2>2 DEF invoke_sync_signal, Stays
  <2> QED  BY <2>1, <2>2
<1>5. ASSUME do_clone PROVE Creates
  BY <1>5 DEF do_clone, get_new_ctx, Creates
<1>6. ASSUME \/ \E s \in Signal : do_signal(s)
             \/ \E t \in AlarmTicks : do_alarm(t)
             \/ \E g, a \in Gpr : Compute(g, a)
             \/ HandlerReturns
             \/ Shutdown
             \/ UNCHANGED vars
      PROVE  Stays
  BY <1>6 DEF do_signal, do_alarm, Compute, HandlerReturns, Shutdown, vars, Stays
<1> QED  BY <1>1, <1>2, <1>3, <1>4, <1>5, <1>6 DEF Next

\* What pick_next_context returns, without its search.
LEMMA Picked ==
  ASSUME NEW st, NEW c, NEW next, pick_next_context(st, c, next)
  PROVE  \/ /\ next = Swapper
            /\ \A p \in UserPid \ {c} : st[p] # "READY"
         \/ /\ next \in UserPid /\ next # c /\ st[next] = "READY"
            /\ \A q \in UserPid \ {c} :
                 st[q] = "READY" => ScanDistance(c, next) <= ScanDistance(c, q)
  BY DEF pick_next_context, Candidates

-----------------------------------------------------------------------------
(* The invariant of the scheduling states. It is inductive with the two    *)
(* facts of SwapperIdles: the swapper is never asleep or gone, so it can   *)
(* always be picked, and nobody is left when the machine is down.          *)

SwapperIdles ==
  /\ state[Swapper] \in {"READY", "RUNNING"}
  /\ halted => \A p \in UserPid : state[p] = "UNUSED"

StateInv == OneRunning /\ WorkConserving /\ SleepersSleep /\ SwapperIdles

\* A tick keeps it: whoever wakes was WAITING, so it is neither the current
\* context nor, while it has ticks left, the next one.
LEMMA TicksKeeps ==
  ASSUME TypeOK, StateInv, Ticks
  PROVE  StateInv'
<1> USE PidFacts DEF StateInv, SwapperIdles
<1>1. /\ current \in Pid /\ state \in [Pid -> ProcState]
      /\ ticks_to_sleep \in [Pid -> Nat]
  BY DEF TypeOK
<1>2. /\ WakeSleepers \in [Pid -> ProcState]
      /\ \A p \in Pid : (WakeSleepers[p] = "RUNNING") <=> (p = current)
      /\ WakeSleepers[Swapper] = state[Swapper]
      /\ ~halted
  BY <1>1 DEF Ticks, WakeSleepers, Asleep, OneRunning, ProcState
<1>3. \A p \in Pid : CountSleep[p] > 0 => WakeSleepers[p] = "WAITING"
  BY <1>1 DEF CountSleep, WakeSleepers, Asleep, SleepersSleep
<1>4. CASE Candidates(WakeSleepers, current) = {} /\ state' = WakeSleepers
           /\ current' = current
  <2>1. OneRunning' /\ SleepersSleep' /\ SwapperIdles'
    BY <1>2, <1>3, <1>4 DEF Ticks, OneRunning, SleepersSleep
  <2>2. WorkConserving'
    BY <1>2, <1>4 DEF WorkConserving, Candidates, UserPid
  <2> QED  BY <2>1, <2>2
<1>5. ASSUME NEW next \in UserPid, next # current, WakeSleepers[next] = "READY",
             Dispatch([WakeSleepers EXCEPT ![current] = "READY"], next)
      PROVE  StateInv'
  <2>1. /\ current' = next
        /\ state' = [[WakeSleepers EXCEPT ![current] = "READY"] EXCEPT ![next] = "RUNNING"]
    BY <1>5 DEF Dispatch
  <2>2. OneRunning'
    BY <1>1, <1>2, <2>1 DEF OneRunning, UserPid
  <2>3. WorkConserving'
    BY <2>1 DEF WorkConserving, UserPid
  <2>4. SleepersSleep'
    BY <1>1, <1>2, <1>3, <1>5, <2>1 DEF Ticks, SleepersSleep, UserPid
  <2>5. SwapperIdles'
    BY <1>1, <1>2, <2>1 DEF Ticks, UserPid
  <2> QED  BY <2>2, <2>3, <2>4, <2>5
<1> QED  BY <1>4, <1>5 DEF Ticks, Candidates, UserPid

\* A context that goes to sleep or exits keeps it: the swapper is picked only
\* when nobody else is READY.
LEMMA LeavesKeeps ==
  ASSUME TypeOK, StateInv, NEW s \in {"WAITING", "UNUSED"}, NEW n \in Nat,
         s = "UNUSED" => n = ticks_to_sleep[current],
         Leaves(s, n)
  PROVE  StateInv'
<1> USE PidFacts DEF StateInv, SwapperIdles
<1> DEFINE left == [state EXCEPT ![current] = s]
<1>1. /\ current \in UserPid /\ state \in [Pid -> ProcState]
      /\ ticks_to_sleep \in [Pid -> Nat] /\ ~halted
      /\ state[current] = "RUNNING"
  BY DEF TypeOK, Leaves, InUser, UserPid, OneRunning
<1>2. PICK next \in Pid : pick_next_context(left, current, next) /\ Dispatch(left, next)
  BY DEF Leaves
<1>3. /\ left \in [Pid -> ProcState] /\ left[current] = s
      /\ \A p \in Pid : p # current => left[p] = state[p] /\ left[p] # "RUNNING"
  BY <1>1 DEF ProcState, OneRunning, UserPid
<1>4. next # current /\ left[next] = "READY"
  <2>1. left[Swapper] = "READY"
    BY <1>1, <1>3 DEF UserPid
  <2> QED  BY <1>1, <1>2, <2>1, Picked DEF UserPid
<1>5. current' = next /\ state' = [left EXCEPT ![next] = "RUNNING"]
  BY <1>2 DEF Dispatch
<1> HIDE DEF left
<1>6. OneRunning'
  BY <1>3, <1>5 DEF OneRunning
<1>7. WorkConserving'
  <2>1. ASSUME next = Swapper PROVE \A p \in UserPid : left[p] # "READY"
    BY <1>1, <1>2, <1>3, <2>1, Picked DEF UserPid
  <2> QED  BY <1>3, <1>5, <2>1 DEF WorkConserving, UserPid
<1>8. SleepersSleep'
  <2>1. ticks_to_sleep' = [ticks_to_sleep EXCEPT ![current] = n]
    BY DEF Leaves
  <2>2. s = "UNUSED" => n = 0
    BY <1>1 DEF SleepersSleep, UserPid
  <2> QED  BY <1>1, <1>3, <1>4, <1>5, <2>1, <2>2 DEF SleepersSleep, UserPid
<1>9. SwapperIdles'
  BY <1>1, <1>3, <1>5 DEF Leaves, UserPid
<1> QED  BY <1>6, <1>7, <1>8, <1>9

\* Every step keeps the invariant of the scheduling states.
LEMMA StateStep ==
  ASSUME TypeOK, StateInv, [Next]_vars
  PROVE  StateInv'
<1> USE PidFacts DEF StateInv, SwapperIdles, OneRunning, WorkConserving, SleepersSleep
<1>1. CASE Halts
  <2>0. current \in UserPid /\ state[current] = "RUNNING"
    BY <1>1 DEF Halts, InUser, TypeOK, UserPid
  <2>1. current \in UserPid /\ ticks_to_sleep[current] = 0
    BY <2>0 DEF TypeOK, UserPid
  <2>2. /\ state' = [state EXCEPT ![current] = "UNUSED"]
        /\ \A p \in UserPid : state'[p] = "UNUSED"
        /\ halted' /\ UNCHANGED <<current, ticks_to_sleep>>
    BY <1>1 DEF Halts, Gone
  <2>3. \A p \in Pid : p # current => state'[p] = state[p]
    BY <2>2 DEF TypeOK
  <2>4. OneRunning' /\ WorkConserving'
    BY <2>2
  <2>5. SleepersSleep'
    BY <2>1, <2>2, <2>3 DEF UserPid
  <2>6. SwapperIdles'
    BY <2>1, <2>2, <2>3 DEF UserPid
  <2> QED  BY <2>4, <2>5, <2>6
<1>2. CASE Creates
  <2>1. PICK child \in UserPid :
          /\ state[child] = "UNUSED"
          /\ state' = [state EXCEPT ![child] = "READY"]
          /\ ticks_to_sleep' = [ticks_to_sleep EXCEPT ![child] = 0]
    BY <1>2 DEF Creates
  <2>2. ~halted /\ current \in UserPid /\ UNCHANGED <<current, halted>>
    BY <1>2 DEF Creates, InUser, TypeOK, UserPid
  <2>3. \A p \in Pid : p # child => /\ state'[p] = state[p]
                                    /\ ticks_to_sleep'[p] = ticks_to_sleep[p]
    BY <2>1 DEF TypeOK
  <2>4. child \in Pid /\ child # Swapper /\ child # current
        /\ state'[child] = "READY" /\ ticks_to_sleep'[child] = 0
    BY <2>1, <2>2 DEF TypeOK, UserPid
  <2> QED  BY <2>2, <2>3, <2>4 DEF UserPid
<1>3. CASE Stays
  BY <1>3 DEF Stays
<1>4. ticks_to_sleep[current] \in Nat
  BY DEF TypeOK
<1> QED  BY <1>1, <1>2, <1>3, <1>4, StepKind, TicksKeeps, LeavesKeeps

\* The invariant holds in every reachable state.
LEMMA StateInvariant == Spec => []StateInv
<1>1. Init => StateInv
  BY PidFacts DEF Init, StateInv, OneRunning, WorkConserving, SleepersSleep,
                  SwapperIdles, UserPid, Swapper, Init1
<1>2. TypeOK /\ StateInv /\ [Next]_vars => StateInv'
  BY StateStep
<1> QED  BY <1>1, <1>2, TypeCorrect, PTL DEF Spec

\* The scheduling states are right in every reachable state: one context runs
\* and it is the current one, the swapper runs only for want of another, a
\* context with ticks left is asleep.
THEOREM StatesCorrect == Spec => [](OneRunning /\ WorkConserving /\ SleepersSleep)
  BY StateInvariant, PTL DEF StateInv

-----------------------------------------------------------------------------
(* Round robin.                                                            *)

\* The distance to k shrinks when the scan moves from c to a slot n that it
\* reaches before k.
LEMMA NearerLemma ==
  ASSUME NEW c \in Pid, NEW n \in Pid, NEW k \in Pid,
         n # c, n # k, k # c, ScanDistance(c, n) <= ScanDistance(c, k)
  PROVE  ScanDistance(n, k) < ScanDistance(c, k)
  BY SchedAssumption DEF ScanDistance, Pid

\* Picking the nearest READY context brings every other READY context nearer.
LEMMA PickedNearer ==
  ASSUME NEW st, NEW c \in Pid, NEW next \in Pid, pick_next_context(st, c, next),
         NEW k \in UserPid, k # c, k # next, st[k] = "READY"
  PROVE  ScanDistance(next, k) < ScanDistance(c, k)
<1>1. next # c /\ ScanDistance(c, next) <= ScanDistance(c, k)
  BY Picked
<1> QED  BY <1>1, NearerLemma DEF UserPid

\* Nobody is served twice before a context that stays READY: every switch
\* brings it nearer to the slot that runs.
THEOREM RoundRobinCorrect == Spec => RoundRobin
<1> DEFINE Nearer == \A k \in UserPid :
             state[k] = "READY" /\ state'[k] = "READY" /\ current' # current
               => ScanDistance(current', k) < ScanDistance(current, k)
<1>1. ASSUME TypeOK, OneRunning, [Next]_vars PROVE Nearer
  <2> USE PidFacts, <1>1
  <2> SUFFICES ASSUME NEW k \in UserPid, state[k] = "READY",
                      state'[k] = "READY", current' # current
               PROVE  ScanDistance(current', k) < ScanDistance(current, k)
    OBVIOUS
  <2>1. current \in Pid /\ k \in Pid /\ state \in [Pid -> ProcState]
    BY DEF TypeOK, UserPid
  <2>2. CASE Ticks
    <3>1. PICK next \in Candidates(WakeSleepers, current) :
             /\ pick_next_context(WakeSleepers, current, next)
             /\ Dispatch([WakeSleepers EXCEPT ![current] = "READY"], next)
      BY <2>2 DEF Ticks
    <3>2. next \in Pid /\ current' = next /\ state'[next] = "RUNNING"
      BY <3>1, <2>1 DEF Dispatch, Candidates, UserPid, WakeSleepers
    <3>3. k # current /\ k # next /\ WakeSleepers[k] = "READY"
      BY <2>1, <2>2, <3>2 DEF Ticks, OneRunning, WakeSleepers, Asleep
    <3> QED  BY <2>1, <3>1, <3>2, <3>3, PickedNearer
  <2>3. ASSUME NEW s, NEW n, Leaves(s, n)
        PROVE  ScanDistance(current', k) < ScanDistance(current, k)
    <3> DEFINE left == [state EXCEPT ![current] = s]
    <3>1. PICK next \in Pid : pick_next_context(left, current, next) /\ Dispatch(left, next)
      BY <2>3 DEF Leaves
    <3>2. current' = next /\ state'[next] = "RUNNING"
      BY <2>1, <3>1 DEF Dispatch
    <3>3. k # current /\ k # next /\ left[k] = "READY"
      BY <2>1, <2>3, <3>2 DEF Leaves, InUser, OneRunning
    <3> HIDE DEF left
    <3> QED  BY <2>1, <3>1, <3>2, <3>3, PickedNearer
  <2>4. CASE Halts \/ Creates \/ Stays
    BY <2>4 DEF Halts, Creates, Stays
  <2> QED  BY <2>2, <2>3, <2>4, StepKind
<1> QED  BY <1>1, TypeCorrect, StatesCorrect, PTL DEF Spec, RoundRobin

-----------------------------------------------------------------------------
(* The scheduler implements the abstract processor.                        *)

ReadyPids == {p \in UserPid : state[p] = "READY"}
WaitingPids == {p \in UserPid : state[p] = "WAITING"}

\* A tick is an interrupt, or stutters when nobody wakes and nobody waits.
LEMMA TicksImplements ==
  ASSUME TypeOK, StateInv, Ticks
  PROVE  Processor!Interrupt
<1> USE PidFacts
<1> DEFINE woken == {p \in UserPid : Asleep(p) /\ ticks_to_sleep[p] = 1}
<1>1. /\ state \in [Pid -> ProcState] /\ current \in Pid /\ ~halted /\ ~halted'
      /\ \A p \in Pid : (state[p] = "RUNNING") <=> (p = current)
  BY DEF TypeOK, StateInv, OneRunning, Ticks
<1>2. woken \in SUBSET WaitingPids
  BY DEF WaitingPids, Asleep
<1>3. /\ {p \in UserPid : WakeSleepers[p] = "READY"} = ReadyPids \cup woken
      /\ {p \in UserPid : WakeSleepers[p] = "WAITING"} = WaitingPids \ woken
      /\ Candidates(WakeSleepers, current) = ReadyPids \cup woken
  BY <1>1 DEF WakeSleepers, Asleep, ReadyPids, WaitingPids, Candidates, UserPid
<1>4. CASE Candidates(WakeSleepers, current) = {} /\ state' = WakeSleepers
           /\ current' = current
  <2>1. WaitingPids' = WaitingPids \ woken /\ ReadyPids' = ReadyPids
    BY <1>3, <1>4 DEF WaitingPids, ReadyPids
  <2> QED  BY <1>1, <1>2, <1>3, <1>4, <2>1
           DEF Processor!Interrupt, ReadyPids, WaitingPids
<1>5. ASSUME NEW next \in Candidates(WakeSleepers, current),
             Dispatch([WakeSleepers EXCEPT ![current] = "READY"], next)
      PROVE  Processor!Interrupt
  <2>1. /\ current' = next /\ next # current /\ next \in UserPid
        /\ state' = [[WakeSleepers EXCEPT ![current] = "READY"] EXCEPT ![next] = "RUNNING"]
    BY <1>5 DEF Dispatch, Candidates
  <2>2. /\ state'[next] = "RUNNING" /\ state'[current] = "READY"
        /\ \A p \in Pid \ {current, next} : state'[p] = WakeSleepers[p]
    BY <2>1, <1>1 DEF WakeSleepers, UserPid
  <2>3. WakeSleepers[current] = "RUNNING" /\ WakeSleepers[next] = "READY"
    BY <1>1, <1>5 DEF WakeSleepers, Asleep, Candidates
  <2>4. WaitingPids' = WaitingPids \ woken
    BY <1>3, <2>1, <2>2, <2>3 DEF WaitingPids, UserPid
  <2>5. ReadyPids' = ((ReadyPids \cup woken) \ {next}) \cup ({current} \ {Swapper})
    BY <1>1, <1>3, <2>1, <2>2, <2>3 DEF ReadyPids, UserPid
  <2>6. next \in ReadyPids \cup woken
    BY <1>3, <1>5
  <2> HIDE DEF woken
  <2> QED  BY <1>1, <1>2, <2>1, <2>4, <2>5, <2>6
           DEF Processor!Interrupt, ReadyPids, WaitingPids
<1> QED  BY <1>4, <1>5 DEF Ticks

\* Sleep is the abstract Block, and an exit that is not the last one the
\* abstract Finish.
LEMMA LeavesImplements ==
  ASSUME TypeOK, StateInv, NEW s \in {"WAITING", "UNUSED"}, NEW n, Leaves(s, n)
  PROVE  Processor!Block \/ Processor!Finish
<1> USE PidFacts
<1> DEFINE left == [state EXCEPT ![current] = s]
           running == current
<1>1. /\ state \in [Pid -> ProcState] /\ current \in UserPid /\ ~halted /\ ~halted'
      /\ \A p \in Pid : (state[p] = "RUNNING") <=> (p = current)
  BY DEF TypeOK, StateInv, OneRunning, Leaves, InUser, UserPid
<1>2. PICK next \in Pid : pick_next_context(left, current, next) /\ Dispatch(left, next)
  BY DEF Leaves
<1>3. /\ left[current] = s
      /\ \A p \in Pid : p # current => left[p] = state[p]
  BY <1>1 DEF UserPid
<1>4. /\ current' = next
      /\ state'[next] = "RUNNING"
      /\ \A p \in Pid : p # next => state'[p] = left[p]
  BY <1>1, <1>2 DEF Dispatch
<1>5. \/ next = Swapper /\ ReadyPids = {}
      \/ next \in ReadyPids /\ next # current
  BY <1>1, <1>2, <1>3, Picked DEF ReadyPids, UserPid
<1> HIDE DEF left
<1>6. next # current
  BY <1>1, <1>5 DEF UserPid
<1>7. ReadyPids' = ReadyPids \ {next}
  BY <1>1, <1>3, <1>4, <1>6 DEF ReadyPids, UserPid
<1>8. Processor!Grant(ReadyPids)
  BY <1>1, <1>4, <1>5, <1>7 DEF Processor!Grant, ReadyPids
<1>9. CASE s = "WAITING"
  <2>1. WaitingPids' = WaitingPids \cup {current}
    BY <1>1, <1>3, <1>4, <1>5, <1>6, <1>9 DEF WaitingPids, ReadyPids, UserPid
  <2> QED  BY <1>1, <1>8, <2>1
           DEF Processor!Block, ReadyPids, WaitingPids, UserPid
<1>10. CASE s = "UNUSED"
  <2>1. WaitingPids' = WaitingPids
    BY <1>1, <1>3, <1>4, <1>5, <1>6, <1>10 DEF WaitingPids, ReadyPids, UserPid
  <2>2. ReadyPids \cup WaitingPids # {}
    <3>1. PICK p \in UserPid : left[p] # "UNUSED"
      BY <1>10 DEF Leaves, left
    <3>2. p # current /\ state[p] # "UNUSED" /\ state[p] # "RUNNING"
      BY <1>1, <1>3, <1>10, <3>1 DEF UserPid
    <3> QED  BY <1>1, <3>2 DEF ReadyPids, WaitingPids, ProcState, UserPid
  <2> QED  BY <1>1, <1>8, <2>1, <2>2
           DEF Processor!Finish, ReadyPids, WaitingPids, UserPid
<1> QED  BY <1>9, <1>10

\* Every step of the scheduler is a step of the abstract processor or leaves
\* its variables alone.
LEMMA StepImplements ==
  ASSUME TypeOK, StateInv, [Next]_vars
  PROVE  [Processor!PNext]_(Processor!pvars)
<1> USE PidFacts
<1>1. CASE Ticks
  BY <1>1, TicksImplements DEF Processor!PNext
<1>2. ASSUME NEW s \in {"WAITING", "UNUSED"}, NEW n, Leaves(s, n)
      PROVE  Processor!PNext
  BY <1>2, LeavesImplements DEF Processor!PNext
<1>3. CASE Halts
  <2>1. /\ current \in UserPid /\ ~halted /\ halted' = TRUE
        /\ state' = [state EXCEPT ![current] = "UNUSED"]
        /\ \A p \in UserPid : state'[p] = "UNUSED"
        /\ state[current] = "RUNNING"
    BY <1>3 DEF Halts, InUser, Gone, TypeOK, StateInv, OneRunning, UserPid
  <2>2. \A p \in UserPid : p # current => state[p] = "UNUSED"
    BY <2>1 DEF TypeOK, UserPid
  <2>3. ReadyPids = {} /\ WaitingPids = {} /\ ReadyPids' = {} /\ WaitingPids' = {}
    BY <2>1, <2>2 DEF ReadyPids, WaitingPids
  <2>4. Processor!Finish
    BY <2>1, <2>3 DEF Processor!Finish, ReadyPids, WaitingPids, UserPid
  <2> QED  BY <2>4 DEF Processor!PNext
<1>4. CASE Creates
  <2>1. PICK child \in UserPid : /\ state[child] = "UNUSED"
                                 /\ state' = [state EXCEPT ![child] = "READY"]
    BY <1>4 DEF Creates
  <2>2. /\ ~halted /\ ~halted' /\ current \in UserPid /\ current' = current
        /\ state[current] = "RUNNING"
    BY <1>4 DEF Creates, InUser, TypeOK, StateInv, OneRunning, UserPid
  <2>3. /\ ReadyPids' = ReadyPids \cup {child} /\ WaitingPids' = WaitingPids
        /\ child \notin ReadyPids \cup WaitingPids /\ child # current
    BY <2>1, <2>2 DEF ReadyPids, WaitingPids, TypeOK, UserPid
  <2>4. Processor!Spawn
    BY <2>1, <2>2, <2>3 DEF Processor!Spawn, ReadyPids, WaitingPids, UserPid
  <2> QED  BY <2>4 DEF Processor!PNext
<1>5. CASE Stays
  BY <1>5 DEF Stays, Processor!pvars
<1> QED  BY <1>1, <1>2, <1>3, <1>4, <1>5, StepKind

\* The scheduler implements the abstract processor.
THEOREM Implementation == Spec => ImplementsProcessor
<1>1. Init => Processor!PInit
  BY PidFacts DEF Init, Processor!PInit, UserPid, Swapper, Init1
<1>2. TypeOK /\ StateInv /\ [Next]_vars => [Processor!PNext]_(Processor!pvars)
  BY StepImplements
<1> QED
  BY <1>1, <1>2, StateInvariant, TypeCorrect, PTL DEF Spec, ImplementsProcessor, Processor!PSpec

-----------------------------------------------------------------------------
(* OS stacks. What a step does to them and to the set of live contexts.    *)

StackInv == StacksExclusive /\ PendingFreedOnce

\* A tick frees what is pending and leaves every live stack allocated.
LEMMA FreeingKeeps ==
  ASSUME TypeOK, StackInv, FreePendingStacks,
         \A p \in UserPid : Live(p)' => Live(p)
  PROVE  StackInv'
<1> USE SchedAssumption, PidFacts DEF StackInv, TypeOK, Live
<1>1. /\ allocated' = allocated \ {free_os_pfn[p] : p \in UserPid}
      /\ os_stack_pfn' = os_stack_pfn
      /\ \A p \in UserPid : free_os_pfn'[p] = NoPfn
  BY DEF FreePendingStacks, UserPid
<1>2. ASSUME NEW p \in UserPid, Live(p)'
      PROVE  /\ os_stack_pfn[p] \in allocated' /\ os_stack_pfn[p] # NoPfn
             /\ \A q \in UserPid : q # p /\ Live(q)' => os_stack_pfn[q] # os_stack_pfn[p]
  BY <1>1, <1>2 DEF StacksExclusive
<1>3. StacksExclusive'
  BY <1>1, <1>2 DEF StacksExclusive
<1>4. PendingFreedOnce'
  BY <1>1 DEF PendingFreedOnce
<1> QED  BY <1>3, <1>4

\* An exit makes the stack of the one who exits pending.
LEMMA ExitKeepsStacks ==
  ASSUME TypeOK, StackInv, StateInv, InUser, do_exit
  PROVE  StackInv'
<1> USE SchedAssumption, PidFacts DEF StackInv, Live
<1>1. /\ current \in UserPid /\ Live(current)
      /\ state \in [Pid -> ProcState] /\ free_os_pfn \in [Pid -> Pfn \cup {NoPfn}]
      /\ allocated \subseteq Pfn
  BY DEF TypeOK, StateInv, OneRunning, InUser, UserPid
<1>2. /\ os_stack_pfn' = os_stack_pfn /\ allocated' = allocated
      /\ free_os_pfn'[current] = os_stack_pfn[current]
      /\ \A p \in UserPid : p # current => free_os_pfn'[p] = free_os_pfn[p]
  BY <1>1 DEF do_exit, NobodyLeft, UserPid
<1>3. ASSUME NEW p \in UserPid, state'[p] # "UNUSED"
      PROVE  p # current /\ state[p] # "UNUSED"
  <2>1. Gone[current] = "UNUSED" /\ \A q \in Pid : q # current => Gone[q] = state[q]
    BY <1>1 DEF Gone, UserPid
  <2>2. CASE state' = Gone
    BY <1>3, <2>1, <2>2 DEF UserPid
  <2>3. ASSUME NEW next \in Pid, pick_next_context(Gone, current, next),
               Dispatch(Gone, next)
        PROVE  p # current /\ state[p] # "UNUSED"
    <3>1. next = Swapper \/ (next # current /\ Gone[next] = "READY")
      BY <2>3, Picked
    <3>2. Gone \in [Pid -> ProcState]
      BY <1>1 DEF Gone, ProcState
    <3> QED  BY <1>1, <1>3, <2>1, <2>3, <3>1, <3>2 DEF Dispatch, UserPid
  <2> QED  BY <2>2, <2>3 DEF do_exit, NobodyLeft
<1>4. StacksExclusive'
  BY <1>1, <1>2, <1>3 DEF StacksExclusive
<1>5. PendingFreedOnce'
  BY <1>1, <1>2 DEF StacksExclusive, PendingFreedOnce
<1> QED  BY <1>4, <1>5

\* Clone takes a stack that nobody has and that nobody is about to free.
LEMMA CloneKeepsStacks ==
  ASSUME TypeOK, StackInv, do_clone
  PROVE  StackInv'
<1> USE SchedAssumption, PidFacts DEF StackInv, TypeOK, Live
<1>1. PICK child \in UserPid, f \in Pfn \ allocated :
        /\ os_stack_pfn' = [os_stack_pfn EXCEPT ![child] = f]
        /\ allocated' = allocated \cup {f}
        /\ state' = [state EXCEPT ![child] = "READY"]
  BY DEF do_clone, os_pfn_alloc
<1>2. free_os_pfn' = free_os_pfn
  BY DEF do_clone
<1>3. StacksExclusive'
  <2>1. /\ os_stack_pfn'[child] = f
        /\ \A p \in UserPid : p # child => /\ os_stack_pfn'[p] = os_stack_pfn[p]
                                           /\ state'[p] = state[p]
    BY <1>1 DEF UserPid
  <2>2. \A q \in UserPid : free_os_pfn[q] # f
    BY <1>1 DEF PendingFreedOnce, UserPid
  <2> QED  BY <1>1, <1>2, <2>1, <2>2 DEF StacksExclusive
<1>4. PendingFreedOnce'
  BY <1>1, <1>2 DEF PendingFreedOnce
<1> QED  BY <1>3, <1>4

\* Every step keeps the OS stacks apart.
LEMMA StackStep ==
  ASSUME TypeOK, StateInv, StackInv, [Next]_vars
  PROVE  StackInv'
<1> USE PidFacts
<1>1. ASSUME UNCHANGED stackVars, \A p \in UserPid : Live(p)' => Live(p)
      PROVE  StackInv'
  BY <1>1 DEF StackInv, StacksExclusive, PendingFreedOnce, stackVars
<1>2. ASSUME handle_timer_tick PROVE StackInv'
  <2>1. ASSUME NEW fires \in BOOLEAN, NEW live, TickWith(fires, live)
        PROVE  StackInv'
    <3>1. \A p \in UserPid : WakeSleepers[p] # "UNUSED" => Live(p)
      BY DEF WakeSleepers, Asleep, Live, UserPid
    <3>2. \A p \in UserPid : Live(p)' => Live(p)
      <4>1. CASE state' = WakeSleepers
        BY <3>1, <4>1 DEF Live
      <4>2. ASSUME NEW next \in Candidates(WakeSleepers, current),
                   Dispatch([WakeSleepers EXCEPT ![current] = "READY"], next)
            PROVE  \A p \in UserPid : Live(p)' => Live(p)
        <5>1. Live(current) /\ Live(next)
          BY <2>1, <4>2, <3>1
             DEF TickWith, StateInv, OneRunning, TypeOK, Live, Candidates
        <5>2. WakeSleepers \in [Pid -> ProcState]
          BY DEF WakeSleepers, TypeOK, ProcState
        <5> QED  BY <3>1, <4>2, <5>1, <5>2 DEF Dispatch, Live, UserPid, TypeOK
      <4> QED  BY <2>1, <4>1, <4>2 DEF TickWith
    <3> QED  BY <2>1, <3>2, FreeingKeeps DEF TickWith
  <2> QED  BY <1>2, <2>1 DEF handle_timer_tick
<1>3. ASSUME Exit PROVE StackInv'
  BY <1>3, ExitKeepsStacks DEF Exit
<1>4. ASSUME NEW s \in SyncSignals, invoke_sync_signal(s) PROVE StackInv'
  <2>1. CASE do_exit
    BY <1>4, <2>1, ExitKeepsStacks DEF invoke_sync_signal
  <2>2. CASE ~do_exit
    BY <1>1, <1>4, <2>2 DEF invoke_sync_signal, Live
  <2> QED  BY <2>1, <2>2
<1>5. ASSUME do_clone PROVE StackInv'
  BY <1>5, CloneKeepsStacks
<1>6. ASSUME NEW t \in SleepTicks, do_sleep(t) PROVE StackInv'
  <2>1. PICK next \in Pid : /\ pick_next_context([state EXCEPT ![current] = "WAITING"],
                                                  current, next)
                            /\ Dispatch([state EXCEPT ![current] = "WAITING"], next)
    BY <1>6 DEF do_sleep
  <2>2. next = Swapper \/ state[next] = "READY"
    <3> DEFINE left == [state EXCEPT ![current] = "WAITING"]
    <3>1. next = Swapper \/ (next # current /\ left[next] = "READY")
      <4> HIDE DEF left
      <4> QED  BY <2>1, Picked DEF left
    <3> QED  BY <3>1 DEF TypeOK
  <2>3. Live(current)
    BY <1>6 DEF do_sleep, InUser, StateInv, OneRunning, TypeOK, Live
  <2>4. \A p \in UserPid : Live(p)' => Live(p)
    BY <2>1, <2>2, <2>3 DEF Dispatch, Live, TypeOK, UserPid
  <2> QED  BY <1>1, <1>6, <2>4 DEF do_sleep
<1>7. ASSUME \/ \E s \in Signal : do_signal(s)
             \/ \E t \in AlarmTicks : do_alarm(t)
             \/ \E g, a \in Gpr : Compute(g, a)
             \/ HandlerReturns
             \/ Shutdown
             \/ UNCHANGED vars
      PROVE  StackInv'
  <2>1. UNCHANGED stackVars /\ state' = state
    BY <1>7 DEF do_signal, do_alarm, Compute, HandlerReturns, Shutdown, vars, stackVars
  <2> QED  BY <1>1, <2>1 DEF Live
<1> QED  BY <1>2, <1>3, <1>4, <1>5, <1>6, <1>7 DEF Next

\* No two live contexts ever share an OS stack, and no stack is freed while a
\* live context has it, or twice.
THEOREM StacksCorrect == Spec => [](StacksExclusive /\ PendingFreedOnce)
<1>1. Init => StackInv
  BY SchedAssumption, PidFacts
     DEF Init, StackInv, StacksExclusive, PendingFreedOnce, Live, UserPid, Swapper, Init1
<1>2. TypeOK /\ StateInv /\ StackInv /\ [Next]_vars => StackInv'
  BY StackStep
<1> QED
  BY <1>1, <1>2, TypeCorrect, StateInvariant, PTL DEF Spec, StackInv

-----------------------------------------------------------------------------
(* Saved registers.                                                        *)

\* A tick that switches saves the frame of the one and restores the other's.
LEMMA TickKeepsFrames ==
  ASSUME TypeOK, StateInv, FrameIntegrity, NEW fires \in BOOLEAN,
         TickWith(fires, IF fires THEN Redirect(frame, SIGALRM) ELSE frame)
  PROVE  FrameIntegrity'
<1> USE PidFacts
<1> DEFINE live == IF fires THEN Redirect(frame, SIGALRM) ELSE frame
<1>1. /\ current \in Pid /\ ~halted /\ frame = user[current]
      /\ state[current] = "RUNNING"
      /\ regs \in [Pid -> Frame] /\ user \in [Pid -> Frame]
      /\ state \in [Pid -> ProcState]
      /\ \A p \in Pid \ {current} : Live(p) => regs[p] = user[p]
  BY DEF TypeOK, FrameIntegrity, TickWith, StateInv, OneRunning
<1>2. user'[current] = live /\ \A p \in Pid \ {current} : user'[p] = user[p]
  BY <1>1 DEF TickWith
<1>3. \A p \in Pid : WakeSleepers[p] # "UNUSED" => Live(p)
  BY DEF WakeSleepers, Asleep, Live
<1> HIDE DEF live
<1>4. CASE UNCHANGED <<current, regs>> /\ state' = WakeSleepers /\ frame' = live
  BY <1>1, <1>2, <1>3, <1>4 DEF FrameIntegrity, Live
<1>5. ASSUME NEW next \in Candidates(WakeSleepers, current),
             switch_context_timer(live, next),
             Dispatch([WakeSleepers EXCEPT ![current] = "READY"], next)
      PROVE  FrameIntegrity'
  <2>1. next \in Pid /\ next # current /\ Live(next)
    BY <1>3, <1>5 DEF Candidates, UserPid
  <2>2. /\ regs'[current] = live /\ frame' = regs[next] /\ current' = next
        /\ \A p \in Pid \ {current} : regs'[p] = regs[p]
    BY <1>1, <1>5 DEF switch_context_timer, Dispatch
  <2>3. frame' = user'[next]
    BY <1>1, <1>2, <2>1, <2>2
  <2>4. ASSUME NEW p \in Pid, p # next, Live(p)' PROVE regs'[p] = user'[p]
    <3>1. CASE p = current
      BY <1>2, <2>2, <3>1
    <3>2. CASE p # current
      <4>1. WakeSleepers \in [Pid -> ProcState]
        BY DEF WakeSleepers, TypeOK, ProcState
      <4>2. WakeSleepers[p] # "UNUSED"
        BY <1>5, <2>1, <2>4, <3>2, <4>1 DEF Dispatch, Live
      <4> QED  BY <1>1, <1>2, <1>3, <2>2, <3>2, <4>2
    <3> QED  BY <3>1, <3>2
  <2> QED  BY <2>2, <2>3, <2>4 DEF FrameIntegrity
<1> QED  BY <1>4, <1>5 DEF TickWith, live

\* switch_context_sleep restores what the next context's code left; the one
\* that leaves is gone, or its registers are saved as its code expects them.
LEMMA SleepSwitchKeepsFrames ==
  ASSUME TypeOK, StateInv, FrameIntegrity, InUser,
         NEW s \in {"WAITING", "UNUSED"}, NEW next \in Pid,
         pick_next_context([state EXCEPT ![current] = s], current, next),
         Dispatch([state EXCEPT ![current] = s], next),
         switch_context_sleep(next),
         \A p \in Pid \ {current} : user'[p] = user[p],
         s = "WAITING" => user'[current] = [user[current] EXCEPT !.rax = regs[current].rax]
  PROVE  FrameIntegrity'
<1> USE PidFacts
<1> DEFINE left == [state EXCEPT ![current] = s]
<1>1. /\ current \in Pid /\ current # Swapper /\ frame = user[current]
      /\ regs \in [Pid -> Frame] /\ state \in [Pid -> ProcState]
      /\ \A p \in Pid \ {current} : Live(p) => regs[p] = user[p]
  BY DEF TypeOK, FrameIntegrity, InUser
<1>2. left[current] = s /\ \A p \in Pid \ {current} : left[p] = state[p]
  BY <1>1
<1>3. next # current /\ Live(next)
  <2>1. next = Swapper \/ (next # current /\ left[next] = "READY")
    <3> HIDE DEF left
    <3> QED  BY Picked DEF left
  <2> QED  BY <1>1, <1>2, <2>1 DEF Live, StateInv, SwapperIdles
<1>4. /\ current' = next /\ state'[next] = "RUNNING"
      /\ \A p \in Pid \ {next} : state'[p] = left[p]
  BY <1>1 DEF Dispatch
<1>5. /\ regs'[current] = [frame EXCEPT !.rax = regs[current].rax]
      /\ frame' = regs[next]
      /\ \A p \in Pid \ {current} : regs'[p] = regs[p]
  BY <1>1 DEF switch_context_sleep
<1> HIDE DEF left
<1>6. frame' = user'[next]
  BY <1>1, <1>3, <1>5
<1>7. ASSUME NEW p \in Pid, p # next, Live(p)' PROVE regs'[p] = user'[p]
  <2>1. CASE p = current
    BY <1>1, <1>2, <1>4, <1>5, <1>7, <2>1 DEF Live
  <2>2. CASE p # current
    BY <1>1, <1>2, <1>4, <1>5, <1>7, <2>2 DEF Live
  <2> QED  BY <2>1, <2>2
<1> QED  BY <1>4, <1>6, <1>7 DEF FrameIntegrity

\* Every step keeps the frames.
LEMMA FrameStep ==
  ASSUME TypeOK, StateInv, FrameIntegrity, [Next]_vars
  PROVE  FrameIntegrity'
<1> USE PidFacts
<1>1. ASSUME handle_timer_tick PROVE FrameIntegrity'
  <2>1. \E fires \in BOOLEAN :
          TickWith(fires, IF fires THEN Redirect(frame, SIGALRM) ELSE frame)
    BY <1>1 DEF handle_timer_tick
  <2> QED  BY <2>1, TickKeepsFrames
<1>2. ASSUME InUser, do_exit PROVE FrameIntegrity'
  <2>1. CASE halted' = TRUE
    BY <2>1 DEF FrameIntegrity
  <2>2. CASE ~(halted' = TRUE)
    <3>1. PICK next \in Pid : /\ pick_next_context(Gone, current, next)
                              /\ switch_context_sleep(next)
                              /\ Dispatch(Gone, next)
      BY <1>2, <2>2 DEF do_exit, NobodyLeft
    <3>2. user' = user
      BY <1>2 DEF do_exit, NobodyLeft
    <3> QED  BY <1>2, <3>1, <3>2, SleepSwitchKeepsFrames DEF Gone
  <2> QED  BY <2>1, <2>2
<1>3. ASSUME NEW t \in SleepTicks, do_sleep(t) PROVE FrameIntegrity'
  <2>1. PICK next \in Pid :
          /\ pick_next_context([state EXCEPT ![current] = "WAITING"], current, next)
          /\ switch_context_sleep(next)
          /\ Dispatch([state EXCEPT ![current] = "WAITING"], next)
    BY <1>3 DEF do_sleep
  <2>2. /\ InUser
        /\ user'[current] = [user[current] EXCEPT !.rax = regs[current].rax]
        /\ \A p \in Pid \ {current} : user'[p] = user[p]
    BY <1>3 DEF do_sleep, TypeOK
  <2> QED  BY <2>1, <2>2, SleepSwitchKeepsFrames
<1>4. ASSUME do_clone PROVE FrameIntegrity'
  <2>1. PICK child \in UserPid : /\ state[child] = "UNUSED"
                                 /\ state' = [state EXCEPT ![child] = "READY"]
                                 /\ regs'[child] = user'[child]
                                 /\ \A p \in Pid \ {child} : /\ regs'[p] = regs[p]
                                                             /\ user'[p] = user[p]
    <3> DEFINE start == [regs[current] EXCEPT !.rip = Main]
    <3>1. PICK child \in UserPid : /\ get_new_ctx(child)
                                   /\ state' = [state EXCEPT ![child] = "READY"]
                                   /\ regs' = [regs EXCEPT ![child] = start]
                                   /\ user' = [user EXCEPT ![child] = start]
      BY <1>4 DEF do_clone
    <3> HIDE DEF start
    <3> QED  BY <3>1 DEF get_new_ctx, TypeOK, UserPid
  <2>2. child # current /\ ~halted /\ UNCHANGED <<current, frame, halted>>
    BY <1>4, <2>1 DEF do_clone, InUser, TypeOK, StateInv, OneRunning
  <2>3. frame' = user'[current]
    BY <2>1, <2>2 DEF FrameIntegrity, TypeOK
  <2>4. ASSUME NEW p \in Pid, p # current, Live(p)' PROVE regs'[p] = user'[p]
    BY <2>1, <2>2, <2>4 DEF FrameIntegrity, Live, TypeOK
  <2> QED  BY <2>2, <2>3, <2>4 DEF FrameIntegrity
<1>5. ASSUME /\ InUser /\ UNCHANGED <<current, state, regs, halted>>
             /\ \E fr \in Frame : frame' = fr /\ user' = [user EXCEPT ![current] = fr]
      PROVE  FrameIntegrity'
  BY <1>5 DEF FrameIntegrity, Live, InUser, TypeOK
<1>6. ASSUME NEW s \in SyncSignals, invoke_sync_signal(s) PROVE FrameIntegrity'
  <2>1. CASE do_exit
    BY <1>2, <1>6, <2>1 DEF invoke_sync_signal
  <2>2. CASE ~do_exit
    <3>1. Redirect(frame, s) \in Frame
      BY RedirectType DEF TypeOK, Signal
    <3>2. frame = user[current]
      BY <1>6 DEF invoke_sync_signal, InUser, FrameIntegrity
    <3> QED  BY <1>5, <1>6, <2>2, <3>1, <3>2 DEF invoke_sync_signal, TypeOK
  <2> QED  BY <2>1, <2>2
<1>7. ASSUME NEW g \in Gpr, NEW a \in Gpr, Compute(g, a) PROVE FrameIntegrity'
  <2>1. [frame EXCEPT !.gpr = g, !.rax = a] \in Frame
    BY DEF TypeOK, Frame
  <2>2. frame = user[current]
    BY <1>7 DEF Compute, InUser, FrameIntegrity
  <2> QED  BY <1>5, <1>7, <2>1, <2>2 DEF Compute, TypeOK
<1>8. ASSUME HandlerReturns PROVE FrameIntegrity'
  <2>1. frame = user[current] /\ InUser
    BY <1>8 DEF HandlerReturns, InUser, FrameIntegrity
  <2>2. [frame EXCEPT !.rip = Head(ustack[current])] \in Frame
    <3>1. ustack[current] \in Seq(Rip) /\ ustack[current] # <<>>
      BY <1>8 DEF HandlerReturns, TypeOK
    <3>2. Head(ustack[current]) \in Rip
      BY <3>1, HeadTailProperties
    <3> QED  BY <3>2 DEF TypeOK, Frame
  <2> QED  BY <1>5, <1>8, <2>1, <2>2 DEF HandlerReturns, TypeOK
<1>9. ASSUME \/ \E s \in Signal : do_signal(s)
             \/ \E t \in AlarmTicks : do_alarm(t)
             \/ Shutdown
             \/ UNCHANGED vars
      PROVE  FrameIntegrity'
  BY <1>9 DEF do_signal, do_alarm, Shutdown, vars, frameVars, FrameIntegrity, Live
<1> QED
  BY <1>1, <1>2, <1>3, <1>4, <1>6, <1>7, <1>8, <1>9 DEF Next, Exit

\* Every context resumes with the registers its own code left.
THEOREM FramesCorrect == Spec => []FrameIntegrity
<1>1. Init => FrameIntegrity
  BY PidFacts DEF Init, FrameIntegrity, UserPid
<1>2. TypeOK /\ StateInv /\ FrameIntegrity /\ [Next]_vars => FrameIntegrity'
  BY FrameStep
<1> QED  BY <1>1, <1>2, TypeCorrect, StateInvariant, PTL DEF Spec

-----------------------------------------------------------------------------
(* The way back from nested handlers: what a step may do to the path of a  *)
(* context, and why the path still ends in the main program.               *)

\* A way back with rip r, pushed rips s and handlers h.
OnWay(r, s, h) ==
  /\ s = <<>> => r = Main
  /\ s # <<>> => r \in h /\ s[Len(s)] = Main /\ \A i \in 1 .. Len(s) - 1 : s[i] \in h

\* This is what ReturnsToMain says of the path as a whole.
LEMMA WayIsPath ==
  ASSUME NEW r \in Rip, NEW s \in Seq(Rip), NEW h
  PROVE  LET path == <<r>> \o s
         IN  OnWay(r, s, h) <=> /\ path[Len(path)] = Main
                                /\ \A i \in 1 .. Len(path) - 1 : path[i] \in h
<1> DEFINE path == <<r>> \o s
<1>1. /\ Len(path) = Len(s) + 1 /\ Len(s) \in Nat
      /\ path[1] = r
      /\ \A i \in 1 .. Len(s) : path[i + 1] = s[i]
  OBVIOUS
<1> HIDE DEF path
<1>2. CASE s = <<>>
  <2>1. Len(s) = 0
    BY <1>2
  <2> QED  BY <1>1, <1>2, <2>1 DEF OnWay, path
<1>3. CASE s # <<>>
  <2>1. Len(s) >= 1
    BY <1>3, <1>1, EmptySeq
  <2>2. path[Len(path)] = s[Len(s)]
    BY <1>1, <2>1
  <2>3. (\A i \in 1 .. Len(path) - 1 : path[i] \in h)
          <=> r \in h /\ \A i \in 1 .. Len(s) - 1 : s[i] \in h
    <3>1. ASSUME \A i \in 1 .. Len(path) - 1 : path[i] \in h, NEW i \in 1 .. Len(s) - 1
          PROVE  s[i] \in h
      <4>1. i + 1 \in 1 .. Len(path) - 1 /\ i \in 1 .. Len(s)
        BY <1>1
      <4> QED  BY <1>1, <3>1, <4>1
    <3>2. (\A i \in 1 .. Len(path) - 1 : path[i] \in h) => r \in h
      BY <1>1, <2>1
    <3>3. ASSUME r \in h, \A i \in 1 .. Len(s) - 1 : s[i] \in h,
                 NEW i \in 1 .. Len(path) - 1
          PROVE  path[i] \in h
      <4>1. CASE i = 1
        BY <1>1, <3>3, <4>1
      <4>2. CASE i # 1
        <5>1. i - 1 \in 1 .. Len(s) - 1 /\ i - 1 \in 1 .. Len(s) /\ (i - 1) + 1 = i
          BY <1>1, <4>2
        <5> QED  BY <1>1, <3>3, <5>1
      <4> QED  BY <4>1, <4>2
    <3> QED  BY <3>1, <3>2, <3>3
  <2> QED  BY <1>3, <2>2, <2>3 DEF OnWay, path
<1> QED  BY <1>2, <1>3

\* A signal pushes the interrupted rip: the way back is longer by its handler.
LEMMA WayPushed ==
  ASSUME NEW r \in Rip, NEW s \in Seq(Rip), NEW h, OnWay(r, s, h), NEW sig \in h
  PROVE  OnWay(sig, <<r>> \o s, h)
<1> DEFINE path == <<r>> \o s
<1>1. /\ path[Len(path)] = Main
      /\ \A i \in 1 .. Len(path) - 1 : path[i] \in h
  BY WayIsPath
<1>2. path # <<>>
  OBVIOUS
<1> HIDE DEF path
<1>3. OnWay(sig, path, h)
  BY <1>1, <1>2 DEF OnWay
<1> QED  BY <1>3 DEF path

\* A handler that returns is on the way its interruption left.
LEMMA WayPopped ==
  ASSUME NEW r \in Rip, NEW s \in Seq(Rip), NEW h, OnWay(r, s, h), s # <<>>
  PROVE  OnWay(Head(s), Tail(s), h)
<1>1. /\ Len(s) \in Nat /\ Len(s) >= 1
      /\ Head(s) = s[1] /\ Tail(s) \in Seq(Rip) /\ Len(Tail(s)) = Len(s) - 1
      /\ \A i \in 1 .. Len(s) - 1 : Tail(s)[i] = s[i + 1]
  BY HeadTailProperties, EmptySeq
<1>2. s[Len(s)] = Main /\ \A i \in 1 .. Len(s) - 1 : s[i] \in h
  BY DEF OnWay
<1>3. CASE Len(s) = 1
  <2>1. Tail(s) = <<>>
    <3>1. Len(Tail(s)) = 0
      BY <1>1, <1>3
    <3> QED  BY <1>1, <3>1, EmptySeq
  <2>2. Head(s) = Main
    BY <1>1, <1>2, <1>3
  <2> QED  BY <2>1, <2>2 DEF OnWay
<1>4. CASE Len(s) # 1
  <2>1. Tail(s) # <<>> /\ Head(s) \in h
    <3>1. Len(Tail(s)) # 0 /\ 1 \in 1 .. Len(s) - 1
      BY <1>1, <1>4
    <3>2. Tail(s) # <<>>
      BY <3>1, EmptySeq
    <3> QED  BY <1>1, <1>2, <3>1, <3>2
  <2>2. Tail(s)[Len(Tail(s))] = Main
    BY <1>1, <1>2, <1>4
  <2>3. ASSUME NEW i \in 1 .. Len(Tail(s)) - 1 PROVE Tail(s)[i] \in h
    <3>1. i \in 1 .. Len(s) - 1 /\ i + 1 \in 1 .. Len(s) - 1
      BY <1>1
    <3> QED  BY <1>1, <1>2, <3>1
  <2> QED  BY <2>1, <2>2, <2>3 DEF OnWay
<1> QED  BY <1>3, <1>4

\* What one step does to a context that is live after it.
Same(p) ==
  /\ Live(p) /\ user'[p].rip = user[p].rip /\ ustack'[p] = ustack[p]
  /\ sighandlers[p] \subseteq sighandlers'[p]
Pushed(p) ==
  /\ Live(p) /\ user'[p].rip \in sighandlers[p]
  /\ ustack'[p] = <<user[p].rip>> \o ustack[p]
  /\ sighandlers'[p] = sighandlers[p]
Popped(p) ==
  /\ Live(p) /\ ustack[p] # <<>>
  /\ user'[p].rip = Head(ustack[p]) /\ ustack'[p] = Tail(ustack[p])
  /\ sighandlers'[p] = sighandlers[p]
Fresh(p) == user'[p].rip = Main /\ ustack'[p] = <<>>

\* Each of these leaves a way back.
LEMMA WayKept ==
  ASSUME TypeOK, TypeOK', NEW p \in UserPid,
         Live(p) => OnWay(user[p].rip, ustack[p], sighandlers[p]),
         Same(p) \/ Pushed(p) \/ Popped(p) \/ Fresh(p)
  PROVE  OnWay(user'[p].rip, ustack'[p], sighandlers'[p])
<1>1. /\ user[p].rip \in Rip /\ ustack[p] \in Seq(Rip)
  BY DEF TypeOK, Frame, UserPid
<1>2. CASE Same(p)
  BY <1>2 DEF Same, OnWay
<1>3. CASE Pushed(p)
  BY <1>1, <1>3, WayPushed DEF Pushed
<1>4. CASE Popped(p)
  BY <1>1, <1>4, WayPopped DEF Popped
<1>5. CASE Fresh(p)
  BY <1>5 DEF Fresh, OnWay
<1> QED  BY <1>2, <1>3, <1>4, <1>5

\* A tick pushes on the current context's stack or on none.
LEMMA TickWays ==
  ASSUME TypeOK, StateInv, FrameIntegrity, handle_timer_tick,
         NEW p \in UserPid, Live(p)'
  PROVE  Same(p) \/ Pushed(p)
<1> USE PidFacts DEF UserPid
<1>1. /\ ~halted /\ current \in Pid /\ p \in Pid
      /\ frame = user[current] /\ sighandlers' = sighandlers
      /\ \/ /\ SIGALRM \in sighandlers[current] /\ ustack' = PushRip
            /\ user' = [user EXCEPT ![current] = Redirect(@, SIGALRM)]
         \/ UNCHANGED <<ustack, user>>
  BY DEF handle_timer_tick, TickWith, AlarmFires, TypeOK, FrameIntegrity
<1>2. Live(p)
  <2>1. state \in [Pid -> ProcState] /\ state[current] = "RUNNING"
    BY <1>1 DEF TypeOK, StateInv, OneRunning
  <2>2. WakeSleepers \in [Pid -> ProcState]
        /\ \A q \in Pid : WakeSleepers[q] # "UNUSED" => state[q] # "UNUSED"
    BY <2>1 DEF WakeSleepers, Asleep, ProcState
  <2>3. \/ state' = WakeSleepers
        \/ \E next \in Candidates(WakeSleepers, current) :
             state' = [[WakeSleepers EXCEPT ![current] = "READY"] EXCEPT ![next] = "RUNNING"]
    BY DEF handle_timer_tick, TickWith, Dispatch
  <2> QED  BY <1>1, <2>1, <2>2, <2>3 DEF Live, Candidates
<1>3. user \in [Pid -> Frame] /\ ustack \in [Pid -> Seq(Rip)]
  BY DEF TypeOK
<1>4. CASE UNCHANGED <<ustack, user>>
  BY <1>1, <1>2, <1>4 DEF Same
<1>5. CASE /\ SIGALRM \in sighandlers[current] /\ ustack' = PushRip
           /\ user' = [user EXCEPT ![current] = Redirect(@, SIGALRM)]
  <2>1. CASE p = current
    <3>1. ustack'[p] = <<user[p].rip>> \o ustack[p]
      BY <1>1, <1>3, <1>5, <2>1 DEF PushRip
    <3>2. user'[p].rip = SIGALRM
      BY <1>1, <1>3, <1>5, <2>1 DEF Redirect, Frame
    <3> QED  BY <1>1, <1>2, <1>5, <2>1, <3>1, <3>2 DEF Pushed
  <2>2. CASE p # current
    BY <1>1, <1>2, <1>3, <1>5, <2>2 DEF Same, PushRip
  <2> QED  BY <2>1, <2>2
<1> QED  BY <1>1, <1>4, <1>5

\* So does the delivery of a synchronous signal.
LEMMA SignalWays ==
  ASSUME TypeOK, FrameIntegrity, NEW s \in SyncSignals, invoke_sync_signal(s), ~do_exit,
         NEW p \in UserPid, Live(p)'
  PROVE  Same(p) \/ Pushed(p)
<1> USE PidFacts DEF UserPid
<1>1. /\ ~halted /\ current \in Pid /\ p \in Pid /\ frame = user[current]
      /\ s \in sighandlers[current] /\ ustack' = PushRip
      /\ user' = [user EXCEPT ![current] = Redirect(@, s)]
      /\ UNCHANGED <<state, sighandlers>>
      /\ user \in [Pid -> Frame] /\ ustack \in [Pid -> Seq(Rip)]
  BY DEF invoke_sync_signal, InUser, TypeOK, FrameIntegrity
<1>2. CASE p = current
  <2>1. ustack'[p] = <<user[p].rip>> \o ustack[p]
    BY <1>1, <1>2 DEF PushRip
  <2>2. user'[p].rip = s
    BY <1>1, <1>2 DEF Redirect, Frame
  <2> QED  BY <1>1, <1>2, <2>1, <2>2 DEF Pushed, Live
<1>3. CASE p # current
  BY <1>1, <1>3 DEF Same, PushRip, Live
<1> QED  BY <1>2, <1>3

\* Contexts that leave keep their stacks, and nobody else notices.
LEMMA LeaverWays ==
  ASSUME TypeOK, StateInv, InUser, do_exit \/ \E t \in SleepTicks : do_sleep(t),
         NEW p \in UserPid, Live(p)'
  PROVE  Same(p)
<1> USE PidFacts DEF UserPid
<1>1. /\ current \in Pid /\ p \in Pid /\ state \in [Pid -> ProcState]
      /\ user \in [Pid -> Frame] /\ UNCHANGED <<ustack, sighandlers>>
  BY DEF do_exit, do_sleep, TypeOK
<1>2. user'[p].rip = user[p].rip
  BY <1>1 DEF do_exit, do_sleep, Frame
<1>3. \/ state' = Gone
      \/ \E st \in {Gone, [state EXCEPT ![current] = "WAITING"]}, next \in Pid :
           pick_next_context(st, current, next) /\ state' = [st EXCEPT ![next] = "RUNNING"]
  BY DEF do_exit, do_sleep, Dispatch
<1>4. p # current => Live(p)
  <2>1. ASSUME NEW st \in {Gone, [state EXCEPT ![current] = "WAITING"]}, NEW next \in Pid,
               pick_next_context(st, current, next),
               state' = [st EXCEPT ![next] = "RUNNING"]
        PROVE  p # current => Live(p)
    <3>1. next = Swapper \/ (next # current /\ st[next] = "READY")
      BY <2>1, Picked
    <3> QED  BY <1>1, <2>1, <3>1 DEF Gone, Live, ProcState
  <2>2. state' = Gone => (p # current => Live(p))
    BY <1>1 DEF Gone, Live
  <2> QED  BY <1>1, <1>3, <2>1, <2>2 DEF Live
<1>5. Live(current)
  BY <1>1 DEF Live, InUser, StateInv, OneRunning
<1> QED  BY <1>1, <1>2, <1>4, <1>5 DEF Same

\* Every step leaves every live context a way back.
LEMMA StepWays ==
  ASSUME TypeOK, StateInv, FrameIntegrity, [Next]_vars, NEW p \in UserPid, Live(p)'
  PROVE  Same(p) \/ Pushed(p) \/ Popped(p) \/ Fresh(p)
<1> USE PidFacts DEF UserPid
<1>1. /\ current \in Pid /\ p \in Pid
      /\ user \in [Pid -> Frame] /\ ustack \in [Pid -> Seq(Rip)]
      /\ sighandlers \in [Pid -> SUBSET Signal]
  BY DEF TypeOK
<1>2. ASSUME do_clone PROVE Same(p) \/ Fresh(p)
  <2> DEFINE start == [regs[current] EXCEPT !.rip = Main]
  <2>1. PICK child \in UserPid : /\ state' = [state EXCEPT ![child] = "READY"]
                                 /\ sighandlers' = [sighandlers EXCEPT ![child] = sighandlers[current]]
                                 /\ user' = [user EXCEPT ![child] = start]
                                 /\ ustack' = [ustack EXCEPT ![child] = <<>>]
    BY <1>2 DEF do_clone
  <2>2. start.rip = Main
    BY <1>1 DEF TypeOK, Frame
  <2> HIDE DEF start
  <2>3. CASE p = child
    BY <1>1, <2>1, <2>2, <2>3 DEF Fresh
  <2>4. CASE p # child
    BY <1>1, <2>1, <2>4 DEF Same, Live, TypeOK
  <2> QED  BY <2>3, <2>4
<1>3. ASSUME \/ \E s \in Signal : do_signal(s)
             \/ \E t \in AlarmTicks : do_alarm(t)
             \/ \E g, a \in Gpr : Compute(g, a)
             \/ Shutdown
             \/ UNCHANGED vars
      PROVE  Same(p)
  <2>1. UNCHANGED <<state, ustack>>
    BY <1>3 DEF do_signal, do_alarm, Compute, Shutdown, vars
  <2>2. user'[p].rip = user[p].rip
    <3>1. CASE \E g, a \in Gpr : Compute(g, a)
      BY <1>1, <3>1 DEF Compute, Frame
    <3>2. CASE ~\E g, a \in Gpr : Compute(g, a)
      <4>1. user' = user
        BY <1>3, <3>2 DEF do_signal, do_alarm, Shutdown, vars, frameVars
      <4> QED  BY <4>1
    <3> QED  BY <3>1, <3>2
  <2>3. sighandlers[p] \subseteq sighandlers'[p]
    <3>1. CASE \E s \in Signal : do_signal(s)
      BY <1>1, <3>1 DEF do_signal
    <3>2. CASE ~\E s \in Signal : do_signal(s)
      <4>1. sighandlers' = sighandlers
        BY <1>3, <3>2 DEF do_alarm, Compute, Shutdown, vars
      <4> QED  BY <4>1
    <3> QED  BY <3>1, <3>2
  <2> QED  BY <2>1, <2>2, <2>3 DEF Same, Live
<1>4. ASSUME HandlerReturns PROVE Same(p) \/ Popped(p)
  <2>1. /\ ustack[current] # <<>> /\ UNCHANGED <<state, sighandlers>>
        /\ user' = [user EXCEPT ![current].rip = Head(ustack[current])]
        /\ ustack' = [ustack EXCEPT ![current] = Tail(ustack[current])]
    BY <1>4 DEF HandlerReturns
  <2>2. CASE p = current
    <3>1. user'[p].rip = Head(ustack[p])
      BY <1>1, <2>1, <2>2 DEF Frame
    <3> QED  BY <1>1, <2>1, <2>2, <3>1 DEF Popped, Live
  <2>3. CASE p # current
    BY <1>1, <2>1, <2>3 DEF Same, Live
  <2> QED  BY <2>2, <2>3
<1>5. ASSUME NEW s \in SyncSignals, invoke_sync_signal(s) PROVE Same(p) \/ Pushed(p)
  <2>1. CASE do_exit
    BY <1>5, <2>1, LeaverWays DEF invoke_sync_signal
  <2>2. CASE ~do_exit
    BY <1>5, <2>2, SignalWays
  <2> QED  BY <2>1, <2>2
<1>6. ASSUME Exit \/ \E t \in SleepTicks : do_sleep(t) PROVE Same(p)
  BY <1>6, LeaverWays DEF Exit, do_sleep
<1> QED  BY <1>2, <1>3, <1>4, <1>5, <1>6, TickWays DEF Next

\* A context in a signal handler can always return to its main program.
THEOREM ReturnsCorrect == Spec => []ReturnsToMain
<1> DEFINE Ways == \A p \in UserPid : Live(p) => OnWay(user[p].rip, ustack[p], sighandlers[p])
<1>1. Init => Ways
  BY PidFacts DEF Init, OnWay, UserPid
<1>2. TypeOK /\ TypeOK' /\ StateInv /\ FrameIntegrity /\ Ways /\ [Next]_vars => Ways'
  BY StepWays, WayKept
<1>3. TypeOK /\ Ways => ReturnsToMain
  <2> SUFFICES ASSUME TypeOK, Ways, NEW p \in UserPid, Live(p)
               PROVE  LET path == ReturnPath(p)
                      IN  /\ path[Len(path)] = Main
                          /\ \A i \in 1 .. Len(path) - 1 : path[i] \in sighandlers[p]
    BY DEF ReturnsToMain
  <2>1. user[p].rip \in Rip /\ ustack[p] \in Seq(Rip)
    BY DEF TypeOK, Frame, UserPid
  <2>2. OnWay(user[p].rip, ustack[p], sighandlers[p])
    OBVIOUS
  <2> QED  BY <2>1, <2>2, WayIsPath DEF ReturnPath
<1> HIDE DEF Ways
<1> QED  BY <1>1, <1>2, <1>3, TypeCorrect, StateInvariant, FramesCorrect, PTL DEF Spec

=============================================================================
