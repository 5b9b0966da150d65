----------------------------- MODULE MCSchedule -----------------------------
(* Schedule with the symmetries TLC may use: stacks and register contents   *)
(* are only compared for equality.                                          *)
EXTENDS Schedule, TLC

DataSymmetry == Permutations(Pfn) \cup Permutations(Gpr)

\* Two states that differ only in what exited contexts left in their slots have
\* the same futures: clone overwrites all of it before the slot is live again.
OfLive(f) == [p \in Pid |-> IF Live(p) THEN f[p] ELSE p]
LiveView ==
  <<current, state, OfLive(ticks_to_sleep), OfLive(ticks_to_alarm),
    OfLive(alarm_config_time), OfLive(sighandlers), OfLive(os_stack_pfn),
    free_os_pfn, allocated, OfLive(regs), frame, OfLive(ustack),
    OfLive(user), halted>>

=============================================================================
