------------------------------ MODULE Processor ------------------------------
(***************************************************************************)
(* What a scheduler promises about one processor, without saying how: at   *)
(* most one process holds it, it idles only when nobody could run, and     *)
(* processes come, block and go by their own doing alone.                  *)
(***************************************************************************)
CONSTANTS
  Process,   \* the processes there can be
  Idle       \* "nobody", what the processor runs when there is nothing to do;
             \* it is not in Process

VARIABLES
  cpu,       \* the process that runs, or Idle
  runnable,  \* those that wait for the processor
  blocked,   \* those that wait for something else
  up         \* the machine has not been shut down

pvars == <<cpu, runnable, blocked, up>>

\* Some process of ready gets the processor; it idles when there is none.
Grant(ready) ==
  \/ /\ cpu' \in ready
     /\ runnable' = ready \ {cpu'}
  \/ /\ ready = {}
     /\ cpu' = Idle
     /\ runnable' = {}

PInit ==
  /\ cpu \in Process
  /\ runnable = {}
  /\ blocked = {}
  /\ up = TRUE

\* An interrupt makes the processes woken runnable, and takes the processor
\* from the one that holds it exactly when another can run.
Interrupt ==
  \E woken \in SUBSET blocked :
    /\ up
    /\ blocked' = blocked \ woken
    /\ \/ /\ runnable \cup woken = {}
          /\ UNCHANGED <<cpu, runnable>>
       \/ /\ cpu' \in runnable \cup woken
          /\ runnable' = ((runnable \cup woken) \ {cpu'}) \cup ({cpu} \ {Idle})
    /\ UNCHANGED up

\* The process that runs waits for something.
Block ==
  /\ up /\ cpu # Idle
  /\ blocked' = blocked \cup {cpu}
  /\ Grant(runnable)
  /\ UNCHANGED up

\* The process that runs ends, and the last one shuts the machine down.
Finish ==
  /\ up /\ cpu # Idle
  /\ \/ /\ runnable \cup blocked # {}
        /\ Grant(runnable)
        /\ UNCHANGED <<blocked, up>>
     \/ /\ runnable \cup blocked = {}
        /\ cpu' = Idle
        /\ up' = FALSE
        /\ UNCHANGED <<runnable, blocked>>

\* The process that runs creates another, which waits for its turn.
Spawn ==
  /\ up /\ cpu # Idle
  /\ \E child \in Process \ ({cpu} \cup runnable \cup blocked) :
       runnable' = runnable \cup {child}
  /\ UNCHANGED <<cpu, blocked, up>>

PNext == Interrupt \/ Block \/ Finish \/ Spawn

PSpec == PInit /\ [][PNext]_pvars

=============================================================================
