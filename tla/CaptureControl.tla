--------------------------- MODULE CaptureControl ---------------------------
(***************************************************************************)
(* Pausing and resuming the capture thread: ctx->paused, ctx->mutex2 and   *)
(* ctx->condition2 as used by pcap_runner_loop (the capture thread) and by *)
(* start_pcap and stop_pcap (called by the main thread at boot and by the  *)
(* server thread for the client's commands).                               *)
(*                                                                         *)
(* Every read and write of the shared flag, every lock, unlock, wait and   *)
(* signal is a step of its own, so that threads interleave wherever the    *)
(* code lets them.  pcap_dispatch itself is the pair BeginDispatch,        *)
(* EndDispatch; what it captures is not modelled here.                     *)
(***************************************************************************)
CONSTANTS Main,    \* main(): calls start_pcap once at boot, or not at all
          Server,  \* server_loop(): calls start_pcap and stop_pcap for clients
          Runner,  \* pcap_runner_loop()
          Nobody   \* mutex2 is free

Callers == {Main, Server}

ASSUME ThreadsAssumption ==
  /\ Main # Server
  /\ Runner \notin Callers
  /\ Nobody \notin Callers \cup {Runner}

VARIABLES paused,  \* ctx->paused
          owner,   \* the thread that holds ctx->mutex2, or Nobody
          runner,  \* where pcap_runner_loop stands
          caller,  \* where each caller stands in start_pcap or stop_pcap
          op       \* which of the two each caller runs, or ran last

vars == <<paused, owner, runner, caller, op>>

RunnerWantsLock == {"boot", "woken", "relock"}
RunnerHoldsLock == {"check", "enter", "release"}
RunnerPc == RunnerWantsLock \cup RunnerHoldsLock
              \cup {"asleep", "armed", "dispatching"}

CallerHoldsLock == {"set", "signal", "unlock"}
CallerPc == {"idle", "lock", "joined"} \cup CallerHoldsLock

-----------------------------------------------------------------------------
Init ==
  /\ paused = TRUE
  /\ owner = Nobody
  /\ runner = "boot"
  /\ caller = [c \in Callers |-> "idle"]
  /\ op = [c \in Callers |-> "start"]

-----------------------------------------------------------------------------
(* The callers: main() and the server thread.                              *)

\* main() starts the capture when the boot found at least one address.
MainCallsStart ==
  /\ caller[Main] = "idle"
  /\ caller' = [caller EXCEPT ![Main] = "lock"]
  /\ op' = [op EXCEPT ![Main] = "start"]
  /\ UNCHANGED <<paused, owner, runner>>

\* Otherwise it goes straight to pthread_join.
MainJoins ==
  /\ caller[Main] = "idle"
  /\ caller' = [caller EXCEPT ![Main] = "joined"]
  /\ UNCHANGED <<paused, owner, runner, op>>

\* process_cmd, for `server start` (once the database was found not to be
\* empty, see HostRegistry) and `server stop`.
ServerCalls(o) ==
  /\ caller[Server] = "idle"
  /\ caller' = [caller EXCEPT ![Server] = "lock"]
  /\ op' = [op EXCEPT ![Server] = o]
  /\ UNCHANGED <<paused, owner, runner>>

LockSkipped(c) ==  \* variant: the flag is written without taking mutex2
  /\ caller[c] = "lock"
  /\ caller' = [caller EXCEPT ![c] = "set"]
  /\ UNCHANGED <<paused, owner, runner, op>>

Lock(c) ==
  /\ caller[c] = "lock"
  /\ owner = Nobody
  /\ owner' = c
  /\ caller' = [caller EXCEPT ![c] = "set"]
  /\ UNCHANGED <<paused, runner, op>>

SetPausedSignals(c) ==  \* variant: stop_pcap, copied from start_pcap, signals too
  /\ caller[c] = "set"
  /\ paused' = (op[c] = "stop")
  /\ caller' = [caller EXCEPT ![c] = "signal"]
  /\ UNCHANGED <<owner, runner, op>>

SetPaused(c) ==
  /\ caller[c] = "set"
  /\ paused' = (op[c] = "stop")
  /\ caller' = [caller EXCEPT ![c] = IF op[c] = "start" THEN "signal" ELSE "unlock"]
  /\ UNCHANGED <<owner, runner, op>>

SignalForgotten(c) ==  \* variant: start_pcap does not signal condition2
  /\ caller[c] = "signal"
  /\ caller' = [caller EXCEPT ![c] = "unlock"]
  /\ UNCHANGED <<paused, owner, runner, op>>

\* A signal that finds nobody waiting is lost.
Signal(c) ==
  /\ caller[c] = "signal"
  /\ runner' = IF runner = "asleep" THEN "woken" ELSE runner
  /\ caller' = [caller EXCEPT ![c] = "unlock"]
  /\ UNCHANGED <<paused, owner, op>>

Unlock(c) ==
  /\ caller[c] = "unlock"
  /\ owner' = Nobody
  /\ caller' = [caller EXCEPT ![c] = IF c = Main THEN "joined" ELSE "idle"]
  /\ UNCHANGED <<paused, runner, op>>

-----------------------------------------------------------------------------
(* The capture thread.                                                     *)

RunnerLockNoRecheck ==  \* variant: `if (paused) wait` instead of `while`
  /\ runner \in RunnerWantsLock
  /\ owner = Nobody
  /\ owner' = Runner
  /\ runner' = IF runner = "woken" THEN "release" ELSE "check"
  /\ UNCHANGED <<paused, caller, op>>

\* The lock on entry, the one pthread_cond_wait retakes, and the one after
\* a batch.  All three lead to a test of the flag.
RunnerLock ==
  /\ runner \in RunnerWantsLock
  /\ owner = Nobody
  /\ owner' = Runner
  /\ runner' = "check"
  /\ UNCHANGED <<paused, caller, op>>

RunnerCheckIgnored ==  \* variant: the inner loop never looks at the flag again
  /\ runner = "check"
  /\ runner' = "release"
  /\ UNCHANGED <<paused, owner, caller, op>>

\* `while (ctx->paused)` and `while (!ctx->paused)`, tested under mutex2.
RunnerCheck ==
  /\ runner = "check"
  /\ runner' = IF paused THEN "enter" ELSE "release"
  /\ UNCHANGED <<paused, owner, caller, op>>

\* pthread_cond_wait gives up the mutex and sleeps in one step.
RunnerWait ==
  /\ runner = "enter"
  /\ owner' = Nobody
  /\ runner' = "asleep"
  /\ UNCHANGED <<paused, caller, op>>

\* POSIX lets a wait return without a signal.
SpuriousWakeup ==
  /\ runner = "asleep"
  /\ runner' = "woken"
  /\ UNCHANGED <<paused, owner, caller, op>>

RunnerKeepsLock ==  \* variant: the mutex is kept during pcap_dispatch
  /\ runner = "release"
  /\ runner' = "armed"
  /\ UNCHANGED <<paused, owner, caller, op>>

RunnerUnlock ==
  /\ runner = "release"
  /\ owner' = Nobody
  /\ runner' = "armed"
  /\ UNCHANGED <<paused, caller, op>>

BeginDispatch ==
  /\ runner = "armed"
  /\ runner' = "dispatching"
  /\ UNCHANGED <<paused, owner, caller, op>>

EndDispatch ==
  /\ runner = "dispatching"
  /\ runner' = "relock"
  /\ UNCHANGED <<paused, owner, caller, op>>

-----------------------------------------------------------------------------
CallerStep(c) == Lock(c) \/ SetPaused(c) \/ Signal(c) \/ Unlock(c)

RunnerStep == RunnerLock \/ RunnerCheck \/ RunnerWait \/ RunnerUnlock
                \/ BeginDispatch

Next ==
  \/ MainCallsStart
  \/ MainJoins
  \/ \E o \in {"start", "stop"} : ServerCalls(o)
  \/ \E c \in Callers : CallerStep(c)
  \/ RunnerStep
  \/ SpuriousWakeup
  \/ EndDispatch

Spec == Init /\ [][Next]_vars

(***************************************************************************)
(* Fairness.  A thread inside start_pcap, stop_pcap or pcap_runner_loop    *)
(* keeps running.  Taking mutex2 is strongly fair: each holder keeps it    *)
(* for a few instructions, and the capture thread lets it go for as long   *)
(* as a dispatch lasts.  Nothing is assumed of pcap_dispatch (it may block *)
(* for ever), of the clients, or of spurious wake-ups.                     *)
(***************************************************************************)
Fairness ==
  /\ \A c \in Callers :
       /\ SF_vars(Lock(c))
       /\ WF_vars(SetPaused(c) \/ Signal(c) \/ Unlock(c))
  /\ SF_vars(RunnerLock)
  /\ WF_vars(RunnerCheck \/ RunnerWait \/ RunnerUnlock \/ BeginDispatch)

FairSpec == Spec /\ Fairness

-----------------------------------------------------------------------------
(* Properties.                                                             *)

\* Every variable keeps to its values, and each caller to its part: main()
\* starts the capture at most and then joins, the server thread never ends, and
\* only start_pcap signals, so that no stop wakes the capture thread
\* (main.c:65-71, server_loop.c:30-60, sniffing.c:352-379).
TypeOK ==
  /\ paused \in BOOLEAN
  /\ owner \in Callers \cup {Runner, Nobody}
  /\ runner \in RunnerPc
  /\ caller \in [Callers -> CallerPc]
  /\ op \in [Callers -> {"start", "stop"}]
  /\ op[Main] = "start"
  /\ caller[Server] # "joined"
  /\ \A c \in Callers : caller[c] = "signal" => op[c] = "start"

\* mutex2 is held by exactly the thread that is inside a critical section:
\* the three threads exclude each other, and the capture thread never keeps
\* it while pcap_dispatch runs or while it sleeps (sniffing.c:109-123).
LockDiscipline ==
  /\ (owner = Runner) <=> (runner \in RunnerHoldsLock)
  /\ \A c \in Callers : (owner = c) <=> (caller[c] \in CallerHoldsLock)

\* No start is lost: a capture thread that sleeps while the flag says "run"
\* has a wake-up on its way from the thread that cleared the flag, and one
\* about to sleep saw a flag that still says "paused" (sniffing.c:113-116,
\* 354-362).
NoLostStart ==
  /\ runner = "enter" => paused
  /\ runner = "asleep" /\ ~paused =>
       \E c \in Callers : op[c] = "start" /\ caller[c] = "signal"

\* Capture control implements the abstract switch: a batch is committed to
\* only while the flag, read under mutex2, says "run"; after a stop at most
\* the batch already committed to still runs (sniffing.c:118-123, 368-379).
Batch == IF runner \in {"release", "armed"} THEN "committed"
         ELSE IF runner = "dispatching" THEN "running" ELSE "none"

Switch == INSTANCE CaptureSwitch WITH enabled <- ~paused, batch <- Batch

ImplementsSwitch == Switch!Spec

\* A start that is not undone by a stop reaches pcap_dispatch.
StartTakesEffect == (~paused) ~> (runner = "dispatching" \/ paused)

\* If every dispatch returns (the 1000 ms read timeout of pcap_open_live), a
\* stop that is not undone by a start puts the capture thread to sleep.
StopQuiesces ==
  [](runner = "dispatching" => <>(runner # "dispatching"))
    => (paused ~> (runner = "asleep" \/ ~paused))

\* start_pcap and stop_pcap return, even while a dispatch blocks for ever: a
\* client's command is never held up by the capture.
CallsReturn ==
  \A c \in Callers : (caller[c] = "lock") ~> (caller[c] \in {"idle", "joined"})
=============================================================================
