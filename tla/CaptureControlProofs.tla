------------------------ MODULE CaptureControlProofs ------------------------
(***************************************************************************)
(* Proofs about CaptureControl, for any four distinct identities of its    *)
(* threads: mutual exclusion on mutex2, no start request lost, and the     *)
(* refinement of CaptureSwitch.                                            *)
(***************************************************************************)
EXTENDS CaptureControl, TLAPS

\* Mutual exclusion is inductive with the types; NoLostStart needs both,
\* because "nobody changes the flag while the capture thread is between its
\* test and its wait" is what the mutex is for.
IInv == TypeOK /\ LockDiscipline /\ NoLostStart

LEMMA NextCases ==
  ASSUME Next
  PROVE  \/ MainCallsStart
         \/ MainJoins
         \/ \E o \in {"start", "stop"} : ServerCalls(o)
         \/ \E c \in Callers : Lock(c)
         \/ \E c \in Callers : SetPaused(c)
         \/ \E c \in Callers : Signal(c)
         \/ \E c \in Callers : Unlock(c)
         \/ RunnerLock
         \/ RunnerCheck
         \/ RunnerWait
         \/ RunnerUnlock
         \/ BeginDispatch
         \/ SpuriousWakeup
         \/ EndDispatch
BY DEF Next, CallerStep, RunnerStep

-----------------------------------------------------------------------------
LEMMA TypeInit == Init => TypeOK
BY ThreadsAssumption DEF Init, TypeOK, RunnerPc, RunnerWantsLock, CallerPc, Callers

LEMMA TypeStep == TypeOK /\ [Next]_vars => TypeOK'
<1> SUFFICES ASSUME TypeOK, [Next]_vars
             PROVE  TypeOK'
  OBVIOUS
<1> USE ThreadsAssumption
    DEF TypeOK, Callers, CallerPc, CallerHoldsLock, RunnerPc,
        RunnerWantsLock, RunnerHoldsLock
<1>1. CASE MainCallsStart
  BY <1>1 DEF MainCallsStart
<1>2. CASE MainJoins
  BY <1>2 DEF MainJoins
<1>3. ASSUME NEW o \in {"start", "stop"}, ServerCalls(o)
      PROVE  TypeOK'
  BY <1>3 DEF ServerCalls
<1>4. ASSUME NEW c \in Callers, Lock(c)
      PROVE  TypeOK'
  BY <1>4 DEF Lock
<1>5. ASSUME NEW c \in Callers, SetPaused(c)
      PROVE  TypeOK'
  <2>1. paused' \in BOOLEAN
    BY <1>5 DEF SetPaused
  <2>2. caller'[c] = "signal" => op[c] = "start"
    BY <1>5 DEF SetPaused
  <2>3. \A d \in Callers \ {c} : caller'[d] = caller[d]
    BY <1>5 DEF SetPaused
  <2>4. QED
    BY <1>5, <2>1, <2>2, <2>3 DEF SetPaused
<1>6. ASSUME NEW c \in Callers, Signal(c)
      PROVE  TypeOK'
  BY <1>6 DEF Signal
<1>7. ASSUME NEW c \in Callers, Unlock(c)
      PROVE  TypeOK'
  BY <1>7 DEF Unlock
<1>8. CASE RunnerLock
  BY <1>8 DEF RunnerLock
<1>9. CASE RunnerCheck
  BY <1>9 DEF RunnerCheck
<1>10. CASE RunnerWait
  BY <1>10 DEF RunnerWait
<1>11. CASE RunnerUnlock
  BY <1>11 DEF RunnerUnlock
<1>12. CASE BeginDispatch
  BY <1>12 DEF BeginDispatch
<1>13. CASE SpuriousWakeup
  BY <1>13 DEF SpuriousWakeup
<1>14. CASE EndDispatch
  BY <1>14 DEF EndDispatch
<1>15. CASE UNCHANGED vars
  BY <1>15 DEF vars
<1>16. QED
  BY <1>1, <1>2, <1>3, <1>4, <1>5, <1>6, <1>7, <1>8, <1>9, <1>10, <1>11,
     <1>12, <1>13, <1>14, <1>15, NextCases

\* Every variable keeps to its values and each caller to its part, for any
\* identities of the threads: in particular no stop ever signals condition2
\* (main.c:65-71, server_loop.c:30-60, sniffing.c:352-379).
THEOREM TypeCorrect == Spec => []TypeOK
BY TypeInit, TypeStep, PTL DEF Spec

-----------------------------------------------------------------------------
LEMMA LockInit == Init => LockDiscipline
BY ThreadsAssumption
   DEF Init, LockDiscipline, RunnerHoldsLock, CallerHoldsLock

LEMMA LockStep == TypeOK /\ LockDiscipline /\ [Next]_vars => LockDiscipline'
<1> SUFFICES ASSUME TypeOK, LockDiscipline, [Next]_vars
             PROVE  LockDiscipline'
  OBVIOUS
<1> USE ThreadsAssumption
    DEF TypeOK, LockDiscipline, RunnerHoldsLock, RunnerWantsLock, CallerHoldsLock
<1>1. CASE MainCallsStart
  BY <1>1 DEF MainCallsStart
<1>2. CASE MainJoins
  BY <1>2 DEF MainJoins
<1>3. ASSUME NEW o \in {"start", "stop"}, ServerCalls(o)
      PROVE  LockDiscipline'
  BY <1>3 DEF ServerCalls
<1>4. ASSUME NEW c \in Callers, Lock(c)
      PROVE  LockDiscipline'
  BY <1>4 DEF Lock
<1>5. ASSUME NEW c \in Callers, SetPaused(c)
      PROVE  LockDiscipline'
  BY <1>5 DEF SetPaused
<1>6. ASSUME NEW c \in Callers, Signal(c)
      PROVE  LockDiscipline'
  BY <1>6 DEF Signal
<1>7. ASSUME NEW c \in Callers, Unlock(c)
      PROVE  LockDiscipline'
  BY <1>7 DEF Unlock
<1>8. CASE RunnerLock
  BY <1>8 DEF RunnerLock
<1>9. CASE RunnerCheck
  BY <1>9 DEF RunnerCheck
<1>10. CASE RunnerWait
  BY <1>10 DEF RunnerWait
<1>11. CASE RunnerUnlock
  BY <1>11 DEF RunnerUnlock
<1>12. CASE BeginDispatch
  BY <1>12 DEF BeginDispatch
<1>13. CASE SpuriousWakeup
  BY <1>13 DEF SpuriousWakeup
<1>14. CASE EndDispatch
  BY <1>14 DEF EndDispatch
<1>15. CASE UNCHANGED vars
  BY <1>15 DEF vars
<1>16. QED
  BY <1>1, <1>2, <1>3, <1>4, <1>5, <1>6, <1>7, <1>8, <1>9, <1>10, <1>11,
     <1>12, <1>13, <1>14, <1>15, NextCases

\* mutex2 is held by exactly the thread that is inside a critical section.
THEOREM MutualExclusion == Spec => []LockDiscipline
<1>1. Init => TypeOK /\ LockDiscipline
  BY TypeInit, LockInit
<1>2. TypeOK /\ LockDiscipline /\ [Next]_vars => (TypeOK /\ LockDiscipline)'
  BY TypeStep, LockStep
<1>3. QED
  BY <1>1, <1>2, PTL DEF Spec

-----------------------------------------------------------------------------
LEMMA StartInit == Init => NoLostStart
BY DEF Init, NoLostStart

LEMMA StartStep == IInv /\ [Next]_vars => NoLostStart'
<1> SUFFICES ASSUME IInv, [Next]_vars
             PROVE  NoLostStart'
  OBVIOUS
<1> USE DEF IInv, TypeOK, NoLostStart, RunnerWantsLock
<1>1. CASE MainCallsStart
  BY <1>1 DEF MainCallsStart
<1>2. CASE MainJoins
  BY <1>2 DEF MainJoins
<1>3. ASSUME NEW o \in {"start", "stop"}, ServerCalls(o)
      PROVE  NoLostStart'
  BY <1>3 DEF ServerCalls
<1>4. ASSUME NEW c \in Callers, Lock(c)
      PROVE  NoLostStart'
  BY <1>4 DEF Lock
<1>5. ASSUME NEW c \in Callers, SetPaused(c)
      PROVE  NoLostStart'
  \* The caller holds mutex2, so the capture thread is not about to sleep.
  <2>1. owner = c /\ owner # Runner
    BY <1>5, ThreadsAssumption DEF SetPaused, LockDiscipline, CallerHoldsLock
  <2>2. runner # "enter"
    BY <2>1 DEF LockDiscipline, RunnerHoldsLock
  <2>3. ASSUME ~paused'
        PROVE  op'[c] = "start" /\ caller'[c] = "signal"
    BY <1>5, <2>3 DEF SetPaused
  <2>4. QED
    BY <1>5, <2>2, <2>3 DEF SetPaused
<1>6. ASSUME NEW c \in Callers, Signal(c)
      PROVE  NoLostStart'
  BY <1>6 DEF Signal
<1>7. ASSUME NEW c \in Callers, Unlock(c)
      PROVE  NoLostStart'
  BY <1>7 DEF Unlock
<1>8. CASE RunnerLock
  BY <1>8 DEF RunnerLock
<1>9. CASE RunnerCheck
  BY <1>9 DEF RunnerCheck
<1>10. CASE RunnerWait
  BY <1>10 DEF RunnerWait
<1>11. CASE RunnerUnlock
  BY <1>11 DEF RunnerUnlock
<1>12. CASE BeginDispatch
  BY <1>12 DEF BeginDispatch
<1>13. CASE SpuriousWakeup
  BY <1>13 DEF SpuriousWakeup
<1>14. CASE EndDispatch
  BY <1>14 DEF EndDispatch
<1>15. CASE UNCHANGED vars
  BY <1>15 DEF vars
<1>16. QED
  BY <1>1, <1>2, <1>3, <1>4, <1>5, <1>6, <1>7, <1>8, <1>9, <1>10, <1>11,
     <1>12, <1>13, <1>14, <1>15, NextCases

LEMMA InvInit == Init => IInv
BY TypeInit, LockInit, StartInit DEF IInv

LEMMA InvStep == IInv /\ [Next]_vars => IInv'
BY TypeStep, LockStep, StartStep DEF IInv

\* A sleeping capture thread that should run is about to be signalled.
THEOREM NoStartIsLost == Spec => []NoLostStart
<1>1. IInv => NoLostStart
  BY DEF IInv
<1>2. QED
  BY <1>1, InvInit, InvStep, PTL DEF Spec

-----------------------------------------------------------------------------
LEMMA SwitchInit == Init => Switch!Init
BY DEF Init, Switch!Init, Batch

\* Setting the flag turns the switch, the test under mutex2 that finds it
\* clear commits to a batch, and every other step stutters.
LEMMA SwitchStep == IInv /\ [Next]_vars => [Switch!Next]_(Switch!vars)
<1> SUFFICES ASSUME IInv, [Next]_vars
             PROVE  [Switch!Next]_(Switch!vars)
  OBVIOUS
<1> USE DEF IInv, TypeOK, Batch, Switch!vars
<1>1. CASE MainCallsStart
  BY <1>1 DEF MainCallsStart
<1>2. CASE MainJoins
  BY <1>2 DEF MainJoins
<1>3. ASSUME NEW o \in {"start", "stop"}, ServerCalls(o)
      PROVE  [Switch!Next]_(Switch!vars)
  BY <1>3 DEF ServerCalls
<1>4. ASSUME NEW c \in Callers, Lock(c)
      PROVE  [Switch!Next]_(Switch!vars)
  BY <1>4 DEF Lock
<1>5. ASSUME NEW c \in Callers, SetPaused(c)
      PROVE  [Switch!Next]_(Switch!vars)
  <2>1. CASE op[c] = "stop"
    BY <1>5, <2>1 DEF SetPaused, Switch!Next, Switch!TurnOff
  <2>2. CASE op[c] # "stop"
    BY <1>5, <2>2 DEF SetPaused, Switch!Next, Switch!TurnOn
  <2>3. QED
    BY <2>1, <2>2
<1>6. ASSUME NEW c \in Callers, Signal(c)
      PROVE  [Switch!Next]_(Switch!vars)
  BY <1>6 DEF Signal
<1>7. ASSUME NEW c \in Callers, Unlock(c)
      PROVE  [Switch!Next]_(Switch!vars)
  BY <1>7 DEF Unlock
<1>8. CASE RunnerLock
  BY <1>8 DEF RunnerLock, RunnerWantsLock
<1>9. CASE RunnerCheck
  <2>1. CASE paused
    BY <1>9, <2>1 DEF RunnerCheck
  <2>2. CASE ~paused
    BY <1>9, <2>2 DEF RunnerCheck, Switch!Next, Switch!Commit
  <2>3. QED
    BY <2>1, <2>2
<1>10. CASE RunnerWait
  BY <1>10 DEF RunnerWait
<1>11. CASE RunnerUnlock
  BY <1>11 DEF RunnerUnlock
<1>12. CASE BeginDispatch
  BY <1>12 DEF BeginDispatch, Switch!Next, Switch!Begin
<1>13. CASE SpuriousWakeup
  BY <1>13 DEF SpuriousWakeup
<1>14. CASE EndDispatch
  BY <1>14 DEF EndDispatch, Switch!Next, Switch!End
<1>15. CASE UNCHANGED vars
  BY <1>15 DEF vars
<1>16. QED
  BY <1>1, <1>2, <1>3, <1>4, <1>5, <1>6, <1>7, <1>8, <1>9, <1>10, <1>11,
     <1>12, <1>13, <1>14, <1>15, NextCases

\* Capture control implements the switch: no batch starts that was not
\* authorised, and a stop lets at most one authorised batch run.
THEOREM ControlImplementsSwitch == Spec => ImplementsSwitch
BY SwitchInit, SwitchStep, InvInit, InvStep, PTL
   DEF Spec, ImplementsSwitch, Switch!Spec
=============================================================================
