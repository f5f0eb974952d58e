-------------------------- MODULE CleanupWorkerProofs --------------------------
(***************************************************************************)
(* SafeToClose for any number of calls of Start and Stop.  It is not       *)
(* inductive: what makes it so is that every Stop that returned has ended  *)
(* one goroutine, and nothing else ends one (OneStopPerExit).              *)
(***************************************************************************)
EXTENDS CleanupWorker, FiniteSetTheorems, TLAPS

OneStopPerExit == Cardinality(Returned) = Cardinality(Exited)

-------------------------------------------------------------------------------
\* The worker's state keeps its types, the ticker's channel its capacity of one.
THEOREM WorkerTypeCorrect == Spec => []WorkerTypeOK
<1>1. Init => WorkerTypeOK
  BY DEF Init, WorkerTypeOK, Tables, Sweeping
<1>2. WorkerTypeOK /\ [Next]_vars => WorkerTypeOK'
  <2>. SUFFICES ASSUME WorkerTypeOK, [Next]_vars PROVE WorkerTypeOK'
    OBVIOUS
  <2>. USE DEF WorkerTypeOK, Tables, Sweeping, Goto
  <2>1. CASE UNCHANGED vars
    BY <2>1 DEF vars
  <2>2. ASSUME NEW w \in Workers, Start(w)
        PROVE  WorkerTypeOK'
    BY <2>2 DEF Start
  <2>8. ASSUME NEW w \in Workers, TickerFires(w)
        PROVE  WorkerTypeOK'
    <3>1. ticks' = [ticks EXCEPT ![w] = 1] /\ UNCHANGED <<worker, expired, stop, garbage>>
      BY <2>8 DEF TickerFires
    <3>. QED
      BY <3>1
  <2>7. ASSUME NEW w \in Workers, BeginSweep(w)
        PROVE  WorkerTypeOK'
    <3>1. /\ worker' \in [Workers -> {"new", "select", "exited"} \cup Sweeping]
          /\ ticks' \in [Workers -> 0..1]
          /\ UNCHANGED <<stop, garbage>>
      BY <2>7 DEF BeginSweep
    <3>2. expired' = [expired EXCEPT ![w] = FALSE]
      BY <2>7 DEF BeginSweep
    <3>3. expired' \in [Workers -> BOOLEAN]
      BY <3>2
    <3>. QED
      BY <3>1, <3>3
  <2>3. ASSUME NEW w \in Workers, SweepStep(w)
        PROVE  WorkerTypeOK'
    BY <2>3 DEF SweepStep, SessionsSwept, SessionsFailed, SessionsTimedOut, OTPsSwept, OTPsFailed
  <2>4. ASSUME NEW s \in Stops, Stop(s)
        PROVE  WorkerTypeOK'
    BY <2>4 DEF Stop
  <2>5. ASSUME NEW w \in Workers, NEW s \in Stops, Receive(w, s)
        PROVE  WorkerTypeOK'
    BY <2>5 DEF Receive
  <2>6. ASSUME NEW table \in Tables, RowsExpire(table)
        PROVE  WorkerTypeOK'
    BY <2>6 DEF RowsExpire
  <2>. QED
    BY <2>1, <2>2, <2>3, <2>4, <2>5, <2>6, <2>7, <2>8 DEF Next
<1>. QED
  BY <1>1, <1>2, PTL DEF Spec

-------------------------------------------------------------------------------
\* The sets of calls that have ended are finite.
LEMMA EndedFinite ==
  /\ IsFiniteSet(Exited) /\ IsFiniteSet(Returned) /\ IsFiniteSet(Started)
  /\ Exited \subseteq Started
<1>1. /\ Exited \in SUBSET Workers /\ Started \in SUBSET Workers
      /\ Returned \in SUBSET Stops
  BY DEF Exited, Started, Returned
<1>2. Exited \subseteq Started
  BY DEF Exited, Started
<1>. QED
  BY <1>1, <1>2, CallsAssumption, FS_Subset

\* A goroutine exits only in a rendezvous, together with one return of Stop.
LEMMA StepKeepsCount ==
  ASSUME WorkerTypeOK, OneStopPerExit, [Next]_vars
  PROVE  OneStopPerExit'
<1>1. ASSUME NEW w \in Workers, NEW s \in Stops, Receive(w, s)
      PROVE  OneStopPerExit'
  <2>1. Exited' = Exited \cup {w} /\ w \notin Exited
    BY <1>1 DEF Receive, Goto, Exited, WorkerTypeOK
  <2>2. Returned' = Returned \cup {s} /\ s \notin Returned
    BY <1>1 DEF Receive, Returned, WorkerTypeOK
  <2>3. Cardinality(Exited') = Cardinality(Exited) + 1
    BY <2>1, EndedFinite, FS_AddElement
  <2>4. Cardinality(Returned') = Cardinality(Returned) + 1
    BY <2>2, EndedFinite, FS_AddElement
  <2>. QED
    BY <2>3, <2>4 DEF OneStopPerExit
<1>2. CASE Exited' = Exited /\ Returned' = Returned
  BY <1>2 DEF OneStopPerExit
<1>3. CASE UNCHANGED vars
  BY <1>2, <1>3 DEF vars, Exited, Returned
<1>4. ASSUME NEW w \in Workers, Start(w) \/ TickerFires(w) \/ BeginSweep(w) \/ SweepStep(w)
      PROVE  Exited' = Exited /\ Returned' = Returned
  <2>1. UNCHANGED stop
    BY <1>4 DEF Start, TickerFires, BeginSweep, SweepStep, SessionsSwept, SessionsFailed,
                SessionsTimedOut, OTPsSwept, OTPsFailed
  <2>2. \A v \in Workers : worker'[v] = "exited" <=> worker[v] = "exited"
    BY <1>4 DEF Start, TickerFires, BeginSweep, SweepStep, SessionsSwept, SessionsFailed,
                SessionsTimedOut, OTPsSwept, OTPsFailed, Goto, WorkerTypeOK
  <2>. QED
    BY <2>1, <2>2 DEF Exited, Returned
<1>5. ASSUME NEW s \in Stops, Stop(s)
      PROVE  Exited' = Exited /\ Returned' = Returned
  BY <1>5 DEF Stop, Exited, Returned, WorkerTypeOK
<1>6. ASSUME NEW table \in Tables, RowsExpire(table)
      PROVE  Exited' = Exited /\ Returned' = Returned
  BY <1>6 DEF RowsExpire, Exited, Returned
<1>. QED
  BY <1>1, <1>2, <1>3, <1>4, <1>5, <1>6 DEF Next

\* As many returns of Stop as exits, and as many exits as starts: all have exited.
LEMMA CountMakesSafe ==
  ASSUME WorkerTypeOK, OneStopPerExit
  PROVE  SafeToClose
<1>. SUFFICES ASSUME Cardinality(Returned) = Cardinality(Started), NEW w \in Workers
              PROVE  worker[w] \notin Sweeping
  BY DEF SafeToClose
<1>1. Exited = Started
  BY EndedFinite, FS_Subset DEF OneStopPerExit
<1>. QED
  BY <1>1 DEF Exited, Started, Sweeping

\* Whatever the order and the number of the calls: once Stop has returned as
\* often as Start was called, no goroutine of the worker is using the database.
THEOREM WorkerSafeToClose == Spec => []SafeToClose
<1>1. Init => OneStopPerExit
  <2>. SUFFICES ASSUME Init PROVE OneStopPerExit
    OBVIOUS
  <2>1. Exited = {} /\ Returned = {}
    BY DEF Init, Exited, Returned
  <2>. QED
    BY <2>1 DEF OneStopPerExit
<1>2. WorkerTypeOK /\ OneStopPerExit /\ [Next]_vars => OneStopPerExit'
  BY StepKeepsCount
<1>3. WorkerTypeOK /\ OneStopPerExit => SafeToClose
  BY CountMakesSafe
<1>. QED
  BY <1>1, <1>2, <1>3, WorkerTypeCorrect, PTL DEF Spec
================================================================================
