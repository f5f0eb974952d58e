----------------------------- MODULE CleanupWorker -----------------------------
(***************************************************************************)
(* worker/cleanup.go: Start spawns a goroutine that sweeps the sessions    *)
(* and the OTPs at every tick, Stop sends on an unbuffered channel that    *)
(* such a goroutine reads between two sweeps.                              *)
(*                                                                         *)
(* Nothing ties a Stop to a Start: the host may call either several times, *)
(* in any order.  What a sweep does to the tables is in SessionRepository  *)
(* and AccountRepository; here a table only has rows to delete or not.     *)
(***************************************************************************)
EXTENDS Integers, FiniteSets

CONSTANTS
    Workers,   \* calls of Start, each with the goroutine it spawns
    Stops      \* calls of Stop

ASSUME CallsAssumption == IsFiniteSet(Workers) /\ IsFiniteSet(Stops)

VARIABLES
    worker,    \* where each goroutine stands
    ticks,     \* what is in ticker.C, a channel of capacity 1
    expired,   \* whether the 30 seconds of the goroutine's sweep have passed
    stop,      \* where each call of Stop stands
    garbage    \* tables with rows a sweep would delete

vars == <<worker, ticks, expired, stop, garbage>>

Tables == {"sessions", "otps"}
Sweeping == {"sweepSessions", "sweepOTPs"}

WorkerTypeOK ==
    /\ worker \in [Workers -> {"new", "select", "exited"} \cup Sweeping]
    /\ ticks \in [Workers -> 0..1]
    /\ expired \in [Workers -> BOOLEAN]
    /\ stop \in [Stops -> {"new", "sending", "returned"}]
    /\ garbage \subseteq Tables

Init ==
    /\ worker = [w \in Workers |-> "new"]
    /\ ticks = [w \in Workers |-> 0]
    /\ expired = [w \in Workers |-> FALSE]
    /\ stop = [s \in Stops |-> "new"]
    /\ garbage = {}

Started == {w \in Workers : worker[w] # "new"}
Exited == {w \in Workers : worker[w] = "exited"}
Running == Started \ Exited
Called == {s \in Stops : stop[s] # "new"}
Returned == {s \in Stops : stop[s] = "returned"}

-------------------------------------------------------------------------------
Goto(w, pc) == worker' = [worker EXCEPT ![w] = pc]

Start(w) ==
    /\ worker[w] = "new"
    /\ Goto(w, "select")
    /\ UNCHANGED <<ticks, expired, stop, garbage>>

\* Mutant of TickerFires: ticks pile up.
TickerFires_Unbounded(w) ==
    /\ w \in Running
    /\ ticks[w] < 2
    /\ ticks' = [ticks EXCEPT ![w] = @ + 1]
    /\ UNCHANGED <<worker, expired, stop, garbage>>

\* A tick that finds the channel full is dropped.
TickerFires(w) ==
    /\ w \in Running
    /\ ticks[w] = 0
    /\ ticks' = [ticks EXCEPT ![w] = 1]
    /\ UNCHANGED <<worker, expired, stop, garbage>>

\* The select takes the tick: cleanup begins, with a fresh timeout.
BeginSweep(w) ==
    /\ worker[w] = "select"
    /\ ticks[w] = 1
    /\ ticks' = [ticks EXCEPT ![w] = 0]
    /\ expired' = [expired EXCEPT ![w] = FALSE]
    /\ Goto(w, "sweepSessions")
    /\ UNCHANGED <<stop, garbage>>

\* sessionRepo.DeleteExpiredAndSoftDeleted succeeds, ...
SessionsSwept(w) ==
    /\ worker[w] = "sweepSessions"
    /\ garbage' = garbage \ {"sessions"}
    /\ Goto(w, "sweepOTPs")
    /\ UNCHANGED <<ticks, expired, stop>>

\* Mutant of SessionsFailed: cleanup returns on the first error.
SessionsFailed_Return(w) ==
    /\ worker[w] = "sweepSessions"
    /\ Goto(w, "select")
    /\ UNCHANGED <<ticks, expired, stop, garbage>>

\* ... fails, which is logged, ...
SessionsFailed(w) ==
    /\ worker[w] = "sweepSessions"
    /\ Goto(w, "sweepOTPs")
    /\ UNCHANGED <<ticks, expired, stop, garbage>>

\* ... or is cut off by the timeout, which the second statement shares.
SessionsTimedOut(w) ==
    /\ worker[w] = "sweepSessions"
    /\ expired' = [expired EXCEPT ![w] = TRUE]
    /\ Goto(w, "sweepOTPs")
    /\ UNCHANGED <<ticks, stop, garbage>>

OTPsSwept(w) ==
    /\ worker[w] = "sweepOTPs"
    /\ ~expired[w]
    /\ garbage' = garbage \ {"otps"}
    /\ Goto(w, "select")
    /\ UNCHANGED <<ticks, expired, stop>>

\* Mutant of OTPsFailed: the goroutine gives up.
OTPsFailed_Exit(w) ==
    /\ worker[w] = "sweepOTPs"
    /\ Goto(w, "exited")
    /\ UNCHANGED <<ticks, expired, stop, garbage>>

OTPsFailed(w) ==
    /\ worker[w] = "sweepOTPs"
    /\ Goto(w, "select")
    /\ UNCHANGED <<ticks, expired, stop, garbage>>

-------------------------------------------------------------------------------
\* Mutant of Stop: stopChan has a buffer.
Stop_Buffered(s) ==
    /\ stop[s] = "new"
    /\ stop' = [stop EXCEPT ![s] = "returned"]
    /\ UNCHANGED <<worker, ticks, expired, garbage>>

\* Stop blocks in the send on the unbuffered channel.
Stop(s) ==
    /\ stop[s] = "new"
    /\ stop' = [stop EXCEPT ![s] = "sending"]
    /\ UNCHANGED <<worker, ticks, expired, garbage>>

\* The rendezvous: a goroutine in its select takes the value and returns, and
\* only then does Stop.
Receive(w, s) ==
    /\ worker[w] = "select"
    /\ stop[s] = "sending"
    /\ stop' = [stop EXCEPT ![s] = "returned"]
    /\ Goto(w, "exited")
    /\ UNCHANGED <<ticks, expired, garbage>>

\* Rows expire or are soft-deleted.
RowsExpire(table) ==
    /\ garbage' = garbage \cup {table}
    /\ garbage' # garbage
    /\ UNCHANGED <<worker, ticks, expired, stop>>

SweepStep(w) ==
    \/ SessionsSwept(w) \/ SessionsFailed(w) \/ SessionsTimedOut(w)
    \/ OTPsSwept(w) \/ OTPsFailed(w)

Next ==
    \/ \E w \in Workers : Start(w) \/ TickerFires(w) \/ BeginSweep(w) \/ SweepStep(w)
    \/ \E s \in Stops : Stop(s)
    \/ \E w \in Workers, s \in Stops : Receive(w, s)
    \/ \E table \in Tables : RowsExpire(table)

\* A ticker fires and goroutines run; the timeout ends every statement.  Where
\* a select has two ready cases it picks either at random, so a sender that
\* waits is not passed over for ever.  The database is not down for good: not
\* every sessions statement takes up all of the 30 seconds, and not every OTP
\* statement fails.
Fairness ==
    /\ \A w \in Workers : /\ WF_vars(TickerFires(w))
                          /\ WF_vars(BeginSweep(w))
                          /\ WF_vars(SweepStep(w))
                          /\ SF_vars(SessionsSwept(w) \/ SessionsFailed(w))
                          /\ SF_vars(OTPsSwept(w))
    /\ \A s \in Stops : SF_vars(\E w \in Workers : Receive(w, s))

Spec == Init /\ [][Next]_vars /\ Fairness

-------------------------------------------------------------------------------
(* Properties.                                                               *)

\* Once Stop has returned as often as Start was called, no sweep is running and
\* the host may close the database: Stop returns from the rendezvous, so never
\* during a sweep, and every return has ended another goroutine.
SafeToClose == Cardinality(Returned) = Cardinality(Started)
                 => \A w \in Workers : worker[w] \notin Sweeping

\* A Stop returns, however long the sweep it meets and however many tickers
\* compete with it, as long as there are not more calls of Stop than of Start.
\* One Stop too many, or a Stop before any Start, waits for the next Start.
StopReturns ==
    \A s \in Stops :
        stop[s] = "sending" /\ Cardinality(Called) =< Cardinality(Started)
            ~> stop[s] = "returned" \/ Cardinality(Called) > Cardinality(Started)

\* While a goroutine runs, OTPs to delete are deleted in the end, even if the
\* sessions statement before them fails every time.
OTPsCollected ==
    "otps" \in garbage /\ Running # {} ~> "otps" \notin garbage \/ Running = {}
================================================================================
