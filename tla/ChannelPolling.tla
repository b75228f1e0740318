---------------------------- MODULE ChannelPolling ----------------------------
(***************************************************************************)
(* A scoreboard channel with its second task, the one that looks for a     *)
(* transaction stuck at the front of the monitor's queue (Channel._polling *)
(* in forastero/scoreboard.py, which FunnelChannel inherits).  The channel *)
(* is that of FunnelChannel; time passes in units of its own.              *)
(*                                                                         *)
(* Time stands still while a task can run, so Tick and the polling task's  *)
(* timer wait until the loop has gone as far as it can.  An exception in   *)
(* the polling task fails the test and ends it.                            *)
(***************************************************************************)
EXTENDS FunnelChannel

CONSTANTS
    Limits,     \* values that timeout_ns may be registered with
    NoLimit,    \* timeout_ns = None
    Period      \* polling_ns

ASSUME LimitsAssumption == Limits \subseteq Nat \cup {NoLimit} /\ NoLimit \notin Nat
ASSUME PeriodAssumption == Period \in Nat \ {0}

VARIABLES
    limit,      \* timeout_ns: never changed
    age,        \* the ages of the transactions in mon
    due,        \* time until the polling task looks again
    polling     \* the polling task: "on", or it has "raised"

timeVars == <<limit, age, due, polling>>
pvars == <<vars, timeVars>>

PollInit ==
    /\ Init
    /\ limit \in Limits /\ age = <<>> /\ due = Period /\ polling = "on"

\* The loop awaits something that has not come: nothing is left to run.
Settled ==
    /\ polling = "on"
    /\ \/ loop = "await_mon" /\ mon = <<>>
       \/ loop = "await_ref" /\ ~refPushed

-----------------------------------------------------------------------------
\* A transaction is stamped when it is captured and keeps its stamp.
Stamped ==
    /\ age' = IF Len(mon') > Len(mon) THEN Append(age, 0)
              ELSE SubSeq(age, Len(mon) - Len(mon') + 1, Len(age))
    /\ UNCHANGED <<limit, due, polling>>

\* What happens in the channel as it is without the polling task.
ChannelStep == polling = "on" /\ Next /\ Stamped

\* The bound on ages lets a transaction outlive what the docs promise.
Older(a) == IF limit = NoLimit THEN a ELSE Min({a + 1, limit + Period + 1})

Tick ==
    /\ Settled /\ due > 0
    /\ due' = due - 1
    /\ age' = [i \in DOMAIN age |-> Older(age[i])]
    /\ UNCHANGED <<vars, limit, polling>>

\* The transaction at the front has been there for too long.
TimedOutLastMutant == limit # NoLimit /\ mon # <<>> /\ age[Len(age)] > limit
TimedOut == limit # NoLimit /\ mon # <<>> /\ Head(age) > limit

\* polling_ns has passed: look at the front, and wait again or raise.
PollAgain ==
    /\ Settled /\ due = 0 /\ ~TimedOut
    /\ due' = Period
    /\ UNCHANGED <<vars, limit, age, polling>>

RaiseTimeout ==
    /\ Settled /\ due = 0 /\ TimedOut
    /\ polling' = "raised"
    /\ UNCHANGED <<vars, limit, age, due>>

-----------------------------------------------------------------------------
Polling == PollAgain \/ RaiseTimeout
PollNext == ChannelStep \/ Tick \/ Polling
PollSpec == PollInit /\ [][PollNext]_pvars

-----------------------------------------------------------------------------
(* Properties *)

\* "Transactions may live longer than the timeout in certain cases but this
\* is bounded by a maximum delay of one polling interval"
\* (docs/scoreboard.md): no transaction at the front is older than that.
FrontIsFresh ==
    limit # NoLimit /\ mon # <<>> => Head(age) <= limit + Period

\* The timeout does not race with a late prediction: when it is raised there
\* is no prediction that would do for the transaction at the front, and some
\* stream still owes one.
TimeoutIsDeserved ==
    [][polling' # polling => Candidates = {} /\ AnyEmpty]_pvars
=============================================================================
