------------------------------ MODULE ProbeLoop ------------------------------
(***************************************************************************)
(* go-sre-monitor/cmd/monitor and internal/monitor: every Interval a probe *)
(* of each service is started in a goroutine of its own, whether or not    *)
(* the one before has ended; each sets the service's gauge when it ends.   *)
(* A signal cancels the probes and closes the server, and main ends in     *)
(* logg.Fatal because ListenAndServe returns.                              *)
(***************************************************************************)
EXTENDS Integers, FiniteSets

CONSTANTS
  Services,   \* configured services
  Timeouts,   \* service to its timeout (3 s unless configured), in ticks
  Interval,   \* PROBE_INTERVAL, in ticks
  MaxTime     \* bound: the clock

VARIABLES
  now,       \* the clock
  due,       \* ticks until the ticker fires
  probes,    \* service to the start times of its probes in flight
  gauge,     \* service to ProbeUp: its value and the start of the probe that set it
  phase      \* "running", "cancelled", "closed", "exited"

vars == <<now, due, probes, gauge, phase>>

-----------------------------------------------------------------------------
Unset == [up |-> FALSE, of |-> -1]

TypeOK ==
  /\ now \in 0 .. MaxTime /\ due \in 0 .. Interval
  /\ probes \in [Services -> SUBSET (0 .. MaxTime)]
  /\ gauge \in [Services -> [up: BOOLEAN, of: -1 .. MaxTime]]
  /\ phase \in {"running", "cancelled", "closed", "exited"}

\* The first round is started at once.
Init ==
  /\ now = 0 /\ due = 0
  /\ probes = [s \in Services |-> {}]
  /\ gauge = [s \in Services |-> Unset]
  /\ phase = "running"

NoTimeout(s, start) == phase # "running"
Over(s, start) == phase # "running" \/ now - start >= Timeouts[s]

probeAll ==
  /\ phase = "running" /\ due = 0
  /\ probes' = [s \in Services |-> probes[s] \union {now}]
  /\ due' = Interval
  /\ UNCHANGED <<now, gauge, phase>>

Ended(s, start, up) ==
  /\ probes' = [probes EXCEPT ![s] = @ \ {start}]
  /\ gauge' = [gauge EXCEPT ![s] = [up |-> up, of |-> start]]
  /\ UNCHANGED <<now, due, phase>>

\* The request failed, or another status came than the expected one; the
\* failure is counted too.
fail(s, start) == Ended(s, start, FALSE)

\* The expected status came, within the latency objective or past it.
succeed(s, start) == ~Over(s, start) /\ Ended(s, start, TRUE)

probeOne(s) ==
  /\ phase # "exited"
  /\ \E start \in probes[s] : fail(s, start) \/ succeed(s, start)

\* A request is over as soon as it must be: a tick is long.
Tick ==
  /\ now < MaxTime /\ due > 0
  /\ \A s \in Services : \A start \in probes[s] : ~Over(s, start)
  /\ now' = now + 1 /\ due' = due - 1
  /\ UNCHANGED <<probes, gauge, phase>>

\* The goroutine that waits for the signal cancels the context first, and
\* gives Shutdown a timeout derived from it; main's Start returns and exits.
Cancel == phase = "running" /\ phase' = "cancelled"
Close  == phase = "cancelled" /\ phase' = "closed"
Fatal  == phase = "closed" /\ phase' = "exited"
shutdown == /\ Cancel \/ Close \/ Fatal
            /\ UNCHANGED <<now, due, probes, gauge>>

Next == \/ probeAll
        \/ \E s \in Services : probeOne(s)
        \/ Tick
        \/ shutdown

Spec == Init /\ [][Next]_vars

-----------------------------------------------------------------------------
\* A service whose timeout is shorter than the interval never has its gauge
\* set by an older probe after a newer one, though nothing orders the
\* goroutines; for one with a longer timeout it may happen, but the older
\* probe is at most its timeout old.
NewestProbeWins ==
  [][\A s \in Services : phase = "running" /\ gauge'[s].of < gauge[s].of =>
       Timeouts[s] >= Interval /\ gauge[s].of - gauge'[s].of <= Timeouts[s]]_vars
=============================================================================
