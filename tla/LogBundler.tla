----------------------------- MODULE LogBundler -----------------------------
(***************************************************************************)
(* logwatcher: tailers offer matching lines to one bounded channel; a      *)
(* single consumer hands them to the bundler, which groups the lines of a  *)
(* key (one followed file) for BundleWindow and then holds alerts of that  *)
(* key back for Cooldown.  Timers call flush in goroutines of their own.   *)
(*                                                                         *)
(* Time is unbounded and kept relative: lastHit is the age of the last     *)
(* alert, up to Cooldown, and a timer is the time left until it fires.     *)
(* The lines of a key are numbered in the order they are read.             *)
(***************************************************************************)
EXTENDS Integers, Sequences, FiniteSets

CONSTANTS
  Keys,          \* dedupKeys: one for each followed file
  Cooldown,      \* cfg.Cooldown, in ticks
  BundleWindow,  \* cfg.BundleWindow, in ticks
  BundleMax,     \* cfg.BundleMaxMessages, 0 for no maximum
  Capacity,      \* capacity of eventsCh (1024 in the code)
  MaxLines       \* bound: matching lines read from each file

ASSUME DurationAssumption == {Cooldown, BundleWindow} \subseteq Nat
ASSUME SizeAssumption     == {BundleMax, Capacity, MaxLines} \subseteq Nat

VARIABLES
  eventsCh,    \* the channel of matches
  buffer,      \* b.buffer, <<>> when the key is absent
  timer,       \* b.timer: ticks left, or None when the key is absent
  lastHit,     \* b.lastHit: ticks since then, Cooldown when that is over
  unstamped,   \* bundles flush has taken, between its two critical sections
  sending,     \* bundles outFn is posting to the webhook
  alertsSent,  \* the counter logwatcher_alerts_sent_total
  phase,       \* "running", "stopping" once ctx is cancelled, "exited"
  consuming,   \* the consumer goroutine has not returned
  read,        \* history: matching lines read so far
  refused,     \* history: lines dropped because eventsCh was full
  delivered,   \* history: bundles the webhook took
  failed,      \* history: bundles whose post failed
  quiet,       \* history: ticks since outFn was last called, up to Cooldown
  pushed,      \* history: the last line pushed
  opener,      \* history: the line whose push started the last timer
  atAlert      \* history: the last line pushed when outFn was last called

program == <<phase, consuming>>
bundles == <<unstamped, sending>>
outcome == <<refused, delivered, failed>>
ghosts  == <<quiet, pushed, opener, atAlert>>
vars    == <<eventsCh, buffer, timer, lastHit, bundles, alertsSent, program, read, outcome, ghosts>>

-----------------------------------------------------------------------------
None    == -1
Numbers == 1 .. MaxLines
Line    == [key: Keys, n: Numbers]
Bundle  == [key: Keys, lines: Seq(Numbers) \ {<<>>}, opener: Numbers]

TypeOK ==
  /\ eventsCh \in Seq(Line) /\ Len(eventsCh) <= Capacity
  /\ buffer \in [Keys -> Seq(Numbers)]
  /\ BundleMax > 0 => \A k \in Keys : Len(buffer[k]) <= BundleMax
  /\ timer \in [Keys -> 0 .. BundleWindow \union {None}]
  /\ {lastHit, quiet} \subseteq [Keys -> 0 .. Cooldown]
  /\ \A set \in {unstamped, sending, delivered, failed} : set \subseteq Bundle
  /\ alertsSent \in [Keys -> 0 .. MaxLines]
  /\ phase \in {"running", "stopping", "exited"} /\ consuming \in BOOLEAN
  /\ {read, pushed, opener, atAlert} \subseteq [Keys -> 0 .. MaxLines]
  /\ refused \subseteq Line

Init ==
  /\ eventsCh = <<>>
  /\ buffer = [k \in Keys |-> <<>>]
  /\ timer = [k \in Keys |-> None]
  /\ lastHit = [k \in Keys |-> Cooldown]
  /\ unstamped = {} /\ sending = {}
  /\ alertsSent = [k \in Keys |-> 0]
  /\ phase = "running" /\ consuming = TRUE
  /\ refused = {} /\ delivered = {} /\ failed = {}
  /\ quiet = [k \in Keys |-> Cooldown]
  /\ LET zero == [k \in Keys |-> 0] IN
       read = zero /\ pushed = zero /\ opener = zero /\ atAlert = zero

-----------------------------------------------------------------------------
(* The tailers and the channel.                                            *)

HasRoom == Len(eventsCh) < Capacity

\* A tailer reads its file's next matching line and offers it without waiting.
Match(k) ==
  /\ read[k] < MaxLines
  /\ read' = [read EXCEPT ![k] = @ + 1]
  /\ LET line == [key |-> k, n |-> read[k] + 1] IN
       \/ HasRoom  /\ eventsCh' = Append(eventsCh, line) /\ UNCHANGED refused
       \/ ~HasRoom /\ refused' = refused \union {line} /\ UNCHANGED eventsCh
  /\ UNCHANGED <<buffer, timer, lastHit, bundles, alertsSent, program, delivered, failed, ghosts>>

-----------------------------------------------------------------------------
(* push and flush.                                                         *)

LastLines(lines, max) == SubSeq(lines, Len(lines) - max + 1, Len(lines))

ClipNewest(lines, n) ==
  IF BundleMax > 0 /\ Len(lines) = BundleMax THEN lines ELSE Append(lines, n)
appendClip(lines, n) ==
  IF BundleMax > 0 /\ Len(lines) >= BundleMax
    THEN LastLines(Append(lines, n), BundleMax) ELSE Append(lines, n)

CooldownOneLonger(k) == lastHit[k] <= Cooldown /\ alertsSent[k] > 0
CooldownIgnored(k)   == FALSE
InCooldown(k) == lastHit[k] < Cooldown
Scheduled(k)  == timer[k] # None

\* The consumer takes a line from the channel and pushes it.  During the
\* cooldown push only buffers; otherwise it sees that a timer is running.
\* With ctx done the consumer's select may still choose a waiting line.
push ==
  /\ consuming /\ eventsCh # <<>>
  /\ eventsCh' = Tail(eventsCh)
  /\ LET k == Head(eventsCh).key
         n == Head(eventsCh).n
         starts == ~InCooldown(k) /\ ~Scheduled(k) IN
       /\ buffer' = [buffer EXCEPT ![k] = appendClip(@, n)]
       /\ timer'  = IF starts THEN [timer EXCEPT ![k] = BundleWindow] ELSE timer
       /\ opener' = IF starts THEN [opener EXCEPT ![k] = n] ELSE opener
       /\ pushed' = [pushed EXCEPT ![k] = n]
  /\ UNCHANGED <<lastHit, bundles, alertsSent, program, read, outcome, quiet, atAlert>>

\* flush's first critical section, when the key's timer fires.
TakeKeepingBuffer(k) ==
  /\ timer[k] = 0
  /\ timer' = [timer EXCEPT ![k] = None]
  /\ unstamped' = unstamped \union {[key |-> k, lines |-> buffer[k], opener |-> opener[k]]}
  /\ UNCHANGED <<eventsCh, buffer, lastHit, sending, alertsSent, program, read, outcome, ghosts>>
Take(k) ==
  /\ timer[k] = 0
  /\ timer' = [timer EXCEPT ![k] = None]
  /\ buffer' = [buffer EXCEPT ![k] = <<>>]
  /\ unstamped' = unstamped \union
       {b \in {[key |-> k, lines |-> buffer[k], opener |-> opener[k]]} : b.lines # <<>>}
  /\ UNCHANGED <<eventsCh, lastHit, sending, alertsSent, program, read, outcome, ghosts>>

\* Its second critical section, and the call of outFn, which counts the alert.
Stamp(b) ==
  /\ b \in unstamped
  /\ unstamped' = unstamped \ {b}
  /\ sending' = sending \union {b}
  /\ lastHit' = [lastHit EXCEPT ![b.key] = 0]
  /\ alertsSent' = [alertsSent EXCEPT ![b.key] = @ + 1]
  /\ quiet' = [quiet EXCEPT ![b.key] = 0]
  /\ atAlert' = [atAlert EXCEPT ![b.key] = pushed[b.key]]
  /\ UNCHANGED <<eventsCh, buffer, timer, program, read, outcome, pushed, opener>>

\* The webhook takes the bundle, or the post fails (status, network, 5 s).
Posted(b) ==
  /\ b \in sending
  /\ sending' = sending \ {b}
  /\ \/ delivered' = delivered \union {b} /\ UNCHANGED failed
     \/ failed' = failed \union {b} /\ UNCHANGED delivered
  /\ UNCHANGED <<eventsCh, buffer, timer, lastHit, unstamped, alertsSent, program, read, refused, ghosts>>

flush == \/ \E k \in Keys : Take(k)
         \/ \E b \in unstamped : Stamp(b)
         \/ \E b \in sending : Posted(b)

-----------------------------------------------------------------------------
(* Time and the end of the program.                                        *)

\* A tick is long: due timers fire, and flush gets from its first critical
\* section to the second, within one.
Tick ==
  /\ \A k \in Keys : timer[k] # 0
  /\ unstamped = {}
  /\ timer' = [k \in Keys |-> IF Scheduled(k) THEN timer[k] - 1 ELSE None]
  /\ lastHit' = [k \in Keys |-> IF InCooldown(k) THEN lastHit[k] + 1 ELSE lastHit[k]]
  /\ quiet' = [k \in Keys |-> IF quiet[k] < Cooldown THEN quiet[k] + 1 ELSE Cooldown]
  /\ UNCHANGED <<eventsCh, buffer, bundles, alertsSent, program, read, outcome, pushed, opener, atAlert>>

\* Ctrl+C cancels ctx; the consumer returns, the tailers return, main exits.
Interrupt == phase = "running" /\ phase' = "stopping" /\ UNCHANGED consuming
Return    == phase = "stopping" /\ consuming /\ consuming' = FALSE /\ UNCHANGED phase
Exit      == phase = "stopping" /\ phase' = "exited" /\ UNCHANGED consuming
Stop      == /\ Interrupt \/ Return \/ Exit
             /\ UNCHANGED <<eventsCh, buffer, timer, lastHit, bundles, alertsSent, read, outcome, ghosts>>

Next == /\ phase # "exited"
        /\ \/ \E k \in Keys : Match(k)
           \/ push
           \/ flush
           \/ Tick
           \/ Stop

Running(A) == phase # "exited" /\ A

\* The consumer, the timers and the posts keep running, and time passes; a
\* signal may never come, nor another line.
Fairness == /\ WF_vars(Running(push))
            /\ \A k \in Keys : WF_vars(Running(Take(k)))
            /\ WF_vars(Running(\E b \in unstamped : Stamp(b)))
            /\ WF_vars(Running(\E b \in sending : Posted(b)))
            /\ WF_vars(Running(Tick))

Spec == Init /\ [][Next]_vars /\ Fairness

-----------------------------------------------------------------------------
NumbersOf(lines) == {lines[i] : i \in DOMAIN lines}

\* The groups of lines of k that push has formed and flush may have taken.
Taken(k)  == {b \in unstamped \union sending \union delivered \union failed : b.key = k}
Groups(k) == {buffer[k]} \union {b.lines : b \in Taken(k)}
Grouped(k) == UNION {NumbersOf(g) : g \in Groups(k)}

\* A line leaves push's buffer for at most one alert, and one that is in no
\* buffer and no alert was pushed out by appendClip: it is older than the
\* lines of a full group, with nothing kept in between.
LostOnlyToTheClip ==
  \A k \in Keys :
    /\ \A b1, b2 \in Taken(k) :
         b1 # b2 => NumbersOf(b1.lines) \intersect NumbersOf(b2.lines) = {}
    /\ \A b \in Taken(k) : NumbersOf(b.lines) \intersect NumbersOf(buffer[k]) = {}
    /\ \A n \in 1 .. pushed[k] :
         n \notin Grouped(k) /\ [key |-> k, n |-> n] \notin refused =>
           \E g \in Groups(k) :
             /\ BundleMax > 0 /\ Len(g) = BundleMax /\ n < g[1]
             /\ \A between \in n + 1 .. g[1] - 1 : between \notin Grouped(k)

\* The only alert that may follow another within the cooldown is one whose
\* timer was started before the earlier alert was stamped: flush gives up the
\* lock between clearing the timer and recording lastHit.
OnlyRacesBreakTheCooldown ==
  [][\A b \in unstamped : Stamp(b) /\ quiet[b.key] < Cooldown => b.opener <= atAlert[b.key]]_vars

\* "Janela de cooldown por chave para evitar spam": alerts of a key are at
\* least Cooldown apart.
CooldownKept == [][\A b \in unstamped : Stamp(b) => quiet[b.key] >= Cooldown]_vars

\* A line in a buffer whose timer is running leaves it, in an alert unless
\* appendClip pushes it out, even if no other line ever comes.
ScheduledIsAlerted ==
  \A k \in Keys, n \in Numbers :
    n \in NumbersOf(buffer[k]) /\ Scheduled(k)
      ~> n \notin NumbersOf(buffer[k]) \/ phase # "running"

\* Every line that reaches the bundler is in an alert in the end, unless
\* appendClip pushes it out or the program is stopped.
EventuallyAlerted ==
  \A k \in Keys, n \in Numbers :
    n \in NumbersOf(buffer[k]) ~> n \notin NumbersOf(buffer[k]) \/ phase # "running"

\* The counter counts the alerts that were sent.
SentIsCounted ==
  \A k \in Keys : alertsSent[k] = Cardinality({b \in delivered \union sending : b.key = k})
=============================================================================
