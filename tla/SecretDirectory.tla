--------------------------- MODULE SecretDirectory ---------------------------
(***************************************************************************)
(* What go-secret-vault's store promises its users: a directory in which   *)
(* a name has at most one secret, taken by an add, changed in place, and   *)
(* free again once the secret is removed; nothing is removed behind the    *)
(* users' back before its deadline.                                        *)
(***************************************************************************)
EXTENDS Integers

CONSTANTS
  Names,    \* names of secrets
  Values,   \* plaintexts
  Never,    \* the deadline of a secret without a ttl
  Absent    \* the entry of a name that has no secret

VARIABLES
  directory,  \* name to entry
  now         \* the clock

Entry == [value: Values, expires: Int \union {Never}]

Overdue(entry, time) == entry.expires # Never /\ time > entry.expires

Init ==
  /\ directory = [n \in Names |-> Absent]
  /\ now = 0

\* Only the entry of n becomes another entry.
Set(n) ==
  /\ directory'[n] \in Entry
  /\ directory' = [directory EXCEPT ![n] = directory'[n]]
  /\ UNCHANGED now

Add(n)    == directory[n] = Absent /\ Set(n)
Change(n) == directory[n] # Absent /\ Set(n)

Remove(n) ==
  /\ directory[n] # Absent
  /\ directory' = [directory EXCEPT ![n] = Absent]
  /\ UNCHANGED now

\* All the overdue secrets go, and no other.
Reap ==
  /\ directory' = [n \in Names |->
       IF directory[n] # Absent /\ Overdue(directory[n], now) THEN Absent ELSE directory[n]]
  /\ UNCHANGED now

Pass == now' > now /\ UNCHANGED directory

Next ==
  \/ \E n \in Names : Add(n) \/ Change(n) \/ Remove(n)
  \/ Reap
  \/ Pass

Spec == Init /\ [][Next]_<<directory, now>>
=============================================================================
