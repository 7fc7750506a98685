----------------------------- MODULE SecretVault -----------------------------
(***************************************************************************)
(* go-secret-vault: secrets in one Bolt bucket, keyed by id, and in it the *)
(* index "byname" from names to ids.  Every call of the API is one         *)
(* transaction; a goroutine reaps the expired secrets and sleeps for       *)
(* Period.  The process may die and start again, the file stays.           *)
(***************************************************************************)
EXTENDS Integers

CONSTANTS
  Names,    \* names a client may use; the store refuses the empty one
  Values,   \* plaintexts
  Ids,      \* ids of secrets
  Ttls,     \* positive lifetimes a client may ask for
  None,     \* no value
  Period,   \* the reaper's sleep (a minute)
  MaxTime   \* bound: the clock

ASSUME TimeAssumption == Ttls \subseteq Nat \ {0} /\ Period \in Nat \ {0} /\ MaxTime \in Nat

VARIABLES
  secrets,   \* the bucket: id to Secret, None where there is none
  byname,    \* the index: name to id, None where there is none
  now,       \* the clock
  serving,   \* the process is running
  reapIn     \* what is left of the reaper's sleep

store == <<secrets, byname>>
vars  == <<store, now, serving, reapIn>>

-----------------------------------------------------------------------------
(* Encryption: a cipher text is not the value, and gives it back.          *)

Cipher     == [sealed: Values]
Encrypt(v) == [sealed |-> v]
Decrypt(c) == c.sealed

Secret == [name: Names, cipher: Cipher, expires: Int \union {None}]

ASSUME NoneAssumption == None \notin Ids \union Values \union Int \union Secret \union Cipher

TypeOK ==
  /\ secrets \in [Ids -> Secret \union {None}]
  /\ byname \in [Names -> Ids \union {None}]
  /\ now \in Nat
  /\ serving \in BOOLEAN
  /\ reapIn \in 0 .. Period

Stored     == {id \in Ids : secrets[id] # None}
ExpiredAtDeadline(s) == s.expires # None /\ now >= s.expires
Expired(s) == s.expires # None /\ now > s.expires

Init ==
  /\ secrets = [id \in Ids |-> None]
  /\ byname = [n \in Names |-> None]
  /\ now = 0
  /\ serving = TRUE /\ reapIn = 0

-----------------------------------------------------------------------------
(* The store's calls, one transaction each.                                *)

\* The deadline a ttl gives: none for one that is not positive.
Deadline(ttl) == IF ttl > 0 THEN now + ttl ELSE None

NameFree(n) == byname[n] = None

\* Create with a fresh id; refused when the index has the name.
Create(id, n, cipher, ttl) ==
  /\ secrets[id] = None
  /\ NameFree(n)
  /\ secrets' = [secrets EXCEPT ![id] = [name |-> n, cipher |-> cipher, expires |-> Deadline(ttl)]]
  /\ byname' = [byname EXCEPT ![n] = id]

\* None stands for a field the caller leaves alone.
Updated(s, cipher, ttl) ==
  [name |-> s.name,
   cipher |-> IF cipher = None THEN s.cipher ELSE cipher,
   expires |-> IF ttl = None THEN s.expires ELSE Deadline(ttl)]
Update(id, cipher, ttl) ==
  /\ id \in Stored
  /\ secrets' = [secrets EXCEPT ![id] = Updated(@, cipher, ttl)]
  /\ UNCHANGED byname

Delete(id) ==
  /\ id \in Stored
  /\ secrets' = [secrets EXCEPT ![id] = None]
  /\ byname' = [byname EXCEPT ![secrets[id].name] = None]

Get(id) == secrets[id]

List(includeExpired) == {id \in Stored : includeExpired \/ ~Expired(secrets[id])}

ReapedOne ==
  IF \E id \in Stored : Expired(secrets[id])
    THEN {CHOOSE id \in Stored : Expired(secrets[id])} ELSE {}
Reaped == {id \in Stored : Expired(secrets[id])}

ReapExpiredKeepingNames ==
  /\ secrets' = [id \in Ids |-> IF id \in Reaped THEN None ELSE secrets[id]]
  /\ UNCHANGED byname
ReapExpired ==
  /\ secrets' = [id \in Ids |-> IF id \in Reaped THEN None ELSE secrets[id]]
  /\ byname' = [n \in Names |-> IF \E id \in Reaped : secrets[id].name = n THEN None ELSE byname[n]]

-----------------------------------------------------------------------------
(* The handlers.  A body that is no JSON and a ttl that is no duration are *)
(* refused before the store is asked; None is a field that is missing.     *)

Request == serving /\ UNCHANGED <<now, serving, reapIn>>

createSecret(id, n, v, ttl) ==
  /\ Request
  /\ Create(id, n, Encrypt(v), IF ttl = None THEN 0 ELSE ttl)

UpdateInClear(id, v, ttl) == Request /\ Update(id, v, ttl)
updateSecret(id, v, ttl) ==
  /\ Request
  /\ Update(id, IF v = None THEN None ELSE Encrypt(v), ttl)

deleteSecret(id) == Request /\ Delete(id)

GetDecrypted(id) == Decrypt(Get(id).cipher)

\* The value the client gets, None for "not found".
getSecret(id) == IF Get(id) = None THEN None ELSE GetDecrypted(id)

\* The ids the client sees.
listSecrets == List(FALSE)

-----------------------------------------------------------------------------
(* The reaper, time, and the process.                                      *)

reaper ==
  /\ serving /\ reapIn = 0
  /\ ReapExpired
  /\ reapIn' = Period
  /\ UNCHANGED <<now, serving>>

\* The reaper runs as soon as its sleep is over: a unit of time is long.
Tick ==
  /\ now < MaxTime
  /\ serving => reapIn > 0
  /\ now' = now + 1
  /\ reapIn' = IF serving THEN reapIn - 1 ELSE reapIn
  /\ UNCHANGED <<store, serving>>

\* A started process reaps at once, but may serve a request before that.
Crash   == serving /\ serving' = FALSE /\ UNCHANGED <<store, now, reapIn>>
Restart == ~serving /\ serving' = TRUE /\ reapIn' = 0 /\ UNCHANGED <<store, now>>

Next ==
  \/ \E id \in Ids :
       \/ \E n \in Names, v \in Values, ttl \in Ttls \union {0, None} : createSecret(id, n, v, ttl)
       \/ \E v \in Values \union {None}, ttl \in Ttls \union {0, None} : updateSecret(id, v, ttl)
       \/ deleteSecret(id)
  \/ reaper
  \/ Tick
  \/ Crash
  \/ Restart

Spec == Init /\ [][Next]_vars

-----------------------------------------------------------------------------
\* The index is the inverse of the secrets' names, at every moment, whatever
\* expired, was deleted, or was created again: no name is lost to a secret
\* that is gone and no secret is left without its name.
IndexIsInverse ==
  /\ \A id \in Stored : byname[secrets[id].name] = id
  /\ \A n \in Names : byname[n] # None => byname[n] \in Stored /\ secrets[byname[n]].name = n

\* "TTL e coleta automatica (reaper)": between two reaps a secret that the
\* list no longer shows can still be read, for less than Period, in spite of
\* updates that move deadlines and of restarts; only before the first reap of
\* a process may it be longer.
ReapedInTime ==
  serving /\ reapIn > 0 =>
    \A id \in Ids : getSecret(id) # None /\ id \notin listSecrets
                      => now < secrets[id].expires + Period

\* The store implements the directory of secrets by name.
Absent == [absent |-> TRUE]
Named(n) ==
  IF byname[n] = None THEN Absent
  ELSE [value |-> GetDecrypted(byname[n]), expires |-> secrets[byname[n]].expires]
Directory == INSTANCE SecretDirectory WITH
  directory <- [n \in Names |-> Named(n)], Never <- None
DirectorySpec == Directory!Spec
=============================================================================
