-------------------------- MODULE SecretVaultProofs --------------------------
(***************************************************************************)
(* The vault's index is the inverse of its secrets' names, expired secrets *)
(* do not outlive the reaper's period, and the store implements the        *)
(* directory of SecretDirectory, for every set of names, ids, values and   *)
(* lifetimes.                                                              *)
(***************************************************************************)
EXTENDS SecretVault, TLAPS

USE NoneAssumption, TimeAssumption DEF NoneAssumption, TimeAssumption

-----------------------------------------------------------------------------
(* Types.                                                                  *)

\* A deadline is a number or absent.
LEMMA DeadlineType ==
  ASSUME now \in Nat, NEW ttl \in Ttls \union {0}
  PROVE  Deadline(ttl) \in Int \union {None} /\ (Deadline(ttl) # None => Deadline(ttl) > now)
  BY DEF Deadline

\* What Create stores is a secret.
LEMMA CreatedType ==
  ASSUME now \in Nat, NEW n \in Names, NEW c \in Cipher, NEW ttl \in Ttls \union {0}
  PROVE  [name |-> n, cipher |-> c, expires |-> Deadline(ttl)] \in Secret
  BY DeadlineType DEF Secret

\* What Update stores is a secret of the same name.
LEMMA UpdatedType ==
  ASSUME now \in Nat, NEW s \in Secret, NEW c \in Cipher \union {None},
         NEW ttl \in Ttls \union {0, None}
  PROVE  /\ Updated(s, c, ttl) \in Secret
         /\ Updated(s, c, ttl).name = s.name
         /\ Updated(s, c, ttl).expires \in {s.expires} \union {None} \union {t \in Int : t > now}
  <1>1. (IF c = None THEN s.cipher ELSE c) \in Cipher
    BY DEF Secret
  <1>2. (IF ttl = None THEN s.expires ELSE Deadline(ttl)) \in Int \union {None}
    BY DeadlineType DEF Secret
  <1>3. (IF ttl = None THEN s.expires ELSE Deadline(ttl))
           \in {s.expires} \union {None} \union {t \in Int : t > now}
    BY DeadlineType
  <1> QED BY <1>1, <1>2, <1>3 DEF Secret, Updated

\* The steps, in terms of the store's calls.
LEMMA Steps ==
  ASSUME [Next]_vars
  PROVE  \/ \E id \in Ids, n \in Names, c \in Cipher, ttl \in Ttls \union {0} :
              Request /\ Create(id, n, c, ttl)
         \/ \E id \in Ids, c \in Cipher \union {None}, ttl \in Ttls \union {0, None} :
              Request /\ Update(id, c, ttl)
         \/ \E id \in Ids : Request /\ Delete(id)
         \/ reaper
         \/ Tick \/ Crash \/ Restart \/ UNCHANGED vars
  <1>1. \A v \in Values : Encrypt(v) \in Cipher
    BY DEF Encrypt, Cipher
  <1>2. ASSUME NEW id \in Ids, NEW n \in Names, NEW v \in Values, NEW ttl \in Ttls \union {0, None},
               createSecret(id, n, v, ttl)
        PROVE  \E c \in Cipher, t \in Ttls \union {0} : Request /\ Create(id, n, c, t)
    <2>1. (IF ttl = None THEN 0 ELSE ttl) \in Ttls \union {0}
      OBVIOUS
    <2> QED BY <1>1, <1>2, <2>1 DEF createSecret
  <1>3. ASSUME NEW id \in Ids, NEW v \in Values \union {None}, NEW ttl \in Ttls \union {0, None},
               updateSecret(id, v, ttl)
        PROVE  \E c \in Cipher \union {None} : Request /\ Update(id, c, ttl)
    <2>1. (IF v = None THEN None ELSE Encrypt(v)) \in Cipher \union {None}
      BY <1>1
    <2> QED BY <1>3, <2>1 DEF updateSecret
  <1> QED BY <1>2, <1>3 DEF Next, deleteSecret

\* None is not a secret.
LEMMA NoneIsNoSecret == TypeOK => \A id \in Ids : id \in Stored => secrets[id] \in Secret
  BY DEF TypeOK, Stored

\* Every step keeps the types.
LEMMA TypeStep == TypeOK /\ [Next]_vars => TypeOK'
  <1> SUFFICES ASSUME TypeOK, [Next]_vars PROVE TypeOK'
    OBVIOUS
  <1> USE DEF TypeOK
  <1>1. ASSUME NEW id \in Ids, NEW n \in Names, NEW c \in Cipher, NEW ttl \in Ttls \union {0},
               Request, Create(id, n, c, ttl)
        PROVE  TypeOK'
    <2>1. [name |-> n, cipher |-> c, expires |-> Deadline(ttl)] \in Secret
      BY CreatedType
    <2> QED BY <1>1, <2>1 DEF Request, Create
  <1>2. ASSUME NEW id \in Ids, NEW c \in Cipher \union {None}, NEW ttl \in Ttls \union {0, None},
               Request, Update(id, c, ttl)
        PROVE  TypeOK'
    <2>1. Updated(secrets[id], c, ttl) \in Secret
      BY <1>2, UpdatedType, NoneIsNoSecret DEF Request, Update
    <2> QED BY <1>2, <2>1 DEF Request, Update
  <1>3. ASSUME NEW id \in Ids, Request, Delete(id) PROVE TypeOK'
    BY <1>3 DEF Request, Delete
  <1>4. CASE reaper
    BY <1>4 DEF reaper, ReapExpired
  <1>5. CASE Tick
    BY <1>5 DEF Tick, store
  <1>6. CASE Crash
    BY <1>6 DEF Crash, store
  <1>7. CASE Restart
    <2>1. reapIn' = 0 /\ secrets' = secrets /\ byname' = byname /\ now' = now
      BY <1>7 DEF Restart, store
    <2>2. serving' \in BOOLEAN
      BY <1>7 DEF Restart
    <2> QED BY <2>1, <2>2
  <1>8. CASE UNCHANGED vars
    BY <1>8 DEF vars, store
  <1> QED BY <1>1, <1>2, <1>3, <1>4, <1>5, <1>6, <1>7, <1>8, Steps

\* The bucket holds secrets, the index ids, and the clock runs forward.
THEOREM VaultTypeCorrect == Spec => []TypeOK
  <1>1. Init => TypeOK
    BY DEF Init, TypeOK
  <1> QED BY <1>1, TypeStep, PTL DEF Spec

-----------------------------------------------------------------------------
(* The index.                                                              *)

\* Every step keeps the index the inverse of the names.
LEMMA IndexStep == TypeOK /\ TypeOK' /\ IndexIsInverse /\ [Next]_vars => IndexIsInverse'
  <1> SUFFICES ASSUME TypeOK, TypeOK', IndexIsInverse, [Next]_vars PROVE IndexIsInverse'
    OBVIOUS
  <1> USE DEF TypeOK, IndexIsInverse, Stored
  <1>1. ASSUME NEW id \in Ids, NEW n \in Names, NEW c \in Cipher, NEW ttl \in Ttls \union {0},
               Request, Create(id, n, c, ttl)
        PROVE  IndexIsInverse'
    <2> DEFINE s == [name |-> n, cipher |-> c, expires |-> Deadline(ttl)]
    <2>1. s \in Secret /\ s.name = n
      BY CreatedType
    <2> HIDE DEF s
    <2>2. secrets' = [secrets EXCEPT ![id] = s] /\ byname' = [byname EXCEPT ![n] = id]
      BY <1>1 DEF Request, Create, s
    <2>3. secrets[id] = None /\ byname[n] = None
      BY <1>1 DEF Request, Create, NameFree
    <2>4. \A i \in Ids : i # id => secrets'[i] = secrets[i]
      BY <2>2
    <2>5. \A i \in Ids : secrets'[i] # None => byname'[secrets'[i].name] = i
      <3> SUFFICES ASSUME NEW i \in Ids, secrets'[i] # None PROVE byname'[secrets'[i].name] = i
        OBVIOUS
      <3>1. CASE i = id
        BY <2>1, <2>2, <3>1
      <3>2. CASE i # id
        <4>1. secrets'[i] = secrets[i] /\ secrets[i] \in Secret /\ byname[secrets[i].name] = i
          BY <2>4, <3>2
        <4>2. secrets[i].name # n
          BY <2>3, <4>1
        <4> QED BY <2>2, <4>1, <4>2 DEF Secret
      <3> QED BY <3>1, <3>2
    <2>6. \A m \in Names : byname'[m] # None =>
            byname'[m] \in Ids /\ secrets'[byname'[m]] # None /\ secrets'[byname'[m]].name = m
      <3> SUFFICES ASSUME NEW m \in Names, byname'[m] # None
                   PROVE  byname'[m] \in Ids /\ secrets'[byname'[m]] # None /\ secrets'[byname'[m]].name = m
        OBVIOUS
      <3>1. CASE m = n
        <4>1. byname'[m] = id /\ secrets'[id] = s
          BY <2>2, <3>1
        <4>2. s # None
          BY <2>1
        <4> QED BY <2>1, <3>1, <4>1, <4>2
      <3>2. CASE m # n
        BY <2>2, <2>3, <2>4, <3>2
      <3> QED BY <3>1, <3>2
    <2> QED BY <2>5, <2>6
  <1>2. ASSUME NEW id \in Ids, NEW c \in Cipher \union {None}, NEW ttl \in Ttls \union {0, None},
               Request, Update(id, c, ttl)
        PROVE  IndexIsInverse'
    <2>1. PICK s : s = Updated(secrets[id], c, ttl)
      OBVIOUS
    <2>2. s \in Secret /\ s.name = secrets[id].name
      BY <1>2, <2>1, UpdatedType, NoneIsNoSecret DEF Request, Update
    <2>3. secrets' = [secrets EXCEPT ![id] = s] /\ byname' = byname
      BY <1>2, <2>1 DEF Request, Update
    <2>4. secrets[id] # None /\ secrets[id] \in Secret /\ s # None
      BY <1>2, <2>2, NoneIsNoSecret DEF Request, Update
    <2>5. \A i \in Ids : secrets'[i] # None => secrets[i] # None /\ secrets'[i].name = secrets[i].name
      BY <2>2, <2>3, <2>4
    <2>6. \A i \in Ids : secrets[i] # None => secrets'[i] # None /\ secrets'[i].name = secrets[i].name
      BY <2>2, <2>3, <2>4
    <2> QED BY <2>3, <2>5, <2>6
  <1>3. ASSUME NEW id \in Ids, Request, Delete(id) PROVE IndexIsInverse'
    BY <1>3 DEF Request, Delete, Secret
  <1>4. CASE reaper
    BY <1>4 DEF reaper, ReapExpired, Reaped, Secret
  <1>5. CASE Tick \/ Crash \/ Restart \/ UNCHANGED vars
    BY <1>5 DEF Tick, Crash, Restart, vars, store
  <1> QED BY <1>1, <1>2, <1>3, <1>4, <1>5, Steps

\* No name is lost to a secret that is gone, no secret is left without its name.
THEOREM IndexCorrect == Spec => []IndexIsInverse
  <1>1. Init => IndexIsInverse
    BY DEF Init, IndexIsInverse, Stored
  <1> QED BY <1>1, IndexStep, VaultTypeCorrect, PTL DEF Spec

-----------------------------------------------------------------------------
(* The reaper.                                                             *)

\* The strengthening: a secret's time past its deadline is at most the part
\* of the sleep that is over.
Fresh ==
  serving /\ reapIn > 0 =>
    \A id \in Stored : secrets[id].expires # None => now <= secrets[id].expires + (Period - reapIn)

\* Every step keeps the secrets fresh.
LEMMA FreshStep == TypeOK /\ TypeOK' /\ Fresh /\ [Next]_vars => Fresh'
  <1> SUFFICES ASSUME TypeOK, TypeOK', Fresh, [Next]_vars, (serving /\ reapIn > 0)',
                      NEW i \in Ids, secrets'[i] # None, secrets'[i].expires # None
               PROVE  now' <= secrets'[i].expires + (Period - reapIn')
    BY DEF Fresh, Stored
  <1> USE DEF TypeOK, Stored
  <1>1. ASSUME NEW id \in Ids, NEW n \in Names, NEW c \in Cipher, NEW ttl \in Ttls \union {0},
               Request, Create(id, n, c, ttl)
        PROVE  now' <= secrets'[i].expires + (Period - reapIn')
    <2>1. CASE i = id
      <3>1. secrets'[i].expires = Deadline(ttl)
        BY <1>1, <2>1 DEF Request, Create
      <3> QED BY <1>1, <3>1, DeadlineType DEF Request, Create
    <2>2. CASE i # id
      BY <1>1, <2>2 DEF Request, Create, Fresh, Secret
    <2> QED BY <2>1, <2>2
  <1>2. ASSUME NEW id \in Ids, NEW c \in Cipher \union {None}, NEW ttl \in Ttls \union {0, None},
               Request, Update(id, c, ttl)
        PROVE  now' <= secrets'[i].expires + (Period - reapIn')
    <2>1. CASE i = id
      <3>1. secrets'[i] = Updated(secrets[id], c, ttl) /\ secrets[id] \in Secret
        BY <1>2, <2>1, NoneIsNoSecret DEF Request, Update
      <3>2. secrets'[i].expires = secrets[i].expires \/ (secrets'[i].expires \in Int /\ secrets'[i].expires > now)
        BY <2>1, <3>1, UpdatedType
      <3> QED BY <1>2, <2>1, <3>2 DEF Request, Update, Fresh, Secret
    <2>2. CASE i # id
      BY <1>2, <2>2 DEF Request, Update, Fresh, Secret
    <2> QED BY <2>1, <2>2
  <1>3. ASSUME NEW id \in Ids, Request, Delete(id)
        PROVE  now' <= secrets'[i].expires + (Period - reapIn')
    BY <1>3 DEF Request, Delete, Fresh, Secret
  <1>4. CASE reaper
    <2>1. secrets'[i] = secrets[i] /\ secrets[i] \in Secret /\ now' = now /\ reapIn' = Period
      BY <1>4 DEF reaper, ReapExpired
    <2>2. i \notin Reaped
      BY <1>4 DEF reaper, ReapExpired
    <2>3. now <= secrets[i].expires
      BY <2>1, <2>2 DEF Reaped, Expired, Secret
    <2> QED BY <2>1, <2>3 DEF Secret
  <1>5. CASE Tick
    BY <1>5 DEF Tick, store, Fresh, Secret
  <1>6. CASE Crash \/ Restart
    BY <1>6 DEF Crash, Restart
  <1>7. CASE UNCHANGED vars
    BY <1>7 DEF vars, store, Fresh
  <1> QED BY <1>1, <1>2, <1>3, <1>4, <1>5, <1>6, <1>7, Steps

\* Between two reaps no secret is served that is Period past its deadline.
THEOREM ReaperKeepsTime == Spec => []ReapedInTime
  <1>1. Init => Fresh
    BY DEF Init, Fresh
  <1>2. TypeOK /\ Fresh => ReapedInTime
    BY DEF TypeOK, Fresh, ReapedInTime, Stored, Secret, getSecret, Get, GetDecrypted, listSecrets, List, Expired
  <1> QED BY <1>1, <1>2, FreshStep, VaultTypeCorrect, PTL DEF Spec

-----------------------------------------------------------------------------
(* The directory.                                                          *)

\* The directory that a bucket and an index stand for.
EntryOf(bucket, index, n) ==
  IF index[n] = None THEN Absent
  ELSE [value |-> Decrypt(bucket[index[n]].cipher), expires |-> bucket[index[n]].expires]
DirOf(bucket, index) == [n \in Names |-> EntryOf(bucket, index, n)]

\* TypeOK and IndexIsInverse of a bucket and an index.
Indexed(bucket, index) ==
  /\ bucket \in [Ids -> Secret \union {None}]
  /\ index \in [Names -> Ids \union {None}]
  /\ \A id \in Ids : bucket[id] # None => index[bucket[id].name] = id
  /\ \A n \in Names : index[n] # None =>
       index[n] \in Ids /\ bucket[index[n]] # None /\ bucket[index[n]].name = n

\* An absent name has no entry.
LEMMA AbsentIsNoEntry ==
  ASSUME NEW v, NEW t
  PROVE  [value |-> v, expires |-> t] # Absent
  <1> SUFFICES ASSUME [value |-> v, expires |-> t] = Absent PROVE FALSE
    OBVIOUS
  <1>1. DOMAIN [value |-> v, expires |-> t] = {"value", "expires"}
    OBVIOUS
  <1>2. DOMAIN Absent = {"absent"}
    BY DEF Absent
  <1>3. "value" # "absent" /\ "expires" # "absent"
    OBVIOUS
  <1> QED BY <1>1, <1>2, <1>3

\* A name in the index has an entry, the one of its secret; another has none.
LEMMA EntryShape ==
  ASSUME NEW bucket, NEW index, Indexed(bucket, index), NEW n \in Names
  PROVE  /\ index[n] = None => DirOf(bucket, index)[n] = Absent
         /\ index[n] # None =>
              /\ index[n] \in Ids /\ bucket[index[n]] \in Secret /\ bucket[index[n]].name = n
              /\ DirOf(bucket, index)[n].expires = bucket[index[n]].expires
              /\ DirOf(bucket, index)[n] \in Directory!Entry
              /\ DirOf(bucket, index)[n] # Absent
  <1>1. CASE index[n] = None
    BY <1>1 DEF DirOf, EntryOf
  <1>2. CASE index[n] # None
    <2>1. index[n] \in Ids /\ bucket[index[n]] \in Secret /\ bucket[index[n]].name = n
      BY <1>2 DEF Indexed
    <2>2. DirOf(bucket, index)[n] =
            [value |-> Decrypt(bucket[index[n]].cipher), expires |-> bucket[index[n]].expires]
      BY <1>2 DEF DirOf, EntryOf
    <2>3. Decrypt(bucket[index[n]].cipher) \in Values
          /\ bucket[index[n]].expires \in Int \union {None}
      BY <2>1 DEF Secret, Cipher, Decrypt
    <2>4. DirOf(bucket, index)[n] \in Directory!Entry
      BY <2>2, <2>3 DEF Directory!Entry
    <2>5. DirOf(bucket, index)[n] # Absent
      BY <2>2, AbsentIsNoEntry
    <2> QED BY <1>2, <2>1, <2>2, <2>4, <2>5
  <1> QED BY <1>1, <1>2

\* The entry of a name depends on its id and that id's secret only.
LEMMA SameEntry ==
  ASSUME NEW b1, NEW i1, NEW b2, NEW i2, NEW n \in Names,
         i2[n] = i1[n], i1[n] # None => b2[i1[n]] = b1[i1[n]]
  PROVE  DirOf(b2, i2)[n] = DirOf(b1, i1)[n]
  BY DEF DirOf, EntryOf

\* A change of the entry of n alone.
LEMMA OneEntry ==
  ASSUME NEW f, NEW g, f = [m \in Names |-> f[m]], g = [m \in Names |-> g[m]],
         NEW n \in Names, \A m \in Names : m # n => g[m] = f[m]
  PROVE  g = [f EXCEPT ![n] = g[n]]
  OBVIOUS

\* Every step of the store is one of the directory, or leaves it alone.
LEMMA DirectoryStep ==
  TypeOK /\ TypeOK' /\ IndexIsInverse /\ IndexIsInverse' /\ [Next]_vars
    => [Directory!Next]_<<[n \in Names |-> Named(n)], now>>
  <1> SUFFICES ASSUME TypeOK, TypeOK', IndexIsInverse, IndexIsInverse', [Next]_vars
               PROVE  [Directory!Next]_<<[n \in Names |-> Named(n)], now>>
    OBVIOUS
  <1> DEFINE d  == DirOf(secrets, byname)
             dn == DirOf(secrets', byname')
  <1>1. [n \in Names |-> Named(n)] = d /\ [n \in Names |-> Named(n)]' = dn
    BY DEF DirOf, EntryOf, Named, GetDecrypted, Get
  <1>2. Indexed(secrets, byname) /\ Indexed(secrets', byname')
    BY DEF TypeOK, IndexIsInverse, Indexed, Stored
  <1>3. now \in Nat /\ now' \in Nat
    BY DEF TypeOK
  <1>4. ASSUME NEW n \in Names, now' = now, byname'[n] # None,
               \A m \in Names : m # n => byname'[m] = byname[m],
               \A m \in Names : m # n /\ byname[m] # None => secrets'[byname[m]] = secrets[byname[m]]
        PROVE  Directory!Next
    <2>1. \A m \in Names : m # n => dn[m] = d[m]
      BY <1>4, SameEntry
    <2>2. dn = [d EXCEPT ![n] = dn[n]]
      <3>1. d = [m \in Names |-> d[m]] /\ dn = [m \in Names |-> dn[m]]
        BY DEF DirOf
      <3> HIDE DEF d, dn
      <3> QED BY <2>1, <3>1, OneEntry
    <2>3. dn[n] \in Directory!Entry
      BY <1>2, <1>4, EntryShape
    <2> HIDE DEF d, dn
    <2>4. Directory!Set(n)
      BY <1>1, <1>4, <2>2, <2>3 DEF Directory!Set
    <2> QED BY <1>1, <2>4 DEF Directory!Next, Directory!Add, Directory!Change
  <1>5. ASSUME NEW id \in Ids, NEW n \in Names, NEW c \in Cipher, NEW ttl \in Ttls \union {0},
               Request, Create(id, n, c, ttl)
        PROVE  Directory!Next
    <2>1. now' = now /\ byname'[n] = id /\ id # None
      BY <1>5 DEF Request, Create, TypeOK
    <2>2. \A m \in Names : m # n => byname'[m] = byname[m]
      BY <1>5 DEF Request, Create, TypeOK
    <2>3. \A i \in Ids : i # id => secrets'[i] = secrets[i]
      BY <1>5 DEF Request, Create, TypeOK
    <2>4. \A m \in Names : byname[m] # None => byname[m] \in Ids /\ byname[m] # id
      BY <1>2, <1>5 DEF Request, Create, Indexed
    <2> QED BY <1>4, <2>1, <2>2, <2>3, <2>4
  <1>6. ASSUME NEW id \in Ids, NEW c \in Cipher \union {None}, NEW ttl \in Ttls \union {0, None},
               Request, Update(id, c, ttl)
        PROVE  Directory!Next
    <2>1. now' = now /\ byname' = byname /\ secrets[id] # None /\ secrets[id] \in Secret
      BY <1>6, NoneIsNoSecret DEF Request, Update, Stored
    <2>2. PICK n \in Names : n = secrets[id].name
      BY <2>1 DEF Secret
    <2>3. byname[n] = id
      BY <1>2, <2>1, <2>2 DEF Indexed
    <2>4. \A i \in Ids : i # id => secrets'[i] = secrets[i]
      BY <1>6 DEF Request, Update, TypeOK
    <2>5. \A m \in Names : m # n /\ byname[m] # None => byname[m] \in Ids /\ byname[m] # id
      BY <1>2, <2>2 DEF Indexed
    <2> QED BY <1>4, <2>1, <2>3, <2>4, <2>5
  <1>7. ASSUME NEW id \in Ids, Request, Delete(id) PROVE Directory!Next
    <2>1. now' = now /\ secrets[id] # None /\ secrets[id] \in Secret
      BY <1>7, NoneIsNoSecret DEF Request, Delete, Stored
    <2>2. PICK n \in Names : n = secrets[id].name
      BY <2>1 DEF Secret
    <2>3. byname[n] = id
      BY <1>2, <2>1, <2>2 DEF Indexed
    <2>4. byname'[n] = None /\ \A m \in Names : m # n => byname'[m] = byname[m]
      BY <1>7, <2>2 DEF Request, Delete, TypeOK
    <2>5. \A i \in Ids : i # id => secrets'[i] = secrets[i]
      BY <1>7 DEF Request, Delete, TypeOK
    <2>6. \A m \in Names : m # n /\ byname[m] # None => byname[m] \in Ids /\ byname[m] # id
      BY <1>2, <2>2 DEF Indexed
    <2>7. \A m \in Names : m # n => dn[m] = d[m]
      BY <2>4, <2>5, <2>6, SameEntry
    <2>8. dn = [d EXCEPT ![n] = dn[n]]
      <3>1. d = [m \in Names |-> d[m]] /\ dn = [m \in Names |-> dn[m]]
        BY DEF DirOf
      <3> HIDE DEF d, dn
      <3> QED BY <2>7, <3>1, OneEntry
    <2>9. dn[n] = Absent /\ d[n] # Absent
      BY <1>2, <2>3, <2>4, EntryShape
    <2> HIDE DEF d, dn
    <2> QED BY <1>1, <2>1, <2>8, <2>9 DEF Directory!Next, Directory!Remove
  <1>8. CASE reaper
    <2>1. now' = now
      BY <1>8 DEF reaper, ReapExpired
    <2>2. ASSUME NEW n \in Names
          PROVE  dn[n] = IF d[n] # Absent /\ Directory!Overdue(d[n], now) THEN Absent ELSE d[n]
      <3>1. CASE byname[n] = None
        <4>1. byname'[n] = None
          BY <1>8, <3>1 DEF reaper, ReapExpired
        <4> QED BY <1>2, <3>1, <4>1, EntryShape
      <3>2. CASE byname[n] # None
        <4>1. /\ byname[n] \in Ids /\ secrets[byname[n]] \in Secret /\ secrets[byname[n]].name = n
              /\ d[n].expires = secrets[byname[n]].expires /\ d[n] # Absent
          BY <1>2, <3>2, EntryShape
        <4>2. byname[n] \in Stored
          BY <1>2, <3>2 DEF Indexed, Stored
        <4>3. Directory!Overdue(d[n], now) <=> byname[n] \in Reaped
          BY <4>1, <4>2 DEF Directory!Overdue, Reaped, Expired
        <4>4. \A id \in Reaped : secrets[id].name = n <=> id = byname[n]
          BY <1>2, <4>1 DEF Reaped, Stored, Indexed
        <4>5. CASE byname[n] \in Reaped
          <5>1. byname'[n] = None
            BY <1>8, <4>1, <4>5 DEF reaper, ReapExpired
          <5>2. dn[n] = Absent
            BY <1>2, <5>1, EntryShape
          <5> QED BY <4>1, <4>3, <4>5, <5>2
        <4>6. CASE byname[n] \notin Reaped
          <5>1. byname'[n] = byname[n] /\ secrets'[byname[n]] = secrets[byname[n]]
            BY <1>8, <4>1, <4>4, <4>6 DEF reaper, ReapExpired
          <5>2. dn[n] = d[n]
            BY <5>1, SameEntry
          <5> QED BY <4>3, <4>6, <5>2
        <4> QED BY <4>5, <4>6
      <3> QED BY <3>1, <3>2
    <2>3. dn = [n \in Names |-> dn[n]]
      BY DEF DirOf
    <2> HIDE DEF d, dn
    <2>4. dn = [n \in Names |->
                 IF d[n] # Absent /\ Directory!Overdue(d[n], now) THEN Absent ELSE d[n]]
      BY <2>2, <2>3
    <2> QED BY <1>1, <2>1, <2>4 DEF Directory!Next, Directory!Reap
  <1>9. CASE Tick
    <2>1. now' > now /\ secrets' = secrets /\ byname' = byname
      BY <1>3, <1>9 DEF Tick, store
    <2>2. dn = d
      BY <2>1
    <2> HIDE DEF d, dn
    <2> QED BY <1>1, <2>1, <2>2 DEF Directory!Next, Directory!Pass
  <1>10. CASE Crash \/ Restart \/ UNCHANGED vars
    <2>1. now' = now /\ secrets' = secrets /\ byname' = byname
      BY <1>10 DEF Crash, Restart, vars, store
    <2>2. dn = d
      BY <2>1
    <2> HIDE DEF d, dn
    <2> QED BY <1>1, <2>1, <2>2
  <1> QED BY <1>5, <1>6, <1>7, <1>8, <1>9, <1>10, Steps

\* The store with its index, its reaper and its restarts implements the
\* directory: names are taken once, secrets change in place, and only a
\* request or a deadline that has passed removes one.
THEOREM StoreIsADirectory == Spec => DirectorySpec
  <1>1. Init => Directory!Init
    BY DEF Init, Directory!Init, Named
  <1> QED BY <1>1, DirectoryStep, VaultTypeCorrect, IndexCorrect, PTL
          DEF Spec, DirectorySpec, Directory!Spec
=============================================================================
