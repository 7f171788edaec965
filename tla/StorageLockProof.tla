-------------------------- MODULE StorageLockProof --------------------------
(***************************************************************************)
(* What the age of a time stamp is worth: theorems about StorageLock, for  *)
(* any number of archivers and every choice of the times.                  *)
(***************************************************************************)
EXTENDS StorageLock, TLAPS

(***************************************************************************)
(* Types.  A time stamp under way must not be older than a stored one may  *)
(* be, for the time that it is written.                                    *)
(***************************************************************************)
Labels == {"new", "read", "decide", "sleep", "obtain", "hold", "ended"}

TypeInv ==
  /\ TypeOK
  /\ timer \in [Archivers -> Nat]
  /\ stamp \in [Archivers -> Ages]

LEMMA TimesAreNumbers ==
  /\ LockTimeout \in Nat /\ LockUpdateInterval \in Nat /\ ObtainLockRetryInterval \in Nat
  /\ MaxDelay \in Nat /\ MaxDelay < LockUpdateInterval /\ MaxSkew \in Nat
  /\ \A label : Limit(label) \in Nat
BY TimesAssumption DEF Limit

LEMMA AgesGrow ==
  /\ Oldest \in Nat /\ LockTimeout <= Oldest
  /\ 0 \in Ages /\ Oldest \in Ages
  /\ \A age \in Ages : /\ age \in Nat /\ Older(age) \in Ages
                       /\ Older(age) \in Nat /\ Older(age) <= age + 1
                       /\ age < LockTimeout => Older(age) = age + 1
BY TimesAreNumbers DEF Ages, Older, Oldest

LEMMA EmptyType == Empty \in Lockfiles
BY AgesGrow DEF Empty, Lockfiles

LEMMA InitTypeInv == Init => TypeInv
BY TimesAreNumbers, AgesGrow, EmptyType, TimesAssumption DEF Init, TypeInv, TypeOK

\* A process that goes on to another label starts its time anew.
LEMMA GoToTypes ==
  ASSUME TypeInv, NEW i \in Archivers, NEW label \in Labels, GoTo(i, label)
  PROVE  /\ pc' \in [Archivers -> Labels]
         /\ timer' \in [Archivers -> Nat]
         /\ \A j \in Archivers : timer'[j] \in 0 .. Limit(pc'[j])
<1>1. \A j \in Archivers : /\ pc'[j] = IF j = i THEN label ELSE pc[j]
                           /\ timer'[j] = IF j = i THEN 0 ELSE timer[j]
  BY DEF TypeInv, TypeOK, GoTo
<1>2. 0 \in 0 .. Limit(label)
  BY TimesAreNumbers
<1> QED
  BY <1>1, <1>2 DEF TypeInv, TypeOK, GoTo, Labels

LEMMA StepTypeInv == TypeInv /\ [Next]_vars => TypeInv'
<1> SUFFICES ASSUME TypeInv, [Next]_vars
             PROVE  TypeInv'
  OBVIOUS
<1>1. /\ lockfile \in Lockfiles
      /\ pc \in [Archivers -> Labels]
      /\ seen \in [Archivers -> Lockfiles]
      /\ timer \in [Archivers -> Nat]
      /\ \A i \in Archivers : timer[i] \in 0 .. Limit(pc[i])
      /\ writing \in [Archivers -> BOOLEAN]
      /\ stamp \in [Archivers -> 0 .. MaxDelay]
      /\ stamp \in [Archivers -> Ages]
      /\ failures \in 0 .. MaxFailures
      /\ unread \in [Archivers -> SUBSET Archivers]
  BY DEF TypeInv, TypeOK, Labels
<1>2. 0 \in 0 .. MaxDelay
  BY TimesAreNumbers
<1>3. ASSUME NEW i \in Archivers, NEW label \in Labels, GoTo(i, label),
             seen' = [seen EXCEPT ![i] = Empty] \/ seen' = [seen EXCEPT ![i] = lockfile]
               \/ UNCHANGED seen,
             UNCHANGED <<lockfile, failures>>,
             \E b \in BOOLEAN : writing' = [writing EXCEPT ![i] = b],
             stamp' = [stamp EXCEPT ![i] = 0] \/ UNCHANGED stamp,
             unread' \in [Archivers -> SUBSET Archivers]
      PROVE  TypeInv'
  <2>1. /\ seen' \in [Archivers -> Lockfiles]
        /\ writing' \in [Archivers -> BOOLEAN]
        /\ stamp' \in [Archivers -> 0 .. MaxDelay]
        /\ stamp' \in [Archivers -> Ages]
    BY <1>1, <1>2, <1>3, EmptyType, AgesGrow
  <2> QED
    BY <1>1, <1>3, <2>1, GoToTypes DEF TypeInv, TypeOK, Labels
<1>4. \A i \in Archivers : UNCHANGED writing => writing' = [writing EXCEPT ![i] = writing[i]]
  BY <1>1
<1>5. ASSUME NEW i \in Archivers,
             Arrive(i) \/ ReadLockfile(i) \/ DecideToObtain(i) \/ DecideToSleep(i) \/ Wake(i) \/ End(i)
      PROVE  TypeInv'
  <2>1. \E label \in Labels : GoTo(i, label)
    BY <1>5 DEF Arrive, ReadLockfile, DecideToObtain, DecideToSleep, Wake, End, Labels
  <2>2. \E b \in BOOLEAN : writing' = [writing EXCEPT ![i] = b]
    BY <1>1, <1>4, <1>5 DEF Arrive, ReadLockfile, DecideToObtain, DecideToSleep, Wake, End
  <2>3. unread' \in [Archivers -> SUBSET Archivers]
    BY <1>1, <1>5 DEF Arrive, ReadLockfile, DecideToObtain, DecideToSleep, Wake, End
  <2> QED
    BY <1>3, <1>5, <2>1, <2>2, <2>3
    DEF Arrive, ReadLockfile, DecideToObtain, DecideToSleep, Wake, End
<1>6. ASSUME NEW i \in Archivers, Write(i)
      PROVE  TypeInv'
  <2>1. lockfile' \in Lockfiles
    BY <1>1, <1>6 DEF Write, Lockfiles
  <2>2. /\ pc' \in [Archivers -> Labels]
        /\ timer' \in [Archivers -> Nat]
        /\ \A j \in Archivers : timer'[j] \in 0 .. Limit(pc'[j])
    BY <1>1, <1>6, GoToTypes DEF Write, Labels
  <2>3. unread' \in [Archivers -> SUBSET Archivers]
    BY <1>1, <1>6 DEF Write, Present
  <2> QED
    BY <1>1, <1>2, <1>6, <2>1, <2>2, <2>3, AgesGrow DEF Write, TypeInv, TypeOK, Labels
<1>7. ASSUME NEW i \in Archivers, Renew(i) \/ RenewFails(i)
      PROVE  TypeInv'
  <2>1. /\ writing' \in [Archivers -> BOOLEAN]
        /\ stamp' \in [Archivers -> 0 .. MaxDelay]
        /\ stamp' \in [Archivers -> Ages]
    BY <1>1, <1>2, <1>7, AgesGrow DEF Renew, RenewFails
  <2>2. /\ timer' \in [Archivers -> Nat]
        /\ \A j \in Archivers : timer'[j] \in 0 .. Limit(pc[j])
    BY <1>1, <1>7, TimesAreNumbers DEF Renew, RenewFails
  <2>3. failures' \in 0 .. MaxFailures
    BY <1>1, <1>7, TimesAssumption DEF Renew, RenewFails
  <2> QED
    BY <1>1, <1>7, <2>1, <2>2, <2>3 DEF Renew, RenewFails, TypeInv, TypeOK, Labels
<1>8. CASE Tick
  <2>1. lockfile' \in Lockfiles /\ seen' \in [Archivers -> Lockfiles]
    BY <1>1, <1>8, AgesGrow DEF Tick, Lockfiles
  <2>2. /\ timer' \in [Archivers -> Nat]
        /\ \A j \in Archivers : timer'[j] \in 0 .. Limit(pc[j])
    BY <1>1, <1>8, TimesAreNumbers DEF Tick, OnTime
  <2>3. /\ stamp' \in [Archivers -> Ages]
        /\ stamp' \in [Archivers -> 0 .. MaxDelay]
    BY <1>1, <1>8, AgesGrow, TimesAreNumbers DEF Tick, OnTime
  <2> QED
    BY <1>1, <1>8, <2>1, <2>2, <2>3 DEF Tick, TypeInv, TypeOK, Labels
<1>9. CASE UNCHANGED vars
  BY <1>9 DEF vars, TypeInv, TypeOK
<1> QED
  BY <1>5, <1>6, <1>7, <1>8, <1>9 DEF Next, Step

\* Every variable keeps its type: no ticker, sleep or request overruns its time, and
\* what is written to the store is a time stamp that is not from before it was
\* sent, though its sender may have ended since.
THEOREM TypeCorrect == Spec => []TypeOK
<1>1. TypeInv => TypeOK
  BY DEF TypeInv
<1> QED
  BY <1>1, InitTypeInv, StepTypeInv, PTL DEF Spec

(***************************************************************************)
(* Retention.  Whoever holds the lock keeps the stamp in the lockfile      *)
(* young, though a late write of an archiver that ended, or of another     *)
(* holder, may replace it by another one; so whoever has read the lockfile *)
(* since has read a stamp too young to be expired when it decides.         *)
(***************************************************************************)

\* The id of a process that has not written the lockfile is not in it.
NotYetWritten ==
  \A i \in Archivers :
    pc[i] \in {"new", "read", "decide", "sleep"} => ~writing[i] /\ lockfile.holder # i

\* The stamp in the lockfile is that of i's last renewal, or younger.
Young(i) ==
  /\ lockfile.holder # NoOne
  /\ ~writing[i] => lockfile.age <= timer[i] + MaxDelay
  /\ writing[i] => /\ stamp[i] = timer[i]
                   /\ lockfile.age <= LockUpdateInterval + MaxDelay + stamp[i]

\* j is not about to take the lock.
Patient(j) ==
  /\ pc[j] \notin {"obtain", "hold"}
  /\ pc[j] = "decide" =>
       /\ seen[j].holder \notin {NoOne, j}
       /\ seen[j].age <= LockUpdateInterval + 2 * MaxDelay + timer[j]

Respected ==
  \A i \in Holding : /\ Young(i)
                     /\ \A j \in Archivers \ {i} : j \in unread[i] \/ Patient(j)

LockInv == NotYetWritten /\ (failures = 0 => Respected)

\* A process steps that neither holds the lock before nor after, and does not
\* write; if it has read the lockfile while another held the lock, it does not
\* come to take it.
LEMMA BystanderStep ==
  ASSUME TypeInv, NotYetWritten, Respected, NEW i \in Archivers, NEW label \in Labels,
         GoTo(i, label), UNCHANGED lockfile, i \notin Holding, label # "hold",
         \A j \in Archivers \ {i} :
           /\ writing'[j] = writing[j]
           /\ stamp'[j] = stamp[j]
           /\ seen'[j] = seen[j],
         \A j \in Holding : \A k \in Archivers \ {i} : k \in unread[j] => k \in unread'[j],
         \A j \in Holding : i \in unread'[j] \/ Patient(i)'
  PROVE  Respected'
<1>1. \A j \in Archivers : /\ pc'[j] = IF j = i THEN label ELSE pc[j]
                           /\ timer'[j] = IF j = i THEN 0 ELSE timer[j]
  BY DEF TypeInv, TypeOK, GoTo
<1>2. Holding' = Holding
  BY <1>1 DEF Holding
<1>3. \A j \in Archivers \ {i} : /\ Young(j) => Young(j)'
                                 /\ Patient(j) => Patient(j)'
  BY <1>1 DEF Young, Patient
<1>4. ASSUME NEW j \in Holding, NEW k \in Archivers \ {j}
      PROVE  k \in unread'[j] \/ Patient(k)'
  <2>1. CASE k = i
    BY <2>1
  <2>2. CASE k # i
    BY <1>3, <2>2 DEF Respected
  <2> QED
    BY <2>1, <2>2
<1> QED
  BY <1>2, <1>3, <1>4 DEF Respected, Holding

\* Who comes to hold the lock has read the lockfile before anyone held it who
\* holds it now; of those still present nobody has read it since.
LEMMA WriteStep ==
  ASSUME TypeInv, LockInv, Respected, NEW i \in Archivers, Write(i)
  PROVE  Respected'
<1>1. /\ lockfile'.holder = i /\ lockfile'.age = stamp[i] /\ stamp[i] \in 0 .. MaxDelay
      /\ i # NoOne
      /\ \A j \in Archivers : timer[j] \in Nat /\ stamp[j] \in Nat
      /\ MaxDelay \in Nat /\ LockUpdateInterval \in Nat
  BY TimesAreNumbers, ArchiversAssumption DEF Write, TypeInv, TypeOK
<1>2. \A j \in Archivers :
        /\ writing'[j] = IF j = i THEN FALSE ELSE writing[j]
        /\ stamp'[j] = IF j = i THEN 0 ELSE stamp[j]
        /\ seen'[j] = seen[j]
  BY DEF Write, TypeInv, TypeOK
\* The new stamp is young for whoever holds the lock.
<1>3. \A j \in Archivers : Young(j)' \/ (writing'[j] /\ stamp[j] # timer[j])
  <2> SUFFICES ASSUME NEW j \in Archivers, writing'[j] => stamp[j] = timer[j]
               PROVE  Young(j)'
    OBVIOUS
  <2>1. lockfile'.holder # NoOne /\ lockfile'.age \in Nat /\ lockfile'.age <= MaxDelay
    BY <1>1
  <2>2. timer'[j] \in Nat /\ (j # i => timer'[j] = timer[j])
    BY <1>1 DEF Write, GoTo, TypeInv
  <2>3. lockfile'.age <= timer'[j] + MaxDelay
    BY <1>1, <2>1, <2>2
  <2>4. ASSUME writing'[j]
        PROVE  stamp'[j] = timer'[j] /\ lockfile'.age <= LockUpdateInterval + MaxDelay + stamp'[j]
    <3>1. j # i
      BY <2>4 DEF Write, TypeInv, TypeOK
    <3>2. stamp'[j] = stamp[j] /\ stamp[j] = timer[j] /\ timer'[j] = timer[j]
      BY <1>2, <2>2, <2>4, <3>1
    <3> QED
      BY <1>1, <2>1, <3>2
  <2> QED
    BY <2>1, <2>3, <2>4 DEF Young
<1>4. \A j \in Holding \cup {i} : Young(j)'
  BY <1>2, <1>3 DEF Respected, Young, Holding
<1>5. CASE pc[i] = "obtain"
  <2>1. /\ \A j \in Archivers : pc'[j] = IF j = i THEN "hold" ELSE pc[j]
        /\ unread'[i] = Present \ {i}
        /\ \A j \in Archivers \ {i} : unread'[j] = unread[j]
    BY <1>5 DEF Write, GoTo, TypeInv, TypeOK
  <2>2. Holding' = Holding \cup {i} /\ i \notin Holding
    BY <1>5, <2>1 DEF Holding
  <2>3. \A k \in Archivers \ {i} : Patient(k) => Patient(k)'
    BY <1>2, <1>5, <2>1 DEF Patient, Write, GoTo, TypeInv
  <2>4. ASSUME NEW j \in Holding, NEW k \in Archivers \ {j}
        PROVE  k \in unread'[j] \/ Patient(k)'
    <3>1. k \in unread[j] \/ Patient(k)
      BY <2>4 DEF Respected
    <3>2. ~Patient(i)
      BY <1>5 DEF Patient
    <3> QED
      BY <2>1, <2>2, <2>3, <3>1, <3>2 DEF Holding
  <2>5. ASSUME NEW k \in Archivers \ {i}
        PROVE  k \in unread'[i] \/ Patient(k)'
    BY <2>1 DEF Present, Patient
  <2> QED
    BY <1>4, <2>2, <2>4, <2>5 DEF Respected
<1>6. CASE pc[i] # "obtain"
  <2>1. UNCHANGED <<pc, timer, unread>> /\ Holding' = Holding
    BY <1>6 DEF Write, Holding
  <2>2. \A j \in Archivers : Patient(j) => Patient(j)'
    BY <1>2, <2>1 DEF Patient
  <2> QED
    BY <1>4, <2>1, <2>2 DEF Respected, Holding
<1> QED
  BY <1>5, <1>6

\* When its ticker fires, the holder's last stamp is an interval old, or not
\* much older.
LEMMA RenewStep ==
  ASSUME TypeInv, Respected, NEW i \in Archivers, Renew(i)
  PROVE  Respected'
<1>1. /\ i \in Holding /\ ~writing[i] /\ timer[i] = LockUpdateInterval
      /\ UNCHANGED <<lockfile, pc, seen, unread>> /\ Holding' = Holding
  BY DEF Renew, Holding
<1>2. \A j \in Archivers :
        /\ writing'[j] = IF j = i THEN TRUE ELSE writing[j]
        /\ stamp'[j] = IF j = i THEN 0 ELSE stamp[j]
        /\ timer'[j] = IF j = i THEN 0 ELSE timer[j]
  BY DEF Renew, TypeInv, TypeOK
<1>3. Young(i)'
  <2>1. lockfile.age \in Nat
    BY AgesGrow DEF TypeInv, TypeOK, Lockfiles
  <2>2. lockfile.holder # NoOne /\ lockfile.age <= LockUpdateInterval + MaxDelay
    BY <1>1 DEF Respected, Young
  <2>3. writing'[i]
    BY DEF Renew, TypeInv, TypeOK
  <2>4. stamp'[i] = 0 /\ timer'[i] = 0 /\ UNCHANGED lockfile
    BY <1>1, <1>2
  <2>5. lockfile.age <= LockUpdateInterval + MaxDelay + 0
    BY <2>1, <2>2, TimesAreNumbers
  <2> QED
    BY <2>2, <2>3, <2>4, <2>5 DEF Young
<1>4. \A j \in Holding \ {i} : Young(j)'
  BY <1>1, <1>2 DEF Respected, Young, Holding
<1>5. \A j \in Archivers : Patient(j) => Patient(j)'
  BY <1>1, <1>2 DEF Patient, Holding
<1> QED
  BY <1>1, <1>3, <1>4, <1>5 DEF Respected

\* Time passes for the stamps and for the timers alike.
LEMMA TickStep ==
  ASSUME TypeInv, Respected, Tick, LockUpdateInterval < LockTimeout
  PROVE  Respected'
<1>1. /\ lockfile.age \in Ages
      /\ \A j \in Archivers : /\ seen[j] \in Lockfiles /\ seen[j].age \in Ages
                              /\ timer[j] \in Nat
                              /\ stamp[j] \in 0 .. MaxDelay
  BY DEF TypeInv, TypeOK, Lockfiles
<1>2. /\ pc' = pc /\ writing' = writing /\ unread' = unread /\ Holding' = Holding
      /\ lockfile'.holder = lockfile.holder /\ lockfile'.age = Older(lockfile.age)
      /\ \A j \in Archivers :
           /\ seen'[j].holder = seen[j].holder /\ seen'[j].age = Older(seen[j].age)
           /\ timer'[j] = IF pc[j] \in Timed THEN timer[j] + 1 ELSE timer[j]
           /\ stamp'[j] = IF writing[j] THEN Older(stamp[j]) ELSE stamp[j]
           /\ writing[j] => stamp[j] < MaxDelay
  <2>1. lockfile \in Lockfiles
    BY DEF TypeInv, TypeOK
  <2> QED
    BY <1>1, <2>1 DEF Tick, OnTime, Lockfiles, Holding
<1>3. \A j \in Archivers : writing[j] => Older(stamp[j]) = stamp[j] + 1
  BY <1>1, <1>2, TimesAreNumbers, AgesGrow DEF TypeInv
<1>4. ASSUME NEW i \in Holding
      PROVE  Young(i)'
  <2>1. i \in Archivers /\ timer'[i] = timer[i] + 1 /\ Young(i)
    BY <1>2, <1>4 DEF Holding, Timed, Respected
  <2>2. Older(lockfile.age) <= lockfile.age + 1 /\ Older(lockfile.age) \in Nat /\ lockfile.age \in Nat
    BY <1>1, AgesGrow
  <2> QED
    BY <1>1, <1>2, <1>3, <2>1, <2>2, TimesAreNumbers DEF Young
<1>5. ASSUME NEW j \in Archivers, Patient(j)
      PROVE  Patient(j)'
  <2>1. pc[j] = "decide" => timer'[j] = timer[j] + 1
    BY <1>2 DEF Timed
  <2>2. Older(seen[j].age) <= seen[j].age + 1 /\ Older(seen[j].age) \in Nat /\ seen[j].age \in Nat
    BY <1>1, AgesGrow
  <2> QED
    BY <1>1, <1>2, <1>5, <2>1, <2>2, TimesAreNumbers DEF Patient
<1> QED
  BY <1>2, <1>4, <1>5 DEF Respected, Holding

LEMMA StepRespected ==
  ASSUME LockUpdateInterval + 3 * MaxDelay + MaxSkew < LockTimeout,
         TypeInv, LockInv, [Next]_vars, failures' = 0
  PROVE  Respected'
<1>1. /\ failures = 0 /\ Respected
      /\ pc \in [Archivers -> Labels]
      /\ seen \in [Archivers -> Lockfiles]
      /\ writing \in [Archivers -> BOOLEAN]
      /\ stamp \in [Archivers -> 0 .. MaxDelay]
      /\ timer \in [Archivers -> Nat]
  <2>1. failures = 0
    BY DEF Next, Step, Arrive, ReadLockfile, DecideToObtain, DecideToSleep, Wake, Write, Renew,
           RenewFails, End, Tick, vars, TypeInv, TypeOK
  <2> QED
    BY <2>1 DEF LockInv, TypeInv, TypeOK, Labels
<1>2. ASSUME NEW i \in Archivers, Arrive(i) \/ DecideToSleep(i) \/ Wake(i)
      PROVE  Respected'
  <2>1. PICK label \in {"read", "sleep"} : GoTo(i, label)
    BY <1>2 DEF Arrive, DecideToSleep, Wake
  <2>2. Patient(i)'
    BY <1>1, <2>1 DEF Patient, GoTo
  <2>3. UNCHANGED unread
    BY <1>2 DEF Arrive, DecideToSleep, Wake
  <2> QED
    BY <1>1, <1>2, <2>1, <2>2, <2>3, BystanderStep
    DEF Arrive, DecideToSleep, Wake, LockInv, Holding, Labels
\* What is read while the lock is held is young.
<1>3. ASSUME NEW i \in Archivers, ReadLockfile(i)
      PROVE  Respected'
  <2>1. ASSUME NEW j \in Holding
        PROVE  Patient(i)'
    <3>1. /\ pc'[i] = "decide" /\ timer'[i] = 0 /\ seen'[i] = lockfile
          /\ lockfile.holder # i
      BY <1>1, <1>3 DEF ReadLockfile, GoTo, LockInv, NotYetWritten, TypeInv
    <3>2. j \in Archivers /\ Young(j) /\ timer[j] \in 0 .. LockUpdateInterval
      BY <1>1 DEF Respected, Holding, TypeInv, TypeOK, Limit
    <3>3. lockfile.age \in Nat
      BY AgesGrow DEF TypeInv, TypeOK, Lockfiles
    <3>4. lockfile.age <= LockUpdateInterval + 2 * MaxDelay
      BY <1>1, <3>2, <3>3, TimesAreNumbers DEF Young
    <3> QED
      BY <3>1, <3>2, <3>4, TimesAreNumbers DEF Patient, Young
  <2>2. \A j \in Archivers, k \in Archivers \ {i} : k \in unread[j] => k \in unread'[j]
    BY <1>3 DEF ReadLockfile
  <2> QED
    BY <1>1, <1>3, <2>1, <2>2, BystanderStep DEF ReadLockfile, LockInv, Holding, Labels
\* What was read while the lock was held is not free when it is decided upon.
<1>4. ASSUME NEW i \in Archivers, DecideToObtain(i)
      PROVE  Respected'
  <2>1. ASSUME NEW j \in Holding, i \notin unread[j]
        PROVE  FALSE
    <3>1. pc[i] = "decide" /\ Patient(i) /\ timer[i] \in 0 .. MaxDelay
      BY <1>1, <1>4, <2>1 DEF DecideToObtain, Respected, Holding, TypeInv, TypeOK, Limit
    <3>2. seen[i].age \in Nat
      BY <1>1, AgesGrow DEF Lockfiles
    <3>3. seen[i].age + MaxSkew < LockTimeout
      BY <3>1, <3>2, TimesAreNumbers DEF Patient
    <3>4. PICK age \in Computed(seen[i].age) : Free(seen[i].holder, age, i)
      BY <1>4 DEF DecideToObtain
    <3>5. age < LockTimeout
      BY <3>2, <3>3, TimesAreNumbers DEF Computed
    <3> QED
      BY <3>1, <3>2, <3>4, <3>5, TimesAreNumbers DEF Free, Patient, Computed
  <2>2. UNCHANGED unread
    BY <1>4 DEF DecideToObtain
  <2> QED
    BY <1>1, <1>4, <2>1, <2>2, BystanderStep DEF DecideToObtain, LockInv, Holding, Labels
<1>5. ASSUME NEW i \in Archivers, End(i)
      PROVE  Respected'
  <2>1. \A j \in Archivers : /\ pc'[j] = IF j = i THEN "ended" ELSE pc[j]
                             /\ j # i => /\ timer'[j] = timer[j]
                                         /\ writing'[j] = writing[j]
                                         /\ seen'[j] = seen[j]
    BY <1>1, <1>5 DEF End, GoTo, TypeInv
  <2>2. UNCHANGED <<lockfile, stamp>> /\ Holding' = Holding \ {i}
    BY <1>5, <2>1 DEF End, Holding
  <2>3. \A j \in Archivers \ {i} : /\ Young(j) => Young(j)'
                                   /\ Patient(j) => Patient(j)'
    BY <2>1, <2>2 DEF Young, Patient
  <2>4. Patient(i)'
    BY <2>1 DEF Patient
  <2>5. \A j \in Archivers \ {i} : unread'[j] = unread[j] \ {i}
    BY <1>5 DEF End
  <2> QED
    BY <1>1, <2>2, <2>3, <2>4, <2>5 DEF Respected, Holding
<1>6. ASSUME NEW i \in Archivers, RenewFails(i)
      PROVE  FALSE
  BY <1>1, <1>6 DEF RenewFails
<1>7. CASE Tick
  <2>1. LockUpdateInterval < LockTimeout
    BY TimesAreNumbers
  <2> QED
    BY <1>1, <1>7, <2>1, TickStep
<1>8. CASE UNCHANGED vars
  BY <1>1, <1>8 DEF vars, Respected, Young, Patient, Holding
<1> QED
  BY <1>1, <1>2, <1>3, <1>4, <1>5, <1>6, <1>7, <1>8, WriteStep, RenewStep DEF Next, Step

LEMMA StepLock ==
  ASSUME LockUpdateInterval + 3 * MaxDelay + MaxSkew < LockTimeout,
         TypeInv, LockInv, [Next]_vars
  PROVE  LockInv'
<1>1. NotYetWritten'
  <2> SUFFICES ASSUME NEW j \in Archivers, (pc[j] \in {"new", "read", "decide", "sleep"})'
               PROVE  ~writing'[j] /\ lockfile'.holder # j
    BY DEF NotYetWritten
  <2>1. pc[j] \in {"new", "read", "decide", "sleep"} /\ ~writing[j] /\ lockfile.holder # j
    BY DEF Next, Step, Arrive, ReadLockfile, DecideToObtain, DecideToSleep, Wake, Write, Renew,
           RenewFails, End, Tick, vars, GoTo, TypeInv, TypeOK, LockInv, NotYetWritten
  <2>2. pc \in [Archivers -> Labels] /\ writing \in [Archivers -> BOOLEAN]
    BY DEF TypeInv, TypeOK, Labels
  <2>3. ASSUME NEW i \in Archivers, Write(i)
        PROVE  ~writing'[j] /\ lockfile'.holder # j
    BY <2>1, <2>2, <2>3 DEF Write
  <2>4. ASSUME NEW i \in Archivers, DecideToObtain(i)
        PROVE  ~writing'[j] /\ lockfile'.holder # j
    <3>1. j # i
      BY <2>2, <2>4 DEF DecideToObtain, GoTo
    <3> QED
      BY <2>1, <2>2, <2>4, <3>1 DEF DecideToObtain
  <2>5. ASSUME NEW i \in Archivers,
               \/ Arrive(i) \/ ReadLockfile(i) \/ DecideToSleep(i) \/ Wake(i)
               \/ Renew(i) \/ RenewFails(i) \/ End(i)
        PROVE  ~writing'[j] /\ lockfile'.holder # j
    BY <2>1, <2>2, <2>5
    DEF Arrive, ReadLockfile, DecideToSleep, Wake, Renew, RenewFails, End
  <2>6. CASE Tick \/ UNCHANGED vars
    BY <2>1, <2>6 DEF Tick, vars, TypeInv, TypeOK, Lockfiles
  <2> QED
    BY <2>3, <2>4, <2>5, <2>6 DEF Next, Step
<1> QED
  BY <1>1, StepRespected DEF LockInv

\* An archiver keeps the lock while renewals succeed, however many wait for it, if a
\* stamp expires later than the slowest of renewals can be seen by any clock: its
\* interval, the delay of the stamp before it, its own delay, and that of the reader.
THEOREM LockIsRetained ==
  ASSUME LockUpdateInterval + 3 * MaxDelay + MaxSkew < LockTimeout
  PROVE  Spec => []RetainedWhileRenewed
<1>1. Init => LockInv
  BY ArchiversAssumption DEF Init, LockInv, NotYetWritten, Respected, Holding, Empty
<1>2. TypeInv /\ LockInv /\ [Next]_vars => LockInv'
  BY StepLock
<1>3. LockInv => RetainedWhileRenewed
  BY DEF LockInv, Respected, Patient, Holding, RetainedWhileRenewed, Retained
<1> QED
  BY <1>1, <1>2, <1>3, InitTypeInv, StepTypeInv, PTL DEF Spec
=============================================================================
