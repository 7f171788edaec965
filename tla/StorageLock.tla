---------------------------- MODULE StorageLock ----------------------------
(***************************************************************************)
(* The storage lock that archivers sharing a data store use to take turns  *)
(* (waitObtainStorageLock): a lockfile with the id of the archiver that    *)
(* holds the lock and the time it last said so.  A starting archiver waits *)
(* until that time is LockTimeout old, writes its own id, and from then on *)
(* renews the time every LockUpdateInterval.  The lockfile is read and     *)
(* written by separate requests, and nothing is compared when writing.     *)
(*                                                                         *)
(* Only how old a time stamp is matters to the code, so the model keeps    *)
(* ages and no clock.  Stamps are whole seconds, and each is read by the   *)
(* clock of another host than the one that set it: the age that a reader   *)
(* computes is the true one, give or take MaxSkew.  An archiver is one     *)
(* process: the id is drawn anew by every process, which therefore starts  *)
(* once.                                                                   *)
(***************************************************************************)
EXTENDS Integers, FiniteSets

CONSTANTS
  Archivers,                \* the processes, each with its id
  NoOne,                    \* the holder in the empty lockfile
  LockTimeout,              \* 20 seconds in the code
  LockUpdateInterval,       \* 10 seconds in the code
  ObtainLockRetryInterval,  \* 10 seconds in the code
  MaxDelay,                 \* bound on the time from a read of the lockfile to
                            \* the decision, and from a time stamp to its write
  MaxSkew,                  \* bound on the error of a computed age: the seconds
                            \* cut off, and the difference of two hosts' clocks
  MaxFailures               \* bound on the renewals that fail

ASSUME ArchiversAssumption == NoOne \notin Archivers

ASSUME TimesAssumption ==
  /\ LockTimeout \in Nat \ {0}
  /\ LockUpdateInterval \in Nat \ {0}
  /\ ObtainLockRetryInterval \in Nat \ {0}
  /\ MaxDelay \in Nat /\ MaxDelay < LockUpdateInterval
  /\ MaxSkew \in Nat
  /\ MaxFailures \in Nat

VARIABLES
  lockfile,  \* the lockfile: its holder and the age of its time stamp
  pc,        \* where each process is
  seen,      \* seen[i]: the lockfile as i last read it
  timer,     \* timer[i]: time since i read, fell asleep, or its ticker fired
  writing,   \* writing[i]: is a lockfile of i's on its way to the store?
  stamp,     \* stamp[i]: the age of its time stamp
  failures,  \* renewals failed so far
  unread     \* history: unread[i] is the processes that have not read the
             \* lockfile since i came to hold the lock

vars == <<lockfile, pc, seen, timer, writing, stamp, failures, unread>>

\* From the last of the ages on, every reader takes a stamp for expired.
Oldest    == LockTimeout + MaxSkew
Ages      == 0 .. Oldest
Lockfiles == [holder : Archivers \cup {NoOne}, age : Ages]
Empty     == [holder |-> NoOne, age |-> Oldest]

Older(age) == IF age < Oldest THEN age + 1 ELSE age

\* Sleeps and tickers end on time, and no request takes longer than MaxDelay.
Limit(label) ==
  CASE label = "sleep"  -> ObtainLockRetryInterval
    [] label = "hold"   -> LockUpdateInterval
    [] label = "decide" -> MaxDelay
    [] OTHER            -> 0

\* Where a process is while its time runs.
Timed == {"sleep", "hold", "decide"}

Waiting == {i \in Archivers : pc[i] \in {"read", "decide", "sleep", "obtain"}}
Holding == {i \in Archivers : pc[i] = "hold"}
Present == {i \in Archivers : pc[i] # "ended"}

TypeOK ==
  /\ lockfile \in Lockfiles
  /\ pc \in [Archivers -> {"new", "read", "decide", "sleep", "obtain", "hold", "ended"}]
  /\ seen \in [Archivers -> Lockfiles]
  /\ \A i \in Archivers : timer[i] \in 0 .. Limit(pc[i])
  /\ writing \in [Archivers -> BOOLEAN]
  /\ stamp \in [Archivers -> 0 .. MaxDelay]
  /\ failures \in 0 .. MaxFailures
  /\ unread \in [Archivers -> SUBSET Archivers]

Init ==
  /\ lockfile = Empty
  /\ pc = [i \in Archivers |-> "new"]
  /\ seen = [i \in Archivers |-> Empty]
  /\ timer = [i \in Archivers |-> 0]
  /\ writing = [i \in Archivers |-> FALSE]
  /\ stamp = [i \in Archivers |-> 0]
  /\ failures = 0
  /\ unread = [i \in Archivers |-> {}]

----------------------------------------------------------------------------

GoTo(i, label) ==
  /\ pc' = [pc EXCEPT ![i] = label]
  /\ timer' = [timer EXCEPT ![i] = 0]

\* The process has seeded the store and comes to waitObtainStorageLock.
Arrive(i) ==
  /\ pc[i] = "new"
  /\ GoTo(i, "read")
  /\ UNCHANGED <<lockfile, seen, writing, stamp, failures, unread>>

ReadLockfile(i) ==
  /\ pc[i] = "read"
  /\ seen' = [seen EXCEPT ![i] = lockfile]
  /\ GoTo(i, "decide")
  /\ unread' = [j \in Archivers |-> unread[j] \ {i}]
  /\ UNCHANGED <<lockfile, writing, stamp, failures>>

\* What the reader's clock may make of the age of a stamp.
Computed(age) == (age - MaxSkew) .. (age + MaxSkew)

\* Variant, to be told apart: a lock whose holder is gone is never free.
FreeIfEmpty(holder, age, i) == holder \in {NoOne, i}

\* Variant, to be told apart: a lock expires when its renewal is due.
FreeIfDue(holder, age, i) == holder \in {NoOne, i} \/ age >= LockUpdateInterval

\* The lock is free for i: nobody's, its own, or expired by i's clock.
Free(holder, age, i) == holder \in {NoOne, i} \/ age >= LockTimeout

\* The time stamp to be written is the present time, as used for the decision.
DecideToObtain(i) ==
  /\ pc[i] = "decide"
  /\ \E age \in Computed(seen[i].age) : Free(seen[i].holder, age, i)
  /\ writing' = [writing EXCEPT ![i] = TRUE]
  /\ stamp' = [stamp EXCEPT ![i] = 0]
  /\ seen' = [seen EXCEPT ![i] = Empty]
  /\ GoTo(i, "obtain")
  /\ UNCHANGED <<lockfile, failures, unread>>

DecideToSleep(i) ==
  /\ pc[i] = "decide"
  /\ \E age \in Computed(seen[i].age) : ~Free(seen[i].holder, age, i)
  /\ seen' = [seen EXCEPT ![i] = Empty]
  /\ GoTo(i, "sleep")
  /\ UNCHANGED <<lockfile, writing, stamp, failures, unread>>

\* After the sleep the lockfile is read again.
Wake(i) ==
  /\ pc[i] = "sleep"
  /\ timer[i] = ObtainLockRetryInterval
  /\ GoTo(i, "read")
  /\ UNCHANGED <<lockfile, seen, writing, stamp, failures, unread>>

\* A lockfile on its way replaces the one in the store; it arrives even when
\* the process that sent it has ended.
Write(i) ==
  /\ writing[i]
  /\ lockfile' = [holder |-> i, age |-> stamp[i]]
  /\ writing' = [writing EXCEPT ![i] = FALSE]
  /\ stamp' = [stamp EXCEPT ![i] = 0]
  /\ IF pc[i] = "obtain"
     THEN GoTo(i, "hold") /\ unread' = [unread EXCEPT ![i] = Present \ {i}]
     ELSE UNCHANGED <<pc, timer, unread>>
  /\ UNCHANGED <<seen, failures>>

\* The ticker fires: the present time is taken and sent to the store.
Renew(i) ==
  /\ pc[i] = "hold"
  /\ ~writing[i]
  /\ timer[i] = LockUpdateInterval
  /\ writing' = [writing EXCEPT ![i] = TRUE]
  /\ stamp' = [stamp EXCEPT ![i] = 0]
  /\ timer' = [timer EXCEPT ![i] = 0]
  /\ UNCHANGED <<lockfile, pc, seen, failures, unread>>

\* A renewal that fails is logged, and the archiver goes on.
RenewFails(i) ==
  /\ pc[i] = "hold"
  /\ writing[i]
  /\ failures < MaxFailures
  /\ failures' = failures + 1
  /\ writing' = [writing EXCEPT ![i] = FALSE]
  /\ stamp' = [stamp EXCEPT ![i] = 0]
  /\ UNCHANGED <<lockfile, pc, seen, timer, unread>>

\* The process ends: a crash, a stop, or the log.Crit that follows when the
\* lockfile cannot be read or first written.  A write under way may be lost.
End(i) ==
  /\ pc[i] \notin {"new", "ended"}
  /\ GoTo(i, "ended")
  /\ \E sent \in BOOLEAN : writing' = [writing EXCEPT ![i] = @ /\ sent]
  /\ seen' = [seen EXCEPT ![i] = Empty]
  /\ unread' = [j \in Archivers |-> IF j = i THEN {} ELSE unread[j] \ {i}]
  /\ UNCHANGED <<lockfile, stamp, failures>>

\* Variant, to be told apart: nothing waits for a write to arrive.
AnyTime(i) == timer[i] < Limit(pc[i]) \/ pc[i] \notin Timed

\* i has nothing to do before the next unit of time is over.
OnTime(i) ==
  /\ timer[i] < Limit(pc[i]) \/ pc[i] \notin Timed
  /\ writing[i] => stamp[i] < MaxDelay

\* Time passes, up to the next moment at which a process has something to do.
Tick ==
  /\ \A i \in Archivers : OnTime(i)
  /\ lockfile' = [lockfile EXCEPT !.age = Older(@)]
  /\ seen' = [i \in Archivers |-> [seen[i] EXCEPT !.age = Older(@)]]
  /\ timer' = [i \in Archivers |-> IF pc[i] \in Timed THEN timer[i] + 1 ELSE timer[i]]
  /\ stamp' = [i \in Archivers |-> IF writing[i] THEN Older(stamp[i]) ELSE stamp[i]]
  /\ UNCHANGED <<pc, writing, failures, unread>>

----------------------------------------------------------------------------

Step(i) ==
  \/ ReadLockfile(i) \/ DecideToObtain(i) \/ DecideToSleep(i) \/ Wake(i)
  \/ Write(i) \/ Renew(i)

Next ==
  \/ \E i \in Archivers : Step(i) \/ Arrive(i) \/ RenewFails(i) \/ End(i)
  \/ Tick

\* Requests are answered, tickers tick and time passes; nobody has to start,
\* and requests need not fail.
Spec ==
  /\ Init
  /\ [][Next]_vars
  /\ WF_vars(Tick)
  /\ \A i \in Archivers : WF_vars(Step(i))

\* "Retain storage lock by continually updating the stored timestamp": who has the
\* lock, and runs, keeps it from everyone who reads the lockfile meanwhile.  (Two that
\* had both read the lockfile before either had the lock may both take it: reading,
\* deciding and writing are separate steps, and nothing is compared.)  Nothing makes
\* an archiver that was overtaken stop: it goes on archiving and renewing.
Retained == \A i, j \in Holding : i # j => j \in unread[i]

\* The lock is retained as long as renewals succeed, whoever crashes and however many
\* wait: no stamp that comes late, and no clock that differs, makes it expire.
RetainedWhileRenewed == failures = 0 => Retained

\* Turns are taken: an archiver that waits gets the lock, unless it ends or
\* another one has it; a lock whose holder crashed is not lost.
Succession ==
  \A i \in Archivers : i \in Waiting ~> Holding # {} \/ pc[i] = "ended"

=============================================================================
