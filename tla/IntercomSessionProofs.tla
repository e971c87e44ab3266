----------------------- MODULE IntercomSessionProofs ------------------------
(***************************************************************************)
(* Proofs about the two things an intercom session does outside a broker:  *)
(* it brings the broker up (IntercomSpawn), for any number of sessions and *)
(* brokers, killed at any step, and it surfaces what it receives           *)
(* (IntercomInbound), for any number of messages, notices, failures,       *)
(* turns and generations.                                                  *)
(***************************************************************************)
EXTENDS IntercomSpawn, IntercomInbound, FiniteSetTheorems, SequenceTheorems, TLAPS

(***************************************************************************)
(* 1. Spawning: what the spawn lock does promise.                          *)
(***************************************************************************)

\* The sessions that own a lock are where the code can own one, and those that
\* write into one are not owners yet.
OwnersWork ==
  \A p \in Procs :
    own[p] => at[p] \in {"probe", "pid", "reprobe", "spawn", "await", "release", "abandon"}

\* Who is joined to a broker knows which.
JoinedToOne == \A p \in Procs : at[p] = "joined" => on[p] \in Brokers

\* What a session is about to write into is still empty.
WritesOnce == \A p \in Procs : at[p] = "write" /\ lock.by = p => ~lock.written

\* Without a robbery the lock on the disk is its owner's.
OwnersHold == ~robbed => \A p \in Owners : lock.by = p

SpawnInv == SpawnTypeOK /\ JoinedToOne /\ OwnersWork /\ WritesOnce /\ LockHasOwner /\ OwnersHold

-----------------------------------------------------------------------------
LEMMA SpawnInitInv == SpawnInit => SpawnInv
<1> SUFFICES ASSUME SpawnInit PROVE SpawnInv
  OBVIOUS
<1>1. SpawnTypeOK
  <2>1. lock \in [by : Procs \cup {None}, written : BOOLEAN]
    BY DEF SpawnInit, NoLock
  <2>2. 0 \in 0..MaxTries /\ 0 \in 0..MaxStarts
    BY SpawnAssumption
  <2> QED BY <2>1, <2>2 DEF SpawnInit, SpawnTypeOK
<1>2. OwnersWork /\ WritesOnce /\ JoinedToOne /\ Owners = {}
  BY DEF SpawnInit, OwnersWork, WritesOnce, JoinedToOne, Owners
<1>3. LockHasOwner
  BY DEF SpawnInit, LockHasOwner, NoLock
<1> QED BY <1>1, <1>2, <1>3 DEF SpawnInv, OwnersHold

\* The variables have the values the steps give them.
LEMMA SpawnTypeStep == SpawnTypeOK /\ JoinedToOne /\ [SpawnNext]_spawnVars => SpawnTypeOK'
<1> SUFFICES ASSUME SpawnTypeOK, JoinedToOne, [SpawnNext]_spawnVars PROVE SpawnTypeOK'
  OBVIOUS
<1> USE SpawnAssumption
<1>1. ASSUME NEW p \in Procs, Start(p) \/ Probe(p) \/ ReadPid(p) \/ Reprobe(p) \/ Waited(p)
      PROVE  SpawnTypeOK'
  BY <1>1 DEF SpawnTypeOK, files, brokers, Goes, Found, NotFound, Start, Probe, ReadPid, Reprobe,
              Waited
<1>2. ASSUME NEW p \in Procs, CreateLock(p) PROVE SpawnTypeOK'
  <2>1. tries[p] + 1 \in 0..MaxTries
    BY <1>2 DEF SpawnTypeOK, CreateLock
  <2>2. lock' \in [by : Procs \cup {None}, written : BOOLEAN]
    <3>1. lock' = [by |-> p, written |-> FALSE] \/ lock' = lock
      BY <1>2 DEF CreateLock
    <3>2. lock \in [by : Procs \cup {None}, written : BOOLEAN]
      BY DEF SpawnTypeOK
    <3>3. [by |-> p, written |-> FALSE] \in [by : Procs \cup {None}, written : BOOLEAN]
      OBVIOUS
    <3> QED BY <3>1, <3>2, <3>3
  <2>3. \/ at' = [at EXCEPT ![p] = "write"]
        \/ at' = [at EXCEPT ![p] = "exists"]
    BY <1>2 DEF Goes, CreateLock
  <2>4. UNCHANGED <<own, starts, child, on, sock, pidf, br, used, robbed>>
        /\ tries' = [tries EXCEPT ![p] = @ + 1]
    BY <1>2 DEF brokers, CreateLock
  <2> QED BY <2>1, <2>2, <2>3, <2>4 DEF SpawnTypeOK
<1>3. ASSUME NEW p \in Procs, GivesUp(p) PROVE SpawnTypeOK'
  BY <1>3 DEF SpawnTypeOK, files, brokers, Goes, GivesUp
<1>4. ASSUME NEW p \in Procs, WriteLock(p) PROVE SpawnTypeOK'
  <2>1. lock' \in [by : Procs \cup {None}, written : BOOLEAN]
    BY <1>4 DEF SpawnTypeOK, WriteLock
  <2>2. tries' \in [Procs -> 0..MaxTries]
    BY <1>4 DEF SpawnTypeOK, WriteLock
  <2> QED BY <1>4, <2>1, <2>2 DEF SpawnTypeOK, brokers, Goes, WriteLock
<1>5. ASSUME NEW p \in Procs, WriteFails(p) PROVE SpawnTypeOK'
  BY <1>5 DEF SpawnTypeOK, files, brokers, Goes, WriteFails
<1>6. ASSUME NEW p \in Procs, LockExists(p) PROVE SpawnTypeOK'
  BY <1>6 DEF SpawnTypeOK, files, brokers, Goes, LockExists, NoLock, NotStale
<1>7. ASSUME NEW p \in Procs, ReadLock(p) PROVE SpawnTypeOK'
  BY <1>7 DEF SpawnTypeOK, files, brokers, Goes, ReadLock, NotStale
<1>8. ASSUME NEW p \in Procs, Unlink(p) PROVE SpawnTypeOK'
  BY <1>8 DEF SpawnTypeOK, files, brokers, Goes, Unlink, NoLock
<1>9. ASSUME NEW p \in Procs, Release(p) PROVE SpawnTypeOK'
  BY <1>9 DEF SpawnTypeOK, files, brokers, Goes, Release, NoLock
<1>10. ASSUME NEW p \in Procs, Spawn(p) PROVE SpawnTypeOK'
  BY <1>10 DEF SpawnTypeOK, files, brokers, Goes, Spawn
<1>11. ASSUME NEW p \in Procs, ChildExits(p) PROVE SpawnTypeOK'
  BY <1>11 DEF SpawnTypeOK, files, brokers, Goes, ChildExits
<1>12. ASSUME NEW p \in Procs, WaitTimeout(p) PROVE SpawnTypeOK'
  BY <1>12 DEF SpawnTypeOK, files, brokers, Goes, WaitTimeout
<1>13. ASSUME NEW p \in Procs, Connect(p) PROVE SpawnTypeOK'
  BY <1>13 DEF SpawnTypeOK, files, brokers, Goes, Connect, Connectable
<1>14. ASSUME NEW p \in Procs, Leave(p) PROVE SpawnTypeOK'
  BY <1>14 DEF SpawnTypeOK, JoinedToOne, files, Goes, Leave
<1>15. ASSUME NEW p \in Procs, Dies(p) PROVE SpawnTypeOK'
  BY <1>15 DEF SpawnTypeOK, files, brokers, Goes, Dies
<1>16. ASSUME NEW b \in Brokers, BrokerStep(b) \/ BrokerQuits(b) \/ BrokerDies(b)
      PROVE  SpawnTypeOK'
  BY <1>16 DEF SpawnTypeOK, sessions, files, BrokerStep, BrokerUnlinks, BrokerBinds,
              BrokerWritesPid, BrokerExits, BrokerQuits, BrokerDies
<1>17. CASE UNCHANGED spawnVars
  BY <1>17 DEF SpawnTypeOK, spawnVars, files, brokers
<1> QED BY <1>1, <1>2, <1>3, <1>4, <1>5, <1>6, <1>7, <1>8, <1>9, <1>10, <1>11, <1>12, <1>13, <1>14, <1>15, <1>16, <1>17
  DEF SpawnNext, ProcStep

\* One session moves at a time, and a broker's step moves none.
LEMMA JoinedStep == SpawnTypeOK /\ JoinedToOne /\ [SpawnNext]_spawnVars => JoinedToOne'
<1> SUFFICES ASSUME SpawnTypeOK, JoinedToOne, [SpawnNext]_spawnVars PROVE JoinedToOne'
  OBVIOUS
<1>1. ASSUME NEW p \in Procs, Connect(p) PROVE JoinedToOne'
  BY <1>1 DEF SpawnTypeOK, JoinedToOne, Goes, Connect, Connectable
<1>2. ASSUME NEW p \in Procs, Start(p) \/ Probe(p) \/ ReadPid(p) \/ Reprobe(p) \/ Waited(p)
      PROVE  JoinedToOne'
  BY <1>2 DEF SpawnTypeOK, JoinedToOne, files, brokers, Goes, Found, NotFound, Start, Probe,
              ReadPid, Reprobe, Waited
<1>3. ASSUME NEW p \in Procs, CreateLock(p) \/ GivesUp(p) \/ WriteLock(p) \/ WriteFails(p)
                                \/ LockExists(p) \/ ReadLock(p) \/ Unlink(p) \/ Release(p)
      PROVE  JoinedToOne'
  BY <1>3 DEF SpawnTypeOK, JoinedToOne, files, brokers, Goes, NotStale, CreateLock, GivesUp,
              WriteLock, WriteFails, LockExists, ReadLock, Unlink, Release
<1>4. ASSUME NEW p \in Procs, Spawn(p) \/ ChildExits(p) \/ WaitTimeout(p) \/ Leave(p) \/ Dies(p)
      PROVE  JoinedToOne'
  BY <1>4 DEF SpawnTypeOK, JoinedToOne, files, brokers, Goes, Spawn, ChildExits, WaitTimeout,
              Leave, Dies
<1>5. ASSUME NEW b \in Brokers, BrokerStep(b) \/ BrokerQuits(b) \/ BrokerDies(b)
      PROVE  JoinedToOne'
  BY <1>5 DEF JoinedToOne, sessions, BrokerStep, BrokerUnlinks, BrokerBinds, BrokerWritesPid,
              BrokerExits, BrokerQuits, BrokerDies
<1>6. CASE UNCHANGED spawnVars
  BY <1>6 DEF JoinedToOne, spawnVars
<1> QED BY <1>1, <1>2, <1>3, <1>4, <1>5, <1>6 DEF SpawnNext, ProcStep

\* A session owns a lock from the write to the release.
LEMMA OwnersWorkStep == SpawnInv /\ [SpawnNext]_spawnVars => OwnersWork'
<1> SUFFICES ASSUME SpawnInv, [SpawnNext]_spawnVars PROVE OwnersWork'
  OBVIOUS
<1>a. SpawnTypeOK /\ OwnersWork
  BY DEF SpawnInv
<1>1. ASSUME NEW p \in Procs, Start(p) \/ Probe(p) \/ ReadPid(p) \/ Reprobe(p) \/ Waited(p)
      PROVE  OwnersWork'
  BY <1>a, <1>1, SpawnAssumption
    DEF SpawnTypeOK, OwnersWork, files, brokers, Goes, Found, NotFound, Start, Probe, ReadPid,
        Reprobe, Waited
<1>2. ASSUME NEW p \in Procs, CreateLock(p) \/ GivesUp(p) \/ LockExists(p) \/ ReadLock(p)
      PROVE  OwnersWork'
  BY <1>a, <1>2, SpawnAssumption
    DEF SpawnTypeOK, OwnersWork, files, brokers, Goes, NoLock, NotStale, CreateLock, GivesUp,
        LockExists, ReadLock
<1>3. ASSUME NEW p \in Procs, WriteLock(p) \/ WriteFails(p)
      PROVE  OwnersWork'
  BY <1>a, <1>3, SpawnAssumption
    DEF SpawnTypeOK, OwnersWork, files, brokers, Goes, WriteLock, WriteFails
<1>4. ASSUME NEW p \in Procs, Unlink(p) \/ Release(p)
      PROVE  OwnersWork'
  BY <1>a, <1>4, SpawnAssumption
    DEF SpawnTypeOK, OwnersWork, brokers, Goes, NoLock, Unlink, Release
<1>5. ASSUME NEW p \in Procs, Spawn(p) \/ ChildExits(p) \/ WaitTimeout(p) \/ Connect(p) \/ Leave(p) \/ Dies(p)
      PROVE  OwnersWork'
  BY <1>a, <1>5, SpawnAssumption
    DEF SpawnTypeOK, OwnersWork, files, brokers, Goes, Spawn, ChildExits, WaitTimeout, Connect,
        Leave, Dies
<1>6. ASSUME NEW b \in Brokers, BrokerStep(b) \/ BrokerQuits(b) \/ BrokerDies(b)
      PROVE  OwnersWork'
  BY <1>a, <1>6
    DEF SpawnTypeOK, OwnersWork, sessions, files, BrokerStep, BrokerUnlinks, BrokerBinds,
        BrokerWritesPid,
              BrokerExits, BrokerQuits, BrokerDies
<1>7. CASE UNCHANGED spawnVars
  BY <1>a, <1>7 DEF SpawnTypeOK, OwnersWork, spawnVars
<1> QED BY <1>1, <1>2, <1>3, <1>4, <1>5, <1>6, <1>7 DEF SpawnNext, ProcStep

\* Only its creator writes a lock.
LEMMA WritesOnceStep == SpawnInv /\ [SpawnNext]_spawnVars => WritesOnce'
<1> SUFFICES ASSUME SpawnInv, [SpawnNext]_spawnVars PROVE WritesOnce'
  OBVIOUS
<1>a. SpawnTypeOK /\ OwnersWork /\ WritesOnce
  BY DEF SpawnInv
<1>1. ASSUME NEW p \in Procs, Start(p) \/ Probe(p) \/ ReadPid(p) \/ Reprobe(p) \/ Waited(p)
      PROVE  WritesOnce'
  BY <1>a, <1>1, SpawnAssumption
    DEF SpawnTypeOK, WritesOnce, files, brokers, Goes, Found, NotFound, Start, Probe, ReadPid,
        Reprobe, Waited
<1>2. ASSUME NEW p \in Procs, CreateLock(p) \/ GivesUp(p) \/ LockExists(p) \/ ReadLock(p)
      PROVE  WritesOnce'
  BY <1>a, <1>2, SpawnAssumption
    DEF SpawnTypeOK, WritesOnce, files, brokers, Goes, NoLock, NotStale, CreateLock, GivesUp,
        LockExists, ReadLock
<1>3. ASSUME NEW p \in Procs, WriteLock(p) \/ WriteFails(p)
      PROVE  WritesOnce'
  BY <1>a, <1>3, SpawnAssumption
    DEF SpawnTypeOK, WritesOnce, files, brokers, Goes, WriteLock, WriteFails
<1>4. ASSUME NEW p \in Procs, Unlink(p) \/ Release(p)
      PROVE  WritesOnce'
  BY <1>a, <1>4, SpawnAssumption
    DEF SpawnTypeOK, WritesOnce, brokers, Goes, NoLock, Unlink, Release
<1>5. ASSUME NEW p \in Procs, Spawn(p) \/ ChildExits(p) \/ WaitTimeout(p) \/ Connect(p) \/ Leave(p) \/ Dies(p)
      PROVE  WritesOnce'
  BY <1>a, <1>5, SpawnAssumption
    DEF SpawnTypeOK, WritesOnce, files, brokers, Goes, Spawn, ChildExits, WaitTimeout, Connect,
        Leave, Dies
<1>6. ASSUME NEW b \in Brokers, BrokerStep(b) \/ BrokerQuits(b) \/ BrokerDies(b)
      PROVE  WritesOnce'
  BY <1>a, <1>6
    DEF SpawnTypeOK, WritesOnce, sessions, files, BrokerStep, BrokerUnlinks, BrokerBinds,
        BrokerWritesPid,
              BrokerExits, BrokerQuits, BrokerDies
<1>7. CASE UNCHANGED spawnVars
  BY <1>a, <1>7 DEF SpawnTypeOK, WritesOnce, spawnVars
<1> QED BY <1>1, <1>2, <1>3, <1>4, <1>5, <1>6, <1>7 DEF SpawnNext, ProcStep

\* A written lock goes with its owner's release, or with its owner.
LEMMA LockHasOwnerStep == SpawnInv /\ [SpawnNext]_spawnVars => LockHasOwner'
<1> SUFFICES ASSUME SpawnInv, [SpawnNext]_spawnVars PROVE LockHasOwner'
  OBVIOUS
<1>a. SpawnTypeOK /\ OwnersWork /\ WritesOnce /\ LockHasOwner
  BY DEF SpawnInv
<1>1. ASSUME NEW p \in Procs, Start(p) \/ Probe(p) \/ ReadPid(p) \/ Reprobe(p) \/ Waited(p)
      PROVE  LockHasOwner'
  BY <1>a, <1>1, SpawnAssumption
    DEF SpawnTypeOK, OwnersWork, WritesOnce, LockHasOwner, Owners, files, brokers, Goes, Found,
        NotFound, Start, Probe, ReadPid, Reprobe, Waited
<1>2. ASSUME NEW p \in Procs, CreateLock(p) \/ GivesUp(p) \/ LockExists(p) \/ ReadLock(p)
      PROVE  LockHasOwner'
  BY <1>a, <1>2, SpawnAssumption
    DEF SpawnTypeOK, OwnersWork, WritesOnce, LockHasOwner, Owners, files, brokers, Goes,
        NoLock, NotStale, CreateLock, GivesUp, LockExists, ReadLock
<1>3. ASSUME NEW p \in Procs, WriteLock(p) \/ WriteFails(p)
      PROVE  LockHasOwner'
  BY <1>a, <1>3, SpawnAssumption
    DEF SpawnTypeOK, OwnersWork, WritesOnce, LockHasOwner, Owners, files, brokers, Goes,
        WriteLock, WriteFails
<1>4. ASSUME NEW p \in Procs, Unlink(p) \/ Release(p)
      PROVE  LockHasOwner'
  BY <1>a, <1>4, SpawnAssumption
    DEF SpawnTypeOK, OwnersWork, WritesOnce, LockHasOwner, Owners, brokers, Goes, NoLock,
        Unlink, Release
<1>5. ASSUME NEW p \in Procs, Spawn(p) \/ ChildExits(p) \/ WaitTimeout(p) \/ Connect(p) \/ Leave(p) \/ Dies(p)
      PROVE  LockHasOwner'
  BY <1>a, <1>5, SpawnAssumption
    DEF SpawnTypeOK, OwnersWork, WritesOnce, LockHasOwner, Owners, files, brokers, Goes, Spawn,
        ChildExits, WaitTimeout, Connect, Leave, Dies
<1>6. ASSUME NEW b \in Brokers, BrokerStep(b) \/ BrokerQuits(b) \/ BrokerDies(b)
      PROVE  LockHasOwner'
  BY <1>a, <1>6
    DEF SpawnTypeOK, OwnersWork, WritesOnce, LockHasOwner, Owners, sessions, files, BrokerStep,
        BrokerUnlinks, BrokerBinds, BrokerWritesPid,
              BrokerExits, BrokerQuits, BrokerDies
<1>7. CASE UNCHANGED spawnVars
  BY <1>a, <1>7 DEF SpawnTypeOK, OwnersWork, WritesOnce, LockHasOwner, Owners, spawnVars
<1> QED BY <1>1, <1>2, <1>3, <1>4, <1>5, <1>6, <1>7 DEF SpawnNext, ProcStep

\* The create is exclusive, and a release that is no robbery leaves no owner.
LEMMA OwnersHoldStep == SpawnInv /\ [SpawnNext]_spawnVars => OwnersHold'
<1> SUFFICES ASSUME SpawnInv, [SpawnNext]_spawnVars PROVE OwnersHold'
  OBVIOUS
<1>a. SpawnTypeOK /\ OwnersWork /\ OwnersHold
  BY DEF SpawnInv
<1>1. ASSUME NEW p \in Procs, Start(p) \/ Probe(p) \/ ReadPid(p) \/ Reprobe(p) \/ Waited(p)
      PROVE  OwnersHold'
  BY <1>a, <1>1, SpawnAssumption
    DEF SpawnTypeOK, OwnersWork, OwnersHold, Owners, files, brokers, Goes, Found, NotFound,
        Start, Probe, ReadPid, Reprobe, Waited
<1>2. ASSUME NEW p \in Procs, CreateLock(p) \/ GivesUp(p) \/ LockExists(p) \/ ReadLock(p)
      PROVE  OwnersHold'
  BY <1>a, <1>2, SpawnAssumption
    DEF SpawnTypeOK, OwnersWork, OwnersHold, Owners, files, brokers, Goes, NoLock, NotStale,
        CreateLock, GivesUp, LockExists, ReadLock
<1>3. ASSUME NEW p \in Procs, WriteLock(p) \/ WriteFails(p)
      PROVE  OwnersHold'
  BY <1>a, <1>3, SpawnAssumption
    DEF SpawnTypeOK, OwnersWork, OwnersHold, Owners, files, brokers, Goes, WriteLock,
        WriteFails
<1>4. ASSUME NEW p \in Procs, Unlink(p) PROVE OwnersHold'
  <2>1. at[p] = "unlink" /\ at' = [at EXCEPT ![p] = "acquire"] /\ own' = own
    BY <1>4 DEF Goes, Unlink
  <2>2. Owners' \subseteq Owners
    BY <1>a, <2>1 DEF SpawnTypeOK, Owners
  <2>3. robbed' = (robbed \/ lock.by \in Owners)
    BY <1>4 DEF Unlink
  <2>4. ~robbed' => Owners = {}
    BY <1>a, <2>3 DEF OwnersHold
  <2> QED BY <2>2, <2>4 DEF OwnersHold
<1>5. ASSUME NEW p \in Procs, Release(p) PROVE OwnersHold'
  <2>1. at[p] \in {"release", "abandon"} /\ own' = [own EXCEPT ![p] = FALSE]
    BY <1>5 DEF Release
  <2>2. at' = [at EXCEPT ![p] = "connect"] \/ at' = [at EXCEPT ![p] = "failed"]
    BY <1>5 DEF Goes, Release
  <2>3. Owners' \subseteq Owners \ {p}
    BY <1>a, <2>1, <2>2 DEF SpawnTypeOK, Owners
  <2>4. robbed' = (robbed \/ lock.by \in Owners \ {p})
    BY <1>5 DEF Release
  <2>5. ~robbed' => Owners \ {p} = {}
    BY <1>a, <2>4 DEF OwnersHold
  <2> QED BY <2>3, <2>5 DEF OwnersHold
<1>8. ASSUME NEW p \in Procs, Spawn(p) \/ ChildExits(p) \/ WaitTimeout(p) \/ Connect(p)
                                 \/ Leave(p) \/ Dies(p)
      PROVE  OwnersHold'
  <2>1. lock' = lock /\ robbed' = robbed
    BY <1>8 DEF files, Spawn, ChildExits, WaitTimeout, Connect, Leave, Dies
  <2>2. Owners' \subseteq Owners
    BY <1>a, <1>8 DEF SpawnTypeOK, OwnersWork, Owners, Goes, Spawn, ChildExits, WaitTimeout,
                      Connect, Leave, Dies
  <2> QED BY <1>a, <2>1, <2>2 DEF OwnersHold
<1>6. ASSUME NEW b \in Brokers, BrokerStep(b) \/ BrokerQuits(b) \/ BrokerDies(b)
      PROVE  OwnersHold'
  BY <1>a, <1>6
    DEF SpawnTypeOK, OwnersWork, OwnersHold, Owners, sessions, files, BrokerStep,
        BrokerUnlinks, BrokerBinds, BrokerWritesPid,
              BrokerExits, BrokerQuits, BrokerDies
<1>7. CASE UNCHANGED spawnVars
  BY <1>a, <1>7 DEF SpawnTypeOK, OwnersWork, OwnersHold, Owners, spawnVars
<1> QED BY <1>1, <1>2, <1>3, <1>4, <1>5, <1>6, <1>7, <1>8 DEF SpawnNext, ProcStep

LEMMA SpawnStepInv == SpawnInv /\ [SpawnNext]_spawnVars => SpawnInv'
BY SpawnTypeStep, JoinedStep, OwnersWorkStep, WritesOnceStep, LockHasOwnerStep, OwnersHoldStep
DEF SpawnInv

LEMMA SpawnInductive == SpawnSpec => []SpawnInv
BY SpawnInitInv, SpawnStepInv, PTL DEF SpawnSpec

-----------------------------------------------------------------------------
\* The state of the sessions, the files and the broker processes keeps its
\* shape: spawnBrokerIfNeeded and the broker process have no other states.
THEOREM SpawnTypeCorrect == SpawnSpec => []SpawnTypeOK
<1>1. SpawnInv => SpawnTypeOK
  BY DEF SpawnInv
<1> QED BY <1>1, SpawnInductive, PTL

\* A lock on the disk is one that its creator works under, or one that
\* isSpawnLockStale can tell to be stale.
THEOREM LocksHaveOwners == SpawnSpec => []LockHasOwner
<1>1. SpawnInv => LockHasOwner
  BY DEF SpawnInv
<1> QED BY <1>1, SpawnInductive, PTL

\* The exclusive create of acquireSpawnLock excludes, as long as no session
\* took the lock of a live one for stale.
THEOREM SpawnLockExcludes == SpawnSpec => []OneOwnerUnlessRobbed
<1>1. SpawnInv => OneOwnerUnlessRobbed
  BY DEF SpawnInv, OwnersHold, OneOwnerUnlessRobbed
<1> QED BY <1>1, SpawnInductive, PTL

-----------------------------------------------------------------------------
-----------------------------------------------------------------------------
(***************************************************************************)
(* 2. Inbound delivery.  The invariant says where a message can be.        *)
(***************************************************************************)

Entries == [state : {"new", "reserved", "done"}, gen : Nat, nr : Nat]
Batches == [messages : Seq(Messages), gen : Nat]
ClaimTypes == [taken : Seq(Messages), original : Seq(Messages)]
NoticeTypes == [state : {"none", "sending", "shown"}, fails : Nat,
                back : SUBSET Messages, claim : ClaimTypes]

InboundTypeOK ==
  /\ gen \in Nat /\ turns \in Nat /\ busy \in BOOLEAN /\ timer \in BOOLEAN
  /\ entry \in [Messages -> Entries]
  /\ hand \in [Messages -> {"none", "probe", "commit"}]
  /\ queue \in Seq(Messages)
  /\ sends \in SUBSET Batches
  /\ notice \in [Notices -> NoticeTypes]
  /\ shown \in [Messages \cup Notices -> Nat]
  /\ revived \in SUBSET Messages

Taken(n) == ToSet(notice[n].claim.taken)
Original(n) == ToSet(notice[n].claim.original)

InSend(m) == \E d \in sends : m \in ToSet(d.messages)
OneSend(m) == \A d, e \in sends : m \in ToSet(d.messages) /\ m \in ToSet(e.messages) => d = e

\* A message that is not admitted is nowhere, or in the one send of its arrival.
AdmittedFirst ==
  \A m \in Messages : entry[m].state # "done" =>
    /\ m \notin ToSet(queue) /\ shown[m] = 0
    /\ \A n \in Notices : m \notin Original(n)
    /\ OneSend(m) /\ (entry[m].state = "new" => ~InSend(m))

\* No message is of a later generation than the send it is in.
GenerationsPass ==
  /\ \A m \in Messages : entry[m].gen <= gen
  /\ \A d \in sends : d.gen <= gen /\ \A m \in ToSet(d.messages) : entry[m].gen <= d.gen

\* A claim has taken the entries of the notice's child.
ClaimsHold ==
  \A n \in Notices :
    /\ Taken(n) = Original(n) \cap Claimed(n)
    /\ notice[n].state # "sending" => notice[n].claim = NoClaim

\* Until a rollback revives it, a message is in one place at a time.
OnePlace ==
  \A m \in Messages \ revived :
    /\ shown[m] <= 1 /\ OneSend(m)
    /\ m \in ToSet(queue) =>
         shown[m] = 0 /\ ~InSend(m) /\ \A n \in Notices : m \notin Taken(n)
    /\ InSend(m) => shown[m] = 0 /\ \A n \in Notices : m \notin Taken(n)
    /\ \A n \in Notices : m \in Taken(n) =>
         shown[m] = 0 /\ \A k \in Notices : m \in Taken(k) => k = n

NoticesOnce == \A n \in Notices : shown[n] = IF notice[n].state = "shown" THEN 1 ELSE 0

Nr(m) == entry[m].nr
Ordered(e, q) == \A i, j \in DOMAIN q : i < j => e[q[i]].nr < e[q[j]].nr

\* Nobody but n has failed, and no two have.
FailsAlone(n) == \A k \in Notices : notice[k].fails > 0 => k = n
OneFails == \A k, n \in Notices : notice[k].fails > 0 /\ notice[n].fails > 0 => k = n

\* The queue, and what a rollback of a notice that fails alone would make of it,
\* is in the order of arrival.
OrderHolds ==
  /\ OneFails => Ordered(entry, queue)
  /\ \A n \in Notices : FailsAlone(n) =>
       /\ Ordered(entry, notice[n].claim.original)
       /\ \A x \in ToSet(queue) \ Original(n), y \in Original(n) : Nr(y) < Nr(x)

InboundInv ==
  /\ InboundTypeOK /\ AdmittedFirst /\ GenerationsPass /\ ClaimsHold
  /\ OnePlace /\ NoticesOnce /\ OrderHolds /\ NothingLost

-----------------------------------------------------------------------------
\* What the steps do to where the messages are, sequences taken as sets.

Stays == UNCHANGED <<gen, entry, queue, sends, notice, shown, revived>>

Sends(ms) == \E d \in Batches : sends' = sends \cup {d} /\ ToSet(d.messages) = ms /\ d.gen = gen

Arrives(m, state) ==
  /\ entry[m].state = "new"
  /\ entry' = [entry EXCEPT ![m] = Admitted(state)]
  /\ UNCHANGED <<gen, notice, shown, revived>>

Queues(m) == Arrives(m, "done") /\ ToSet(queue)' = ToSet(queue) \cup {m} /\ UNCHANGED sends

Reserves(m) == Arrives(m, "reserved") /\ Sends({m}) /\ UNCHANGED queue

Surfaces(ms) ==
  /\ ms # {} /\ ms \subseteq ToSet(queue)
  /\ ToSet(queue)' = ToSet(queue) \ ms
  /\ Sends(ms)
  /\ UNCHANGED <<gen, entry, notice, shown, revived>>

Counts(xs) == \A x \in Messages \cup Notices :
                shown'[x] = IF x \in xs THEN shown[x] + 1 ELSE shown[x]

Succeeds(d) ==
  /\ sends' = sends \ {d}
  /\ Counts(ToSet(d.messages))
  /\ \A m \in Messages : entry'[m] = IF m \in ToSet(d.messages)
                                       THEN [entry[m] EXCEPT !.state = "done"] ELSE entry[m]
  /\ UNCHANGED <<gen, queue, notice, revived>>

Retires(d) ==
  /\ d.gen # gen
  /\ sends' = sends \ {d}
  /\ \A m \in Messages : entry'[m] = IF m \in ToSet(d.messages) /\ entry[m].state = "reserved"
                                       THEN [entry[m] EXCEPT !.state = "new"] ELSE entry[m]
  /\ UNCHANGED <<gen, queue, notice, shown, revived>>

Others(n) == \A k \in Notices \ {n} : notice'[k] = notice[k]

Dispatches(n) ==
  /\ notice[n].state = "none"
  /\ Others(n) /\ notice'[n].state = "sending" /\ notice'[n].fails = notice[n].fails
  /\ notice'[n].claim.original = queue
  /\ Taken(n)' = ToSet(queue) \cap Claimed(n)
  /\ ToSet(queue)' = ToSet(queue) \ Claimed(n)
  /\ UNCHANGED <<gen, entry, sends, shown, revived>>

Completes(n) ==
  /\ notice[n].state = "sending"
  /\ Others(n) /\ notice'[n].state = "shown" /\ notice'[n].fails = notice[n].fails
  /\ notice'[n].claim = NoClaim
  /\ Counts(Taken(n) \cup {n})
  /\ UNCHANGED <<gen, entry, queue, sends, revived>>

RollsBack(n) ==
  /\ notice[n].state = "sending"
  /\ Others(n) /\ notice'[n].state = "none" /\ notice'[n].fails = notice[n].fails + 1
  /\ notice'[n].claim = NoClaim
  /\ ToSet(queue)' = Original(n) \cup ToSet(queue)
  /\ revived' = revived \cup (Original(n) \ (Taken(n) \cup ToSet(queue)))
  /\ UNCHANGED <<gen, entry, sends, shown>>

Replaces == gen' = gen + 1 /\ queue' = <<>> /\ UNCHANGED <<entry, sends, notice, shown, revived>>

Moves ==
  \/ Stays \/ Replaces
  \/ \E m \in Messages : Queues(m) \/ Reserves(m)
  \/ \E ms \in SUBSET Messages : Surfaces(ms)
  \/ \E d \in sends : Succeeds(d) \/ Retires(d)
  \/ \E n \in Notices : Dispatches(n) \/ Completes(n) \/ RollsBack(n)

-----------------------------------------------------------------------------
\* Filters, and the greatest of finitely many numbers.

\* The rank of a place among those that are kept.
UpTo(kept, i) == {j \in kept : j <= i}
Rank(kept, i) == Cardinality(UpTo(kept, i))

\* The places that a filter keeps, counted.
LEMMA RanksCount ==
  ASSUME NEW n \in Nat, NEW kept \in SUBSET (1 .. n)
  PROVE  /\ Cardinality(kept) \in Nat
         /\ \A k \in 1 .. Cardinality(kept) : \E i \in kept : Rank(kept, i) = k
         /\ \A i \in kept : Rank(kept, i) \in 1 .. Cardinality(kept)
         /\ \A i, j \in kept : Rank(kept, i) < Rank(kept, j) => i < j
         /\ \A i, j \in kept : Rank(kept, i) = Rank(kept, j) => i = j
<1> DEFINE upTo(i) == UpTo(kept, i)
           rank == [i \in kept |-> Cardinality(upTo(i))]
           size == Cardinality(kept)
<1> USE DEF UpTo
<1>1. IsFiniteSet(kept) /\ size \in Nat
  <2>1. IsFiniteSet(1 .. n)
    BY FS_Interval
  <2>2. IsFiniteSet(kept)
    BY <2>1, FS_Subset
  <2> QED
    BY <2>2, FS_CardinalityType
<1>2. ASSUME NEW i \in kept
      PROVE  /\ IsFiniteSet(upTo(i)) /\ Cardinality(upTo(i)) \in 1 .. size
  <2>1. upTo(i) \in SUBSET kept /\ i \in upTo(i)
    OBVIOUS
  <2>2. IsFiniteSet(upTo(i)) /\ Cardinality(upTo(i)) <= size
    BY <1>1, <2>1, FS_Subset
  <2>3. Cardinality(upTo(i)) \in Nat /\ Cardinality(upTo(i)) # 0
    BY <2>1, <2>2, FS_CardinalityType, FS_EmptySet
  <2> QED
    BY <1>1, <2>2, <2>3
<1>3. ASSUME NEW i \in kept, NEW j \in kept, i < j
      PROVE  Cardinality(upTo(i)) < Cardinality(upTo(j))
  <2>1. upTo(i) \in SUBSET upTo(j) /\ upTo(i) # upTo(j)
    <3>1. i \in Nat /\ j \in Nat /\ \A x \in kept : x \in Nat
      OBVIOUS
    <3>2. \A x \in upTo(i) : x \in upTo(j)
      BY <1>3, <3>1
    <3>3. j \in upTo(j) /\ j \notin upTo(i)
      BY <1>3, <3>1
    <3> QED
      BY <3>2, <3>3
  <2>2. IsFiniteSet(upTo(j)) /\ Cardinality(upTo(j)) \in Nat /\ Cardinality(upTo(i)) \in Nat
    BY <1>2
  <2> HIDE DEF upTo
  <2>3. Cardinality(upTo(i)) <= Cardinality(upTo(j)) /\ Cardinality(upTo(i)) # Cardinality(upTo(j))
    BY <2>1, <2>2, FS_Subset
  <2> QED
    BY <2>2, <2>3
<1>4. \A i, j \in kept : Cardinality(upTo(i)) < Cardinality(upTo(j)) => i < j
  <2> SUFFICES ASSUME NEW i \in kept, NEW j \in kept,
                      Cardinality(upTo(i)) < Cardinality(upTo(j))
               PROVE  i < j
    OBVIOUS
  <2>1. Cardinality(upTo(i)) \in Nat /\ Cardinality(upTo(j)) \in Nat
    BY <1>2
  <2>2. i \in Nat /\ j \in Nat
    OBVIOUS
  <2>3. i # j
    BY <2>1
  <2>4. ~(j < i)
    BY <1>3, <2>1
  <2> QED
    BY <2>2, <2>3, <2>4
<1>5. \A i, j \in kept : Cardinality(upTo(i)) = Cardinality(upTo(j)) => i = j
  <2> SUFFICES ASSUME NEW i \in kept, NEW j \in kept,
                      Cardinality(upTo(i)) = Cardinality(upTo(j))
               PROVE  i = j
    OBVIOUS
  <2>1. i \in Nat /\ j \in Nat /\ Cardinality(upTo(i)) \in Nat
    BY <1>2
  <2>2. ~(i < j) /\ ~(j < i)
    BY <1>3, <2>1
  <2> QED
    BY <2>1, <2>2
<1>6. \A k \in 1 .. size : \E i \in kept : Cardinality(upTo(i)) = k
  <2>1. rank \in Injection(kept, 1 .. size)
    <3>1. rank \in [kept -> 1 .. size]
      BY <1>2
    <3>2. \A i, j \in kept : rank[i] = rank[j] => i = j
      <4> SUFFICES ASSUME NEW i \in kept, NEW j \in kept, rank[i] = rank[j] PROVE i = j
        OBVIOUS
      <4>1. i \in Nat /\ j \in Nat /\ rank[i] \in Nat
        BY <1>2
      <4>2. ~(i < j) /\ ~(j < i)
        BY <1>3, <4>1
      <4> QED
        BY <4>1, <4>2
    <3> QED
      BY <3>1, <3>2 DEF Injection, IsInjective
  <2>2. IsFiniteSet(1 .. size) /\ Cardinality(1 .. size) = size
    BY <1>1, FS_Interval
  <2> HIDE DEF rank, size
  <2>3. rank \in Surjection(kept, 1 .. size)
    BY <2>1, <2>2, FS_Injection DEF size
  <2>4. \A k \in 1 .. size : \E i \in kept : rank[i] = k
    BY <2>3 DEF Surjection
  <2> QED
    BY <2>4 DEF rank
<1> QED
  BY <1>1, <1>2, <1>4, <1>5, <1>6 DEF Rank

\* A filter keeps what is in S, in its order.
LEMMA FilterKeeps ==
  ASSUME NEW T, NEW q \in Seq(T), NEW S
  PROVE  /\ Filter(q, S) \in Seq(T)
         /\ ToSet(Filter(q, S)) = ToSet(q) \cap S
         /\ \A k, l \in DOMAIN Filter(q, S) : k < l =>
              \E i, j \in DOMAIN q : i < j /\ Filter(q, S)[k] = q[i] /\ Filter(q, S)[l] = q[j]
<1> DEFINE kept == {i \in DOMAIN q : q[i] \in S}
           rank(i) == Rank(kept, i)
           nth(k) == CHOOSE i \in kept : rank(i) = k
           size == Cardinality(kept)
           f == [k \in 1 .. size |-> q[nth(k)]]
<1>1. Len(q) \in Nat /\ DOMAIN q = 1 .. Len(q) /\ \A i \in DOMAIN q : q[i] \in T
  OBVIOUS
<1>0. kept \in SUBSET (1 .. Len(q))
  BY <1>1
<1>2. /\ size \in Nat
      /\ \A k \in 1 .. size : \E i \in kept : rank(i) = k
      /\ \A i \in kept : rank(i) \in 1 .. size
      /\ \A i, j \in kept : rank(i) < rank(j) => i < j
      /\ \A i, j \in kept : rank(i) = rank(j) => i = j
  <2> HIDE DEF kept
  <2> QED
    BY <1>0, <1>1, RanksCount
<1>3. Filter(q, S) = f
  BY DEF Filter, Rank, UpTo
<1> HIDE DEF rank, size
<1>4. \A k \in 1 .. size : nth(k) \in kept /\ rank(nth(k)) = k
  BY <1>2
<1>5. \A i \in kept : nth(rank(i)) = i
  <2> SUFFICES ASSUME NEW i \in kept PROVE nth(rank(i)) = i
    OBVIOUS
  <2>1. rank(i) \in 1 .. size
    BY <1>2
  <2>2. nth(rank(i)) \in kept /\ rank(nth(rank(i))) = rank(i)
    BY <1>4, <2>1
  <2> HIDE DEF nth
  <2> QED
    BY <1>2, <2>2
<1>6. \A k \in 1 .. size : f[k] = q[nth(k)] /\ nth(k) \in DOMAIN q /\ q[nth(k)] \in S
  BY <1>4
<1>7. f \in Seq(T)
  <2>1. f \in [1 .. size -> T]
    BY <1>1, <1>6
  <2> HIDE DEF f
  <2> QED
    BY <1>2, <2>1
<1>8. Len(f) = size /\ DOMAIN f = 1 .. size
  BY <1>2, <1>7
<1>9. ToSet(f) = ToSet(q) \cap S
  <2>1. ASSUME NEW x \in ToSet(f) PROVE x \in ToSet(q) /\ x \in S
    <3>1. PICK k \in 1 .. size : f[k] = x
      BY <1>8, <2>1 DEF ToSet
    <3>2. nth(k) \in DOMAIN q /\ q[nth(k)] = x /\ x \in S
      BY <1>6, <3>1
    <3> QED
      BY <3>2 DEF ToSet
  <2>2. ASSUME NEW x \in ToSet(q), x \in S PROVE x \in ToSet(f)
    <3>1. PICK i \in DOMAIN q : q[i] = x
      BY DEF ToSet
    <3>2. i \in kept
      BY <2>2, <3>1
    <3>3. rank(i) \in 1 .. size /\ nth(rank(i)) = i
      BY <1>2, <1>5, <3>2
    <3>4. f[rank(i)] = x
      BY <1>6, <3>1, <3>3
    <3> HIDE DEF f
    <3> QED
      BY <1>8, <3>3, <3>4 DEF ToSet
  <2> HIDE DEF f
  <2> QED
    BY <2>1, <2>2
<1>10. ASSUME NEW k \in 1 .. size, NEW l \in 1 .. size, k < l
       PROVE  \E i, j \in DOMAIN q : i < j /\ f[k] = q[i] /\ f[l] = q[j]
  <2>1. nth(k) \in kept /\ nth(l) \in kept /\ rank(nth(k)) < rank(nth(l))
    BY <1>4, <1>10
  <2>2. nth(k) < nth(l)
    BY <1>2, <2>1
  <2>3. f[k] = q[nth(k)] /\ nth(k) \in DOMAIN q
    BY <1>6
  <2>4. f[l] = q[nth(l)] /\ nth(l) \in DOMAIN q
    BY <1>6
  <2> HIDE DEF nth, f
  <2> QED
    BY <2>2, <2>3, <2>4
<1> HIDE DEF f
<1> QED
  BY <1>3, <1>7, <1>8, <1>9, <1>10

\* Finitely many numbers have a greatest one.
LEMMA FiniteHasMax ==
  ASSUME NEW S \in SUBSET Nat, IsFiniteSet(S), S # {}
  PROVE  Max(S) \in S /\ \A x \in S : x <= Max(S)
<1> DEFINE above(x) == {y \in S : x < y}
           R == StrictSubsetOrdering(S)
           F == {above(x) : x \in S}
<1>1. IsWellFoundedOn(R, FiniteSubsetsOf(S))
  BY FS_StrictSubsetOrderingWellFounded
<1>2. F \subseteq FiniteSubsetsOf(S) /\ F # {}
  <2>1. \A x \in S : above(x) \in SUBSET S /\ IsFiniteSet(above(x))
    BY FS_Subset
  <2> QED
    BY <2>1 DEF FiniteSubsetsOf
<1>3. PICK U \in F : \A V \in F : <<V, U>> \notin R
  <2> HIDE DEF F, R
  <2> QED
    BY <1>1, <1>2, WFMin
<1>4. PICK x \in S : U = above(x)
  OBVIOUS
<1>5. \A y \in S : y <= x
  <2>1. SUFFICES ASSUME NEW y \in S, x < y PROVE FALSE
    OBVIOUS
  <2>2. x \in Nat /\ y \in Nat /\ S \subseteq Nat
    OBVIOUS
  <2>3. ASSUME NEW z \in above(y) PROVE z \in above(x)
    <3>1. z \in S /\ z \in Nat /\ y < z
      BY <2>2
    <3>2. x < z
      BY <2>1, <2>2, <3>1
    <3> QED
      BY <3>1, <3>2
  <2>4. y \in above(x) /\ y \notin above(y)
    BY <2>1, <2>2
  <2>5. above(y) \in F /\ above(x) \in SUBSET S /\ above(y) \in SUBSET S
    OBVIOUS
  <2> HIDE DEF above
  <2>6. <<above(y), above(x)>> \in R
    BY <2>3, <2>4, <2>5 DEF StrictSubsetOrdering
  <2> QED
    BY <1>3, <1>4, <2>5, <2>6
<1>6. \E z \in S : \A y \in S : z >= y
  BY <1>5
<1> QED
  BY <1>6 DEF Max

\* What is admitted now comes after all that was admitted before.
LEMMA AdmittedLast ==
  ASSUME InboundTypeOK, NEW state \in {"new", "reserved", "done"}, NEW m \in Messages
  PROVE  /\ Admitted(state) \in Entries
         /\ Admitted(state).state = state /\ Admitted(state).gen = gen
         /\ \A k \in Messages : Nr(k) < Admitted(state).nr
<1> DEFINE nrs == {entry[k].nr : k \in Messages}
           f == [k \in Messages |-> entry[k].nr]
<1>1. \A k \in Messages : entry[k].nr \in Nat
  BY DEF InboundTypeOK, Entries
<1>2. nrs \in SUBSET Nat /\ nrs # {}
  BY <1>1
<1>3. f \in Surjection(Messages, nrs)
  BY DEF Surjection
<1>4. IsFiniteSet(Messages)
  BY InboundAssumption
<1>5. IsFiniteSet(nrs)
  <2> HIDE DEF f, nrs
  <2> QED
    BY <1>3, <1>4, FS_Surjection
<1>6. Max(nrs) \in nrs /\ \A x \in nrs : x <= Max(nrs)
  <2> HIDE DEF nrs
  <2> QED
    BY <1>2, <1>5, FiniteHasMax
<1>7. Max(nrs) \in Nat /\ \A k \in Messages : entry[k].nr <= Max(nrs)
  BY <1>2, <1>6
<1>8. Admitted(state) = [state |-> state, gen |-> gen, nr |-> 1 + Max(nrs)]
  BY DEF Admitted
<1> HIDE DEF nrs
<1>9. gen \in Nat
  BY DEF InboundTypeOK
<1> QED
  BY <1>1, <1>7, <1>8, <1>9 DEF Entries, Nr

\* The members of the sequences that the steps make.
LEMMA Members ==
  ASSUME NEW T, NEW q \in Seq(T)
  PROVE  /\ ToSet(q) \subseteq T
         /\ \A x : Contains(q, x) <=> x \in ToSet(q)
         /\ q = <<>> <=> ToSet(q) = {}
         /\ \A x \in T : Append(q, x) \in Seq(T) /\ ToSet(Append(q, x)) = ToSet(q) \cup {x}
         /\ \A p \in Seq(T) : p \o q \in Seq(T) /\ ToSet(p \o q) = ToSet(p) \cup ToSet(q)
<1>1. Len(q) \in Nat /\ DOMAIN q = 1 .. Len(q) /\ \A i \in 1 .. Len(q) : q[i] \in T
  OBVIOUS
<1>2. ToSet(q) \subseteq T /\ \A x : Contains(q, x) <=> x \in ToSet(q)
  BY <1>1 DEF ToSet, Contains
<1>3. q = <<>> <=> ToSet(q) = {}
  <2>1. q = <<>> <=> Len(q) = 0
    BY EmptySeq
  <2>2. ASSUME Len(q) # 0 PROVE q[1] \in ToSet(q)
    <3>1. 1 \in DOMAIN q
      BY <1>1, <2>2
    <3> QED
      BY <3>1 DEF ToSet
  <2>3. ASSUME Len(q) = 0 PROVE ToSet(q) = {}
    <3>1. DOMAIN q = {}
      BY <1>1, <2>3
    <3> QED
      BY <3>1 DEF ToSet
  <2> QED
    BY <2>1, <2>2, <2>3
<1>4. ASSUME NEW x \in T
      PROVE  Append(q, x) \in Seq(T) /\ ToSet(Append(q, x)) = ToSet(q) \cup {x}
  <2> DEFINE r == Append(q, x)
  <2>1. r \in Seq(T) /\ Len(r) = Len(q) + 1 /\ DOMAIN r = 1 .. Len(q) + 1
    BY <1>1
  <2>2. \A i \in 1 .. Len(q) : r[i] = q[i]
    BY <1>1
  <2>3. r[Len(q) + 1] = x
    BY <1>1
  <2> HIDE DEF r
  <2>4. \A y \in ToSet(r) : y \in ToSet(q) \cup {x}
    BY <1>1, <2>1, <2>2, <2>3 DEF ToSet
  <2>5. ASSUME NEW y \in ToSet(q) PROVE y \in ToSet(r)
    <3>1. PICK i \in 1 .. Len(q) : y = q[i]
      BY <1>1, <2>5 DEF ToSet
    <3>2. i \in DOMAIN r /\ r[i] = y
      BY <1>1, <2>1, <2>2, <3>1
    <3> QED
      BY <3>2 DEF ToSet
  <2>6. x \in ToSet(r)
    <3>1. Len(q) + 1 \in DOMAIN r
      BY <1>1, <2>1
    <3> QED
      BY <2>3, <3>1 DEF ToSet
  <2> QED
    BY <2>1, <2>4, <2>5, <2>6 DEF r
<1>5. ASSUME NEW p \in Seq(T)
      PROVE  p \o q \in Seq(T) /\ ToSet(p \o q) = ToSet(p) \cup ToSet(q)
  <2> DEFINE r == p \o q
  <2>0. Len(p) \in Nat /\ DOMAIN p = 1 .. Len(p)
    OBVIOUS
  <2>1. r \in Seq(T) /\ Len(r) = Len(p) + Len(q) /\ DOMAIN r = 1 .. Len(p) + Len(q)
    BY <1>1, <2>0
  <2>2. \A i \in 1 .. Len(p) : r[i] = p[i]
    BY <1>1, <2>0
  <2>3. \A i \in 1 .. Len(q) : r[Len(p) + i] = q[i]
    BY <1>1, <2>0
  <2>3b. \A i \in Len(p) + 1 .. Len(p) + Len(q) : i - Len(p) \in 1 .. Len(q) /\ r[i] = q[i - Len(p)]
    BY <1>1, <2>0
  <2> HIDE DEF r
  <2>4. ASSUME NEW y \in ToSet(r) PROVE y \in ToSet(p) \cup ToSet(q)
    <3>1. PICK i \in 1 .. Len(p) + Len(q) : y = r[i]
      BY <2>1, <2>4 DEF ToSet
    <3>2. CASE i \in 1 .. Len(p)
      BY <2>0, <2>2, <3>1, <3>2 DEF ToSet
    <3>3. CASE i \in Len(p) + 1 .. Len(p) + Len(q)
      BY <1>1, <2>3b, <3>1, <3>3 DEF ToSet
    <3> QED
      BY <1>1, <2>0, <3>2, <3>3
  <2>5. ASSUME NEW y \in ToSet(p) PROVE y \in ToSet(r)
    <3>1. PICK i \in 1 .. Len(p) : y = p[i]
      BY <2>0, <2>5 DEF ToSet
    <3>2. i \in DOMAIN r /\ r[i] = y
      BY <1>1, <2>0, <2>1, <2>2, <3>1
    <3> QED
      BY <3>2 DEF ToSet
  <2>6. ASSUME NEW y \in ToSet(q) PROVE y \in ToSet(r)
    <3>1. PICK i \in 1 .. Len(q) : y = q[i]
      BY <1>1, <2>6 DEF ToSet
    <3>2. Len(p) + i \in DOMAIN r /\ r[Len(p) + i] = y
      BY <1>1, <2>0, <2>1, <2>3, <3>1
    <3> QED
      BY <3>2 DEF ToSet
  <2> QED
    BY <2>1, <2>4, <2>5, <2>6 DEF r
<1> QED
  BY <1>2, <1>3, <1>4, <1>5

\* The empty sequence, and that of one message.
LEMMA FewMembers ==
  ASSUME NEW T, NEW x \in T
  PROVE  /\ <<>> \in Seq(T) /\ ToSet(<<>>) = {}
         /\ <<x>> \in Seq(T) /\ ToSet(<<x>>) = {x}
BY DEF ToSet

-----------------------------------------------------------------------------
LEMMA InboundInitInv == InboundInit => InboundInv
<1> SUFFICES ASSUME InboundInit PROVE InboundInv
  OBVIOUS
<1>1. NoClaim \in ClaimTypes
  BY DEF NoClaim, ClaimTypes
<1>2. InboundTypeOK
  <2>1. \A m \in Messages : entry[m] \in Entries
    BY DEF InboundInit, Entries
  <2>2. \A n \in Notices : notice[n] \in NoticeTypes
    BY <1>1 DEF InboundInit, NoticeTypes
  <2>3. /\ entry \in [Messages -> Entries] /\ hand \in [Messages -> {"none", "probe", "commit"}]
        /\ notice \in [Notices -> NoticeTypes] /\ shown \in [Messages \cup Notices -> Nat]
    BY <2>1, <2>2 DEF InboundInit
  <2>4. gen \in Nat /\ turns \in Nat /\ busy \in BOOLEAN /\ timer \in BOOLEAN
    BY DEF InboundInit
  <2>5. queue \in Seq(Messages) /\ sends \in SUBSET Batches /\ revived \in SUBSET Messages
    <3>1. <<>> \in Seq(Messages)
      OBVIOUS
    <3> QED
      BY <3>1 DEF InboundInit
  <2> QED
    BY <2>3, <2>4, <2>5 DEF InboundTypeOK
<1>3. ToSet(queue) = {} /\ \A n \in Notices : Original(n) = {} /\ Taken(n) = {}
  BY DEF InboundInit, NoClaim, Original, Taken, ToSet
<1>4. AdmittedFirst /\ OnePlace
  <2>1. \A m : OneSend(m) /\ ~InSend(m)
    BY DEF InboundInit, OneSend, InSend
  <2>2. \A m \in Messages : shown[m] = 0
    BY DEF InboundInit
  <2> QED
    BY <1>3, <2>1, <2>2 DEF AdmittedFirst, OnePlace
<1>7. ClaimsHold /\ NoticesOnce /\ NothingLost
  BY <1>3 DEF InboundInit, ClaimsHold, NoticesOnce, NothingLost
<1>5. GenerationsPass
  BY DEF InboundInit, GenerationsPass
<1>6. OrderHolds
  BY <1>3 DEF InboundInit, OrderHolds, Ordered, NoClaim
<1> QED
  BY <1>2, <1>4, <1>5, <1>6, <1>7 DEF InboundInv

\* What the agent session takes is counted.
LEMMA ShowCounts ==
  ASSUME InboundTypeOK, NEW xs, NEW T, xs \in Seq(T)
  PROVE  /\ Show(xs) \in [Messages \cup Notices -> Nat]
         /\ \A x \in Messages \cup Notices :
              Show(xs)[x] = IF x \in ToSet(xs) THEN shown[x] + 1 ELSE shown[x]
<1>1. DOMAIN shown = Messages \cup Notices /\ \A x \in Messages \cup Notices : shown[x] \in Nat
  BY DEF InboundTypeOK
<1>2. \A x : Contains(xs, x) <=> x \in ToSet(xs)
  BY Members
<1> QED
  BY <1>1, <1>2 DEF Show

\* The variables have the values the steps give them.
LEMMA InboundTypeStep == InboundTypeOK /\ [InboundNext]_inVars => InboundTypeOK'
<1> SUFFICES ASSUME InboundTypeOK, [InboundNext]_inVars PROVE InboundTypeOK'
  OBVIOUS
<1> USE InboundAssumption
<1>0. /\ queue \in Seq(Messages) /\ gen \in Nat
      /\ \A S : Filter(queue, S) \in Seq(Messages)
      /\ \A n \in Notices : notice[n] \in NoticeTypes
      /\ \A m \in Messages : entry[m] \in Entries
  BY FilterKeeps DEF InboundTypeOK
<1>e. <<>> \in Seq(Messages)
  OBVIOUS
<1>s. ASSUME NEW ms \in Seq(Messages), Send(ms) PROVE sends' \in SUBSET Batches
  <2>1. [messages |-> ms, gen |-> gen] \in Batches
    BY <1>0, <1>s DEF Batches
  <2> QED
    BY <1>s, <2>1 DEF Send, InboundTypeOK
<1>1. ASSUME NEW m \in Messages, ArriveBusy(m) PROVE InboundTypeOK'
  <2>1. Admitted("done") \in Entries
    BY AdmittedLast
  <2>2. Append(queue, m) \in Seq(Messages)
    BY <1>0
  <2> QED
    BY <1>1, <2>1, <2>2 DEF ArriveBusy, InboundTypeOK
<1>2. ASSUME NEW m \in Messages, ArriveIdle(m) PROVE InboundTypeOK'
  <2>1. Admitted("reserved") \in Entries
    BY AdmittedLast
  <2>2. sends' \in SUBSET Batches
    BY <1>2, <1>s, FewMembers DEF ArriveIdle
  <2> QED
    BY <1>2, <2>1, <2>2 DEF ArriveIdle, InboundTypeOK
<1>3. ASSUME NEW m \in Messages, ProbeAcked(m) \/ Unclaimed(m) PROVE InboundTypeOK'
  BY <1>3, Members DEF ProbeAcked, Unclaimed, InboundTypeOK
<1>4. ASSUME NEW m \in Messages, CommitAcked(m) PROVE InboundTypeOK'
  <2>1. sends' \in SUBSET Batches /\ queue' \in Seq(Messages)
    BY <1>0, <1>4, <1>s, FewMembers DEF CommitAcked, InboundTypeOK
  <2> QED
    BY <1>4, <2>1 DEF CommitAcked, InboundTypeOK
<1>5. ASSUME Flush PROVE InboundTypeOK'
  <2>1. sends' \in SUBSET Batches
    BY <1>0, <1>5, <1>s DEF Flush, InboundTypeOK
  <2> QED
    BY <1>5, <1>e, <2>1 DEF Flush, InboundTypeOK
<1>6. ASSUME NEW d \in sends, SendSucceeds(d) PROVE InboundTypeOK'
  <2>1. d.messages \in Seq(Messages)
    BY DEF InboundTypeOK, Batches
  <2>2. shown' \in [Messages \cup Notices -> Nat]
    BY <1>6, <2>1, ShowCounts DEF SendSucceeds
  <2>3. \A m \in Messages : [entry[m] EXCEPT !.state = "done"] \in Entries
    BY <1>0 DEF Entries
  <2>4. entry' \in [Messages -> Entries]
    BY <1>0, <1>6, <2>3 DEF SendSucceeds
  <2> QED
    BY <1>6, <2>2, <2>4 DEF SendSucceeds, InboundTypeOK
<1>7. ASSUME NEW d \in sends, SendRetires(d) PROVE InboundTypeOK'
  <2>1. \A m \in Messages : [entry[m] EXCEPT !.state = "new"] \in Entries
    BY <1>0 DEF Entries
  <2>2. entry' \in [Messages -> Entries]
    BY <1>0, <1>7, <2>1 DEF SendRetires
  <2> QED
    BY <1>7, <2>2 DEF SendRetires, InboundTypeOK
<1>8. ASSUME NEW n \in Notices, Terminal(n) PROVE InboundTypeOK'
  <2> DEFINE claim == [taken |-> Filter(queue, Claimed(n)), original |-> queue]
  <2>1. claim \in ClaimTypes
    BY <1>0 DEF ClaimTypes
  <2> HIDE DEF claim
  <2>2. [notice[n] EXCEPT !.state = "sending", !.claim = claim] \in NoticeTypes
    BY <1>0, <2>1 DEF NoticeTypes
  <2>3. notice' = [notice EXCEPT ![n] = [notice[n] EXCEPT !.state = "sending", !.claim = claim]]
    BY <1>8 DEF Terminal, claim
  <2>4. notice' \in [Notices -> NoticeTypes]
    BY <2>2, <2>3 DEF InboundTypeOK
  <2> QED
    BY <1>0, <1>8, <2>4 DEF Terminal, InboundTypeOK
<1>c. NoClaim \in ClaimTypes
  BY DEF NoClaim, ClaimTypes
<1>9. ASSUME NEW n \in Notices, TerminalShown(n) PROVE InboundTypeOK'
  <2>1. [notice[n] EXCEPT !.state = "shown", !.claim = NoClaim] \in NoticeTypes
    BY <1>0, <1>c DEF NoticeTypes
  <2>2. notice' = [notice EXCEPT ![n] = [notice[n] EXCEPT !.state = "shown", !.claim = NoClaim]]
    BY <1>9 DEF TerminalShown
  <2>3. notice' \in [Notices -> NoticeTypes]
    BY <2>1, <2>2 DEF InboundTypeOK
  <2>4. Append(notice[n].claim.taken, n) \in Seq(Messages \cup Notices)
    <3>1. notice[n].claim.taken \in Seq(Messages)
      BY <1>0 DEF NoticeTypes, ClaimTypes
    <3>2. notice[n].claim.taken \in Seq(Messages \cup Notices)
      BY <3>1
    <3> QED
      BY <3>2
  <2>5. shown' \in [Messages \cup Notices -> Nat]
    BY <1>9, <2>4, ShowCounts DEF TerminalShown
  <2>6. timer' \in BOOLEAN
    BY <1>9 DEF TerminalShown, InboundTypeOK
  <2> QED
    BY <1>9, <2>3, <2>5, <2>6 DEF TerminalShown, InboundTypeOK
<1>10. ASSUME NEW n \in Notices, TerminalFails(n) PROVE InboundTypeOK'
  <2> DEFINE back   == notice[n].back \cup ToSet(notice[n].claim.taken)
             failed == [state |-> "none", fails |-> notice[n].fails + 1,
                        back |-> back, claim |-> NoClaim]
  <2>0. back \in SUBSET Messages
    <3>1. notice[n].back \in SUBSET Messages /\ notice[n].claim.taken \in Seq(Messages)
      BY <1>0 DEF NoticeTypes, ClaimTypes
    <3> QED
      BY <3>1, Members
  <2> HIDE DEF back
  <2>1. failed \in NoticeTypes
    BY <1>0, <1>c, <2>0 DEF NoticeTypes
  <2>2. notice' = [notice EXCEPT ![n] = failed]
    BY <1>10 DEF TerminalFails, back
  <2> HIDE DEF failed
  <2>3. notice' \in [Notices -> NoticeTypes]
    BY <2>1, <2>2 DEF InboundTypeOK
  <2>4. notice[n].claim.original \in Seq(Messages)
    BY <1>0 DEF NoticeTypes, ClaimTypes
  <2>5. queue' \in Seq(Messages)
    BY <1>0, <1>10, <2>4, Members DEF TerminalFails, RolledBack
  <2>6. revived' \in SUBSET Messages
    BY <1>10, <2>4, Members DEF TerminalFails, InboundTypeOK
  <2> QED
    BY <1>10, <2>3, <2>5, <2>6 DEF TerminalFails, InboundTypeOK
<1>11. ASSUME TurnStarts \/ TurnEnds \/ UNCHANGED inVars PROVE InboundTypeOK'
  <2>1. CASE TurnStarts
    BY <2>1 DEF TurnStarts, InboundTypeOK
  <2>2. CASE TurnEnds
    BY <2>2 DEF TurnEnds, InboundTypeOK
  <2>3. CASE UNCHANGED inVars
    BY <2>3 DEF inVars, InboundTypeOK
  <2> QED
    BY <1>11, <2>1, <2>2, <2>3
<1>12. ASSUME Replace PROVE InboundTypeOK'
  <2>1. gen' \in Nat /\ hand' \in [Messages -> {"none", "probe", "commit"}]
    BY <1>0, <1>12 DEF Replace
  <2> QED
    BY <1>12, <1>e, <2>1 DEF Replace, InboundTypeOK
<1> QED
  BY <1>1, <1>2, <1>3, <1>4, <1>5, <1>6, <1>7, <1>8, <1>9, <1>10, <1>11, <1>12 DEF InboundNext

\* What a filter of the queue is, and the types of the claims.
LEMMA QueueFacts ==
  ASSUME InboundTypeOK
  PROVE  /\ queue \in Seq(Messages) /\ ToSet(queue) \in SUBSET Messages /\ gen \in Nat
         /\ \A x : Contains(queue, x) <=> x \in ToSet(queue)
         /\ \A S : Filter(queue, S) \in Seq(Messages)
         /\ \A S : ToSet(Filter(queue, S)) = ToSet(queue) \cap S
         /\ \A n \in Notices : notice[n] \in NoticeTypes
BY FilterKeeps, Members DEF InboundTypeOK

LEMMA ClaimFacts ==
  ASSUME InboundTypeOK, NEW n \in Notices
  PROVE  /\ notice[n].claim.taken \in Seq(Messages) /\ notice[n].claim.original \in Seq(Messages)
         /\ Taken(n) \in SUBSET Messages /\ Original(n) \in SUBSET Messages
<1>1. notice[n].claim.taken \in Seq(Messages) /\ notice[n].claim.original \in Seq(Messages)
  BY QueueFacts DEF NoticeTypes, ClaimTypes
<1> QED
  BY <1>1, Members DEF Taken, Original

\* The dispatch of a notice, and what becomes of it, as moves.
LEMMA TerminalDispatches ==
  ASSUME InboundTypeOK, NEW n \in Notices, Terminal(n)
  PROVE  Dispatches(n)
<1> DEFINE claim == [taken |-> Filter(queue, Claimed(n)), original |-> queue]
<1>1. notice' = [notice EXCEPT ![n] = [notice[n] EXCEPT !.state = "sending", !.claim = claim]]
  BY DEF Terminal
<1> HIDE DEF claim
<1>2. notice'[n] = [notice[n] EXCEPT !.state = "sending", !.claim = claim] /\ Others(n)
  BY <1>1 DEF InboundTypeOK, Others
<1>3. notice'[n].state = "sending" /\ notice'[n].fails = notice[n].fails /\ notice'[n].claim = claim
  BY QueueFacts, <1>2 DEF NoticeTypes
<1>4. notice'[n].claim.original = queue /\ notice'[n].claim.taken = Filter(queue, Claimed(n))
  BY <1>3 DEF claim
<1>5. Taken(n)' = ToSet(queue) \cap Claimed(n)
  <2>1. Taken(n)' = ToSet(Filter(queue, Claimed(n)))
    BY <1>4 DEF Taken
  <2> QED
    BY QueueFacts, <2>1
<1>6. ToSet(queue)' = ToSet(queue) \ Claimed(n)
  <2>1. ToSet(queue)' = ToSet(Filter(queue, Messages \ Claimed(n)))
    BY DEF Terminal
  <2> QED
    BY QueueFacts, <2>1
<1> QED
  BY <1>2, <1>3, <1>4, <1>5, <1>6 DEF Terminal, Dispatches

LEMMA ShownCompletes ==
  ASSUME InboundTypeOK, NEW n \in Notices, TerminalShown(n)
  PROVE  Completes(n)
<1>1. notice' = [notice EXCEPT ![n] = [notice[n] EXCEPT !.state = "shown", !.claim = NoClaim]]
  BY DEF TerminalShown
<1>2. notice'[n] = [notice[n] EXCEPT !.state = "shown", !.claim = NoClaim] /\ Others(n)
  BY <1>1 DEF InboundTypeOK, Others
<1>3. notice'[n].state = "shown" /\ notice'[n].fails = notice[n].fails /\ notice'[n].claim = NoClaim
  BY QueueFacts, <1>2 DEF NoticeTypes
<1>4. Counts(Taken(n) \cup {n})
  <2> DEFINE taken == notice[n].claim.taken
  <2>1. taken \in Seq(Messages \cup Notices) /\ n \in Messages \cup Notices
    BY ClaimFacts
  <2> HIDE DEF taken
  <2>2. /\ Append(taken, n) \in Seq(Messages \cup Notices)
        /\ ToSet(Append(taken, n)) = ToSet(taken) \cup {n}
    BY <2>1, Members
  <2>3. shown' = Show(Append(taken, n)) /\ ToSet(taken) = Taken(n)
    BY DEF TerminalShown, taken, Taken
  <2> QED
    BY <2>2, <2>3, ShowCounts DEF Counts
<1> QED
  BY <1>2, <1>3, <1>4 DEF TerminalShown, Completes

LEMMA FailsRollsBack ==
  ASSUME InboundTypeOK, NEW n \in Notices, TerminalFails(n)
  PROVE  RollsBack(n)
<1> DEFINE back   == notice[n].back \cup ToSet(notice[n].claim.taken)
           failed == [state |-> "none", fails |-> notice[n].fails + 1,
                      back |-> back, claim |-> NoClaim]
<1>1. notice' = [notice EXCEPT ![n] = failed]
  BY DEF TerminalFails
<1>2. notice'[n] = failed /\ Others(n)
  BY <1>1 DEF InboundTypeOK, Others
<1>3. ToSet(queue)' = Original(n) \cup ToSet(queue)
  <2> DEFINE orig == notice[n].claim.original
             rest == Filter(queue, Messages \ ToSet(orig))
  <2>1. orig \in Seq(Messages) /\ rest \in Seq(Messages)
    BY QueueFacts, ClaimFacts
  <2>2. ToSet(orig) = Original(n) /\ ToSet(rest) = ToSet(queue) \ Original(n)
    BY QueueFacts DEF Original
  <2>3. queue' = orig \o rest
    BY DEF TerminalFails, RolledBack
  <2> HIDE DEF orig, rest
  <2>4. ToSet(orig \o rest) = ToSet(orig) \cup ToSet(rest)
    BY <2>1, Members
  <2>5. ToSet(queue)' = ToSet(orig \o rest)
    BY <2>3
  <2> QED
    BY <2>2, <2>4, <2>5
<1>4. revived' = revived \cup (Original(n) \ (Taken(n) \cup ToSet(queue)))
  BY DEF TerminalFails, Original, Taken
<1> QED
  BY <1>2, <1>3, <1>4 DEF TerminalFails, RollsBack

\* Every step is one of the moves.
LEMMA StepsMove == InboundTypeOK /\ [InboundNext]_inVars => Moves
<1> SUFFICES ASSUME InboundTypeOK, [InboundNext]_inVars PROVE Moves
  OBVIOUS
<1>0. /\ queue \in Seq(Messages) /\ ToSet(queue) \in SUBSET Messages /\ gen \in Nat
      /\ \A x : Contains(queue, x) <=> x \in ToSet(queue)
      /\ \A S : Filter(queue, S) \in Seq(Messages)
      /\ \A S : ToSet(Filter(queue, S)) = ToSet(queue) \cap S
      /\ \A n \in Notices : notice[n] \in NoticeTypes
  BY QueueFacts
<1>s. ASSUME NEW ms \in Seq(Messages), Send(ms) PROVE Sends(ToSet(ms))
  <2> DEFINE d == [messages |-> ms, gen |-> gen]
  <2>1. d \in Batches /\ d.messages = ms /\ d.gen = gen
    BY <1>0 DEF Batches
  <2>2. sends' = sends \cup {d}
    BY <1>s DEF Send
  <2> HIDE DEF d
  <2> QED
    BY <2>1, <2>2 DEF Sends
<1>1. ASSUME NEW m \in Messages, ArriveBusy(m) PROVE Queues(m)
  <2>1. ToSet(queue)' = ToSet(queue) \cup {m}
    <3>1. ToSet(Append(queue, m)) = ToSet(queue) \cup {m}
      BY <1>0, Members
    <3> QED
      BY <1>1, <3>1 DEF ArriveBusy
  <2> QED
    BY <1>1, <2>1 DEF ArriveBusy, Queues, Arrives
<1>2. ASSUME NEW m \in Messages, ArriveIdle(m) PROVE Reserves(m)
  <2>1. Sends({m})
    BY <1>2, <1>s, FewMembers DEF ArriveIdle
  <2> QED
    BY <1>2, <2>1 DEF ArriveIdle, Reserves, Arrives
<1>3. ASSUME NEW m \in Messages, CommitAcked(m)
      PROVE  Stays \/ Surfaces({m})
  <2>1. CASE ~Contains(queue, m)
    BY <1>3, <2>1 DEF CommitAcked, Stays
  <2>2. CASE Contains(queue, m)
    <3>1. queue' = Filter(queue, Messages \ {m}) /\ Send(<<m>>)
      BY <1>3, <2>2 DEF CommitAcked
    <3>2. ToSet(queue)' = ToSet(queue) \ {m}
      <4>1. ToSet(queue)' = ToSet(Filter(queue, Messages \ {m}))
        BY <3>1
      <4> QED
        BY <1>0, <4>1
    <3>3. Sends({m})
      BY <1>s, <3>1, FewMembers
    <3>4. {m} # {} /\ {m} \subseteq ToSet(queue)
      BY <1>0, <2>2
    <3> QED
      BY <1>3, <3>2, <3>3, <3>4 DEF CommitAcked, Surfaces
  <2> QED
    BY <2>1, <2>2
<1>4. ASSUME Flush PROVE Stays \/ Surfaces(ToSet(queue))
  <2>1. CASE queue = <<>>
    BY <1>4, <2>1 DEF Flush, Stays
  <2>2. CASE queue # <<>>
    <3>1. ToSet(queue) # {}
      BY <1>0, <2>2, Members
    <3>2. ToSet(queue)' = ToSet(queue) \ ToSet(queue)
      <4>1. ToSet(queue)' = ToSet(<<>>)
        BY <1>4 DEF Flush
      <4> QED
        BY <4>1 DEF ToSet
    <3>3. Sends(ToSet(queue))
      BY <1>0, <1>4, <1>s, <2>2 DEF Flush
    <3> QED
      BY <1>4, <3>1, <3>2, <3>3 DEF Flush, Surfaces
  <2> QED
    BY <2>1, <2>2
<1>5. ASSUME NEW d \in sends PROVE /\ SendSucceeds(d) => Succeeds(d)
                                   /\ SendRetires(d) => Retires(d)
  <2>1. d.messages \in Seq(Messages)
    BY DEF InboundTypeOK, Batches
  <2>2. \A x : Contains(d.messages, x) <=> x \in ToSet(d.messages)
    BY <2>1, Members
  <2>3. ASSUME SendSucceeds(d) PROVE Succeeds(d)
    <3>1. Counts(ToSet(d.messages))
      BY <2>1, <2>3, ShowCounts DEF SendSucceeds, Counts
    <3> QED
      BY <2>2, <2>3, <3>1 DEF SendSucceeds, Succeeds
  <2>4. ASSUME SendRetires(d) PROVE Retires(d)
    BY <2>2, <2>4 DEF SendRetires, Retires
  <2> QED
    BY <2>3, <2>4
<1>6. ASSUME NEW n \in Notices
      PROVE  /\ Terminal(n) => Dispatches(n)
             /\ TerminalShown(n) => Completes(n)
             /\ TerminalFails(n) => RollsBack(n)
  BY TerminalDispatches, ShownCompletes, FailsRollsBack
<1>9. ASSUME NEW m \in Messages, ProbeAcked(m) \/ Unclaimed(m) PROVE Stays
  BY <1>9 DEF ProbeAcked, Unclaimed, Stays
<1>10. ASSUME TurnStarts \/ TurnEnds \/ UNCHANGED inVars PROVE Stays
  BY <1>10 DEF TurnStarts, TurnEnds, inVars, Stays
<1>11. ASSUME Replace PROVE Replaces
  BY <1>11 DEF Replace, Replaces
<1> QED
  <2>1. CASE \E m \in Messages : ArriveBusy(m) \/ ArriveIdle(m) \/ ProbeAcked(m) \/ CommitAcked(m) \/ Unclaimed(m)
    BY <1>1, <1>2, <1>3, <1>9, <2>1 DEF Moves
  <2>2. CASE Flush
    BY <1>0, <1>4, <2>2 DEF Moves
  <2>3. CASE \E d \in sends : SendSucceeds(d) \/ SendRetires(d)
    BY <1>5, <2>3 DEF Moves
  <2>4. CASE \E n \in Notices : Terminal(n) \/ TerminalShown(n) \/ TerminalFails(n)
    BY <1>6, <2>4 DEF Moves
  <2>5. CASE Replace \/ TurnStarts \/ TurnEnds \/ UNCHANGED inVars
    BY <1>10, <1>11, <2>5 DEF Moves
  <2> QED
    BY <2>1, <2>2, <2>3, <2>4, <2>5 DEF InboundNext

-----------------------------------------------------------------------------
\* Where a message is after a send is added, and after one is settled.
LEMMA SendAdded ==
  ASSUME NEW ms, Sends(ms), NEW m
  PROVE  /\ InSend(m)' <=> m \in ms \/ InSend(m)
         /\ OneSend(m) /\ ~(m \in ms /\ InSend(m)) => OneSend(m)'
<1>1. PICK d \in Batches : sends' = sends \cup {d} /\ ToSet(d.messages) = ms
  BY DEF Sends
<1> QED
  BY <1>1 DEF InSend, OneSend

LEMMA SendSettled ==
  ASSUME NEW d \in sends, sends' = sends \ {d}, NEW m
  PROVE  /\ OneSend(m) => OneSend(m)'
         /\ InSend(m)' => InSend(m)
         /\ m \notin ToSet(d.messages) => (InSend(m)' <=> InSend(m))
         /\ OneSend(m) /\ m \in ToSet(d.messages) => ~InSend(m)'
BY DEF InSend, OneSend

LEMMA SendsKept ==
  ASSUME UNCHANGED sends, NEW m
  PROVE  (InSend(m)' <=> InSend(m)) /\ (OneSend(m)' <=> OneSend(m))
BY DEF InSend, OneSend

\* What the notices claim after a step.
LEMMA ClaimsKept ==
  ASSUME UNCHANGED notice, NEW n
  PROVE  Taken(n)' = Taken(n) /\ Original(n)' = Original(n)
BY DEF Taken, Original

LEMMA ClaimMade ==
  ASSUME NEW n \in Notices, Dispatches(n)
  PROVE  /\ Original(n)' = ToSet(queue)
         /\ Taken(n)' = ToSet(queue) \cap Claimed(n)
         /\ \A k \in Notices \ {n} : Taken(k)' = Taken(k) /\ Original(k)' = Original(k)
BY DEF Dispatches, Others, Taken, Original

LEMMA ClaimEnded ==
  ASSUME NEW n \in Notices, Completes(n) \/ RollsBack(n)
  PROVE  /\ Original(n)' = {} /\ Taken(n)' = {}
         /\ \A k \in Notices \ {n} : Taken(k)' = Taken(k) /\ Original(k)' = Original(k)
<1>1. notice'[n].claim = NoClaim /\ Others(n)
  BY DEF Completes, RollsBack
<1>2. Original(n)' = ToSet(<<>>) /\ Taken(n)' = ToSet(<<>>)
  BY <1>1 DEF NoClaim, Original, Taken
<1>3. ToSet(<<>>) = {}
  BY DEF ToSet
<1>4. \A k \in Notices \ {n} : Taken(k)' = Taken(k) /\ Original(k)' = Original(k)
  BY <1>1 DEF Others, Taken, Original
<1> QED
  BY <1>2, <1>3, <1>4

\* A claim holds what it was taken from, less what the notice does not order.
LEMMA ClaimsStep == InboundTypeOK /\ ClaimsHold /\ Moves => ClaimsHold'
<1> SUFFICES ASSUME InboundTypeOK, ClaimsHold, Moves, NEW n \in Notices
             PROVE  /\ Taken(n)' = Original(n)' \cap Claimed(n)
                    /\ notice'[n].state # "sending" => notice'[n].claim = NoClaim
  BY DEF ClaimsHold, Claimed, Claims
<1>0. Taken(n) = Original(n) \cap Claimed(n) /\ (notice[n].state # "sending" => notice[n].claim = NoClaim)
  BY DEF ClaimsHold
<1>1. CASE UNCHANGED notice
  BY <1>0, <1>1, ClaimsKept
<1>2. ASSUME NEW k \in Notices, Dispatches(k) PROVE
        /\ Taken(n)' = Original(n)' \cap Claimed(n)
        /\ notice'[n].state # "sending" => notice'[n].claim = NoClaim
  BY <1>0, <1>2, ClaimMade DEF Dispatches, Others
<1>3. ASSUME NEW k \in Notices, Completes(k) \/ RollsBack(k) PROVE
        /\ Taken(n)' = Original(n)' \cap Claimed(n)
        /\ notice'[n].state # "sending" => notice'[n].claim = NoClaim
  BY <1>0, <1>3, ClaimEnded DEF Completes, RollsBack, Others
<1> QED
  BY <1>1, <1>2, <1>3 DEF Moves, Stays, Replaces, Queues, Reserves, Arrives, Surfaces, Succeeds, Retires

\* The generation of an entry passes before that of its send, and that before
\* the session's.
LEMMA GenerationsStep ==
  InboundTypeOK /\ AdmittedFirst /\ GenerationsPass /\ Moves => GenerationsPass'
<1> SUFFICES ASSUME InboundTypeOK, AdmittedFirst, GenerationsPass, Moves PROVE GenerationsPass'
  OBVIOUS
<1>0. /\ gen \in Nat /\ \A m \in Messages : entry[m] \in Entries /\ entry[m].gen \in Nat
      /\ DOMAIN entry = Messages
      /\ \A d \in sends : d.gen \in Nat /\ ToSet(d.messages) \subseteq Messages
  <2>1. \A d \in sends : d.gen \in Nat /\ d.messages \in Seq(Messages)
    BY DEF InboundTypeOK, Batches
  <2> QED
    BY <2>1, Members DEF InboundTypeOK, Entries
<1>1. ASSUME NEW ms \in SUBSET Messages, Sends(ms), UNCHANGED gen,
             \A m \in Messages : entry'[m].gen = entry[m].gen \/ (entry'[m].gen = gen /\ ~InSend(m))
      PROVE  GenerationsPass'
  <2>1. PICK d \in Batches : sends' = sends \cup {d} /\ ToSet(d.messages) = ms /\ d.gen = gen
    BY <1>1 DEF Sends
  <2>2. \A m \in Messages : entry'[m].gen <= gen
    BY <1>0, <1>1 DEF GenerationsPass
  <2>3. ASSUME NEW e \in sends, NEW m \in ToSet(e.messages)
        PROVE  entry'[m].gen <= e.gen
    <3>1. m \in Messages /\ InSend(m)
      BY <1>0, <2>3 DEF InSend
    <3> QED
      BY <1>1, <2>3, <3>1 DEF GenerationsPass
  <2> QED
    BY <1>0, <1>1, <2>1, <2>2, <2>3 DEF GenerationsPass
<1>2. ASSUME sends' \subseteq sends, gen' \in {gen, gen + 1},
             \A m \in Messages : entry'[m].gen = entry[m].gen \/ (entry'[m].gen = gen /\ ~InSend(m))
      PROVE  GenerationsPass'
  <2>1. gen <= gen' /\ gen' \in Nat
    BY <1>0, <1>2
  <2>2. \A m \in Messages : entry'[m].gen <= gen'
    BY <1>0, <1>2, <2>1 DEF GenerationsPass
  <2>3. ASSUME NEW e \in sends'
        PROVE  e.gen <= gen' /\ \A m \in ToSet(e.messages) : entry'[m].gen <= e.gen
    <3>1. e \in sends /\ e.gen <= gen'
      BY <1>0, <1>2, <2>1, <2>3 DEF GenerationsPass
    <3>2. \A m \in ToSet(e.messages) : m \in Messages /\ InSend(m)
      BY <1>0, <3>1 DEF InSend
    <3> QED
      BY <1>2, <3>1, <3>2 DEF GenerationsPass
  <2> QED
    BY <2>2, <2>3 DEF GenerationsPass
<1>3. ASSUME NEW m \in Messages, NEW state \in {"done", "reserved"}, Arrives(m, state)
      PROVE  \A k \in Messages : \/ entry'[k].gen = entry[k].gen
                                 \/ entry'[k].gen = gen /\ ~InSend(k)
  <2>1. Admitted(state).gen = gen /\ ~InSend(m)
    BY <1>3, AdmittedLast DEF Arrives, AdmittedFirst
  <2> QED
    BY <1>0, <1>3, <2>1 DEF Arrives
<1>4. ASSUME NEW m \in Messages, Queues(m) PROVE GenerationsPass'
  BY <1>2, <1>3, <1>4 DEF Queues, Arrives
<1>5. ASSUME NEW m \in Messages, Reserves(m) PROVE GenerationsPass'
  BY <1>1, <1>3, <1>5 DEF Reserves, Arrives
<1>6. ASSUME NEW ms \in SUBSET Messages, Surfaces(ms) PROVE GenerationsPass'
  BY <1>1, <1>6 DEF Surfaces
<1>7. ASSUME NEW d \in sends, Succeeds(d) \/ Retires(d) PROVE GenerationsPass'
  <2>1. \A m \in Messages : entry'[m].gen = entry[m].gen
    BY <1>0, <1>7 DEF Succeeds, Retires, Entries
  <2> QED
    BY <1>2, <1>7, <2>1 DEF Succeeds, Retires
<1>8. ASSUME Stays \/ Replaces \/ \E n \in Notices : Dispatches(n) \/ Completes(n) \/ RollsBack(n)
      PROVE  GenerationsPass'
  BY <1>2, <1>8 DEF Stays, Replaces, Dispatches, Completes, RollsBack
<1> QED
  BY <1>4, <1>5, <1>6, <1>7, <1>8 DEF Moves

\* What the steps count and admit, entry by entry.
LEMMA EntriesAfter ==
  ASSUME InboundTypeOK
  PROVE  /\ \A m, k \in Messages, state \in {"done", "reserved"} :
              Arrives(m, state) =>
                /\ entry[m].state = "new"
                /\ entry'[k] = IF k = m THEN Admitted(state) ELSE entry[k]
                /\ entry'[m].state = state
         /\ \A d \in sends, m \in Messages :
              Succeeds(d) => /\ entry'[m].gen = entry[m].gen /\ entry'[m].nr = entry[m].nr
                             /\ entry'[m].state = IF m \in ToSet(d.messages) THEN "done"
                                                                             ELSE entry[m].state
         /\ \A d \in sends, m \in Messages :
              Retires(d) => /\ entry'[m].gen = entry[m].gen /\ entry'[m].nr = entry[m].nr
                            /\ entry'[m].state = IF m \in ToSet(d.messages) /\ entry[m].state = "reserved"
                                                   THEN "new" ELSE entry[m].state
         /\ \A x \in Messages \cup Notices : shown[x] \in Nat
         /\ \A d \in sends : ToSet(d.messages) \subseteq Messages
         /\ ToSet(queue) \subseteq Messages
         /\ \A n \in Notices : Taken(n) \subseteq Messages /\ Original(n) \subseteq Messages
<1>1. DOMAIN entry = Messages /\ \A m \in Messages : entry[m] \in Entries
  BY DEF InboundTypeOK
<1>2. ASSUME NEW m \in Messages, NEW k \in Messages, NEW state \in {"done", "reserved"},
             Arrives(m, state)
      PROVE  /\ entry[m].state = "new"
             /\ entry'[k] = IF k = m THEN Admitted(state) ELSE entry[k]
             /\ entry'[m].state = state
  <2>1. Admitted(state).state = state
    BY AdmittedLast
  <2> QED
    BY <1>1, <1>2, <2>1 DEF Arrives
<1>3. ASSUME NEW d \in sends, NEW m \in Messages, Succeeds(d)
      PROVE  /\ entry'[m].gen = entry[m].gen /\ entry'[m].nr = entry[m].nr
             /\ entry'[m].state = IF m \in ToSet(d.messages) THEN "done" ELSE entry[m].state
  BY <1>1, <1>3 DEF Succeeds, Entries
<1>4. ASSUME NEW d \in sends, NEW m \in Messages, Retires(d)
      PROVE  /\ entry'[m].gen = entry[m].gen /\ entry'[m].nr = entry[m].nr
             /\ entry'[m].state = IF m \in ToSet(d.messages) /\ entry[m].state = "reserved"
                                    THEN "new" ELSE entry[m].state
  BY <1>1, <1>4 DEF Retires, Entries
<1>5. /\ \A x \in Messages \cup Notices : shown[x] \in Nat
      /\ \A d \in sends : ToSet(d.messages) \subseteq Messages
      /\ ToSet(queue) \subseteq Messages
  <2>1. queue \in Seq(Messages) /\ \A d \in sends : d.messages \in Seq(Messages)
    BY DEF InboundTypeOK, Batches
  <2> QED
    BY <2>1, Members DEF InboundTypeOK
<1>6. ASSUME NEW n \in Notices PROVE Taken(n) \subseteq Messages /\ Original(n) \subseteq Messages
  <2>1. notice[n].claim.taken \in Seq(Messages) /\ notice[n].claim.original \in Seq(Messages)
    BY DEF InboundTypeOK, NoticeTypes, ClaimTypes
  <2> QED
    BY <2>1, Members DEF Taken, Original
<1> QED
  BY <1>2, <1>3, <1>4, <1>5, <1>6

\* No step moves a message before it is admitted.
LEMMA AdmittedStep == InboundTypeOK /\ AdmittedFirst /\ ClaimsHold /\ Moves => AdmittedFirst'
<1> SUFFICES ASSUME InboundTypeOK, AdmittedFirst, ClaimsHold, Moves,
                    NEW m \in Messages, entry'[m].state # "done"
             PROVE  /\ m \notin ToSet(queue)' /\ shown'[m] = 0
                    /\ \A n \in Notices : m \notin Original(n)'
                    /\ OneSend(m)' /\ (entry'[m].state = "new" => ~InSend(m)')
  BY DEF AdmittedFirst
<1> DEFINE Nowhere == /\ m \notin ToSet(queue) /\ shown[m] = 0 /\ \A n \in Notices : m \notin Original(n)
           Once == OneSend(m) /\ (entry[m].state = "new" => ~InSend(m))
           Goal == /\ m \notin ToSet(queue)' /\ shown'[m] = 0
                   /\ \A n \in Notices : m \notin Original(n)'
                   /\ OneSend(m)' /\ (entry'[m].state = "new" => ~InSend(m)')
<1>0. entry[m].state # "done" => Nowhere /\ Once
  BY DEF AdmittedFirst
<1>n. ASSUME UNCHANGED notice PROVE \A n \in Notices : Original(n)' = Original(n)
  BY <1>n, ClaimsKept
<1>1. ASSUME Stays PROVE Goal
  BY <1>0, <1>1, <1>n, SendsKept DEF Stays
<1>2. ASSUME Replaces PROVE Goal
  <2>1. ToSet(queue)' = {}
    BY <1>2 DEF Replaces, ToSet
  <2> QED
    BY <1>0, <1>2, <1>n, <2>1, SendsKept DEF Replaces
<1>3. ASSUME NEW k \in Messages, Queues(k) PROVE Goal
  <2>1. k # m /\ entry'[m] = entry[m]
    BY <1>3, EntriesAfter DEF Queues
  <2> QED
    BY <1>0, <1>3, <1>n, <2>1, SendsKept DEF Queues, Arrives
<1>4. ASSUME NEW k \in Messages, Reserves(k) PROVE Goal
  <2>1. entry[m].state # "done" /\ (k # m => entry'[m] = entry[m])
        /\ (k = m => entry[m].state = "new" /\ entry'[m].state = "reserved")
    BY <1>4, EntriesAfter DEF Reserves
  <2>2. (InSend(m)' <=> m \in {k} \/ InSend(m)) /\ (OneSend(m) /\ ~(m \in {k} /\ InSend(m)) => OneSend(m)')
    BY <1>4, SendAdded DEF Reserves
  <2> QED
    BY <1>0, <1>4, <1>n, <2>1, <2>2 DEF Reserves, Arrives
<1>5. ASSUME NEW ms \in SUBSET Messages, Surfaces(ms) PROVE Goal
  <2>1. entry'[m] = entry[m] /\ m \notin ms
    BY <1>0, <1>5 DEF Surfaces
  <2>2. (InSend(m)' <=> m \in ms \/ InSend(m)) /\ (OneSend(m) /\ ~(m \in ms /\ InSend(m)) => OneSend(m)')
    BY <1>5, SendAdded DEF Surfaces
  <2> QED
    BY <1>0, <1>5, <1>n, <2>1, <2>2 DEF Surfaces
<1>6. ASSUME NEW d \in sends, Succeeds(d) PROVE Goal
  <2>1. m \notin ToSet(d.messages) /\ entry'[m].state = entry[m].state
    BY <1>6, EntriesAfter
  <2>2. (OneSend(m) => OneSend(m)') /\ (InSend(m)' => InSend(m))
    BY <1>6, SendSettled DEF Succeeds
  <2>3. shown'[m] = shown[m]
    BY <1>6, <2>1 DEF Succeeds, Counts
  <2> QED
    BY <1>0, <1>6, <1>n, <2>1, <2>2, <2>3 DEF Succeeds
<1>7. ASSUME NEW d \in sends, Retires(d) PROVE Goal
  <2>1. entry'[m].state = IF m \in ToSet(d.messages) /\ entry[m].state = "reserved"
                            THEN "new" ELSE entry[m].state
    BY <1>7, EntriesAfter
  <2>2. /\ OneSend(m) => OneSend(m)'
        /\ InSend(m)' => InSend(m)
        /\ OneSend(m) /\ m \in ToSet(d.messages) => ~InSend(m)'
    BY <1>7, SendSettled DEF Retires
  <2> QED
    BY <1>0, <1>7, <1>n, <2>1, <2>2 DEF Retires
<1>8. ASSUME NEW n \in Notices, Dispatches(n) PROVE Goal
  BY <1>0, <1>8, ClaimMade, SendsKept DEF Dispatches
<1>9. ASSUME NEW n \in Notices, Completes(n) PROVE Goal
  <2>1. Taken(n) \subseteq Original(n) /\ m # n
    BY InboundAssumption DEF ClaimsHold
  <2>2. shown'[m] = IF m \in Taken(n) THEN shown[m] + 1 ELSE shown[m]
    BY <1>9, <2>1 DEF Completes, Counts
  <2> QED
    BY <1>0, <1>9, <2>1, <2>2, ClaimEnded, SendsKept DEF Completes
<1>10. ASSUME NEW n \in Notices, RollsBack(n) PROVE Goal
  BY <1>0, <1>10, ClaimEnded, SendsKept DEF RollsBack
<1> QED
  BY <1>1, <1>2, <1>3, <1>4, <1>5, <1>6, <1>7, <1>8, <1>9, <1>10 DEF Moves

\* No step brings a message where it is already, unless it revives it.
LEMMA OnePlaceStep ==
  InboundTypeOK /\ AdmittedFirst /\ ClaimsHold /\ OnePlace /\ Moves => OnePlace'
<1> DEFINE At(m) == /\ shown[m] <= 1 /\ OneSend(m)
                    /\ m \in ToSet(queue) =>
                         shown[m] = 0 /\ ~InSend(m) /\ \A n \in Notices : m \notin Taken(n)
                    /\ InSend(m) => shown[m] = 0 /\ \A n \in Notices : m \notin Taken(n)
                    /\ \A n \in Notices : m \in Taken(n) =>
                         shown[m] = 0 /\ \A k \in Notices : m \in Taken(k) => k = n
<1> SUFFICES ASSUME InboundTypeOK, AdmittedFirst, ClaimsHold, OnePlace, Moves,
                    NEW m \in Messages, m \notin revived'
             PROVE  At(m)'
  BY DEF OnePlace
<1>0. m \notin revived => At(m)
  BY DEF OnePlace
<1>r. m \notin revived
  BY DEF Moves, Stays, Replaces, Queues, Reserves, Arrives, Surfaces, Succeeds, Retires,
         Dispatches, Completes, RollsBack
<1>t. /\ shown[m] \in Nat /\ \A n \in Notices : m # n
      /\ \A n \in Notices : Taken(n) \subseteq Original(n)
      /\ entry[m].state = "new" =>
           ~InSend(m) /\ m \notin ToSet(queue) /\ shown[m] = 0 /\ \A n \in Notices : m \notin Taken(n)
  BY EntriesAfter, InboundAssumption DEF ClaimsHold, AdmittedFirst
<1>n. ASSUME UNCHANGED notice PROVE \A n \in Notices : Taken(n)' = Taken(n)
  BY <1>n, ClaimsKept
<1>1. ASSUME Stays PROVE At(m)'
  BY <1>0, <1>r, <1>1, <1>n, SendsKept DEF Stays
<1>2. ASSUME Replaces PROVE At(m)'
  <2>1. ToSet(queue)' = {}
    BY <1>2 DEF Replaces, ToSet
  <2> QED
    BY <1>0, <1>r, <1>2, <1>n, <2>1, SendsKept DEF Replaces
<1>3. ASSUME NEW k \in Messages, Queues(k) PROVE At(m)'
  <2>1. entry[k].state = "new"
    BY <1>3 DEF Queues, Arrives
  <2> QED
    BY <1>0, <1>r, <1>t, <1>3, <1>n, <2>1, SendsKept DEF Queues, Arrives
<1>4. ASSUME NEW k \in Messages, Reserves(k) PROVE At(m)'
  <2>1. entry[k].state = "new"
    BY <1>4 DEF Reserves, Arrives
  <2>2. (InSend(m)' <=> m \in {k} \/ InSend(m)) /\ (OneSend(m) /\ ~(m \in {k} /\ InSend(m)) => OneSend(m)')
    BY <1>4, SendAdded DEF Reserves
  <2> QED
    BY <1>0, <1>r, <1>t, <1>4, <1>n, <2>1, <2>2 DEF Reserves, Arrives
<1>5. ASSUME NEW ms \in SUBSET Messages, Surfaces(ms) PROVE At(m)'
  <2>1. (InSend(m)' <=> m \in ms \/ InSend(m)) /\ (OneSend(m) /\ ~(m \in ms /\ InSend(m)) => OneSend(m)')
    BY <1>5, SendAdded DEF Surfaces
  <2> QED
    BY <1>0, <1>r, <1>5, <1>n, <2>1 DEF Surfaces
<1>6. ASSUME NEW d \in sends, Succeeds(d) PROVE At(m)'
  <2>1. /\ OneSend(m) => OneSend(m)'
        /\ InSend(m)' => InSend(m)
        /\ OneSend(m) /\ m \in ToSet(d.messages) => ~InSend(m)'
    BY <1>6, SendSettled DEF Succeeds
  <2>2. shown'[m] = IF m \in ToSet(d.messages) THEN shown[m] + 1 ELSE shown[m]
    BY <1>6 DEF Succeeds, Counts
  <2>3. m \in ToSet(d.messages) => InSend(m)
    BY DEF InSend
  <2> QED
    BY <1>0, <1>r, <1>t, <1>6, <1>n, <2>1, <2>2, <2>3 DEF Succeeds
<1>7. ASSUME NEW d \in sends, Retires(d) PROVE At(m)'
  <2>1. (OneSend(m) => OneSend(m)') /\ (InSend(m)' => InSend(m))
    BY <1>7, SendSettled DEF Retires
  <2> QED
    BY <1>0, <1>r, <1>7, <1>n, <2>1 DEF Retires
<1>8. ASSUME NEW n \in Notices, Dispatches(n) PROVE At(m)'
  <2>1. m \in Taken(n)' => m \in ToSet(queue) /\ m \notin ToSet(queue)'
    BY <1>8, ClaimMade DEF Dispatches
  <2>2. m \in ToSet(queue)' => m \in ToSet(queue)
    BY <1>8 DEF Dispatches
  <2>3. \A k \in Notices \ {n} : Taken(k)' = Taken(k)
    BY <1>8, ClaimMade
  <2>4. (InSend(m)' <=> InSend(m)) /\ (OneSend(m)' <=> OneSend(m)) /\ shown' = shown
    BY <1>8, SendsKept DEF Dispatches
  <2> QED
    BY <1>0, <1>r, <2>1, <2>2, <2>3, <2>4
<1>9. ASSUME NEW n \in Notices, Completes(n) PROVE At(m)'
  <2>1. shown'[m] = IF m \in Taken(n) THEN shown[m] + 1 ELSE shown[m]
    BY <1>9, <1>t DEF Completes, Counts
  <2>2. Taken(n)' = {} /\ \A k \in Notices \ {n} : Taken(k)' = Taken(k)
    BY <1>9, ClaimEnded
  <2>3. (InSend(m)' <=> InSend(m)) /\ (OneSend(m)' <=> OneSend(m)) /\ UNCHANGED queue
    BY <1>9, SendsKept DEF Completes
  <2> QED
    BY <1>0, <1>r, <1>t, <2>1, <2>2, <2>3
<1>10. ASSUME NEW n \in Notices, RollsBack(n) PROVE At(m)'
  <2>1. Taken(n)' = {} /\ \A k \in Notices \ {n} : Taken(k)' = Taken(k)
    BY <1>10, ClaimEnded
  <2>2. (InSend(m)' <=> InSend(m)) /\ (OneSend(m)' <=> OneSend(m)) /\ shown' = shown
    BY <1>10, SendsKept DEF RollsBack
  <2>3. m \in ToSet(queue)' => m \in Taken(n) \/ m \in ToSet(queue)
    BY <1>10 DEF RollsBack
  <2> QED
    BY <1>0, <1>r, <2>1, <2>2, <2>3
<1> QED
  BY <1>1, <1>2, <1>3, <1>4, <1>5, <1>6, <1>7, <1>8, <1>9, <1>10 DEF Moves

\* A notice is counted when it is shown.
LEMMA NoticesStep == InboundTypeOK /\ NoticesOnce /\ Moves => NoticesOnce'
<1> SUFFICES ASSUME InboundTypeOK, NoticesOnce, Moves, NEW n \in Notices
             PROVE  shown'[n] = IF notice'[n].state = "shown" THEN 1 ELSE 0
  BY DEF NoticesOnce
<1>0. /\ shown[n] = IF notice[n].state = "shown" THEN 1 ELSE 0
      /\ \A d \in sends : n \notin ToSet(d.messages)
      /\ \A k \in Notices : n \notin Taken(k)
  <2>1. n \notin Messages
    BY InboundAssumption
  <2> QED
    BY <2>1, EntriesAfter DEF NoticesOnce
<1>1. ASSUME NEW d \in sends, Succeeds(d)
      PROVE  shown'[n] = IF notice'[n].state = "shown" THEN 1 ELSE 0
  BY <1>0, <1>1 DEF Succeeds, Counts
<1>2. ASSUME NEW k \in Notices, Completes(k)
      PROVE  shown'[n] = IF notice'[n].state = "shown" THEN 1 ELSE 0
  <2>1. shown'[n] = IF n \in Taken(k) \cup {k} THEN shown[n] + 1 ELSE shown[n]
    BY <1>2 DEF Completes, Counts
  <2> QED
    BY <1>0, <1>2, <2>1 DEF Completes, Others
<1>3. ASSUME NEW k \in Notices, Dispatches(k) \/ RollsBack(k)
      PROVE  shown'[n] = IF notice'[n].state = "shown" THEN 1 ELSE 0
  BY <1>0, <1>3 DEF Dispatches, RollsBack, Others
<1> QED
  BY <1>0, <1>1, <1>2, <1>3
     DEF Moves, Stays, Replaces, Queues, Reserves, Arrives, Surfaces, Retires

\* A message is queued, sent, claimed or in the conversation.
Somewhere(m) ==
  m \in ToSet(queue) \/ shown[m] > 0 \/ InSend(m) \/ \E n \in Notices : m \in Taken(n)

LEMMA LostNowhere ==
  InboundTypeOK =>
    (NothingLost <=> \A m \in Messages : entry[m].state # "new" /\ entry[m].gen = gen => Somewhere(m))
<1> SUFFICES ASSUME InboundTypeOK, NEW m \in Messages
             PROVE  Somewhere(m) <=>
                      \/ Contains(queue, m) \/ shown[m] > 0
                      \/ \E d \in sends : Contains(d.messages, m)
                      \/ \E n \in Notices : Contains(notice[n].claim.taken, m)
  BY DEF NothingLost
<1>1. Contains(queue, m) <=> m \in ToSet(queue)
  BY Members DEF InboundTypeOK
<1>2. ASSUME NEW d \in sends PROVE Contains(d.messages, m) <=> m \in ToSet(d.messages)
  <2>1. d.messages \in Seq(Messages)
    BY DEF InboundTypeOK, Batches
  <2> QED
    BY <2>1, Members
<1>3. ASSUME NEW n \in Notices PROVE Contains(notice[n].claim.taken, m) <=> m \in Taken(n)
  <2>1. notice[n].claim.taken \in Seq(Messages)
    BY DEF InboundTypeOK, NoticeTypes, ClaimTypes
  <2> QED
    BY <2>1, Members DEF Taken
<1> QED
  BY <1>1, <1>2, <1>3 DEF Somewhere, InSend

\* A message of this generation that leaves one place is in another.
LEMMA LostStep ==
  InboundTypeOK /\ InboundTypeOK' /\ AdmittedFirst /\ GenerationsPass /\ ClaimsHold /\ NothingLost /\ Moves
    => NothingLost'
<1> SUFFICES ASSUME InboundTypeOK, InboundTypeOK', AdmittedFirst, GenerationsPass, ClaimsHold,
                    NothingLost, Moves
             PROVE  NothingLost'
  OBVIOUS
<1>p. (NothingLost <=> \A m \in Messages : entry[m].state # "new" /\ entry[m].gen = gen => Somewhere(m))'
  BY LostNowhere, PTL
<1> SUFFICES ASSUME NEW m \in Messages, entry'[m].state # "new", entry'[m].gen = gen'
             PROVE  Somewhere(m)'
  BY <1>p
<1>0. entry[m].state # "new" /\ entry[m].gen = gen => Somewhere(m)
  BY LostNowhere
<1>t. /\ gen \in Nat /\ shown[m] \in Nat /\ \A n \in Notices : m # n
      /\ \A n \in Notices : Taken(n) \subseteq Original(n)
      /\ entry[m].gen \in Nat /\ entry[m].gen <= gen
  BY EntriesAfter, InboundAssumption DEF ClaimsHold, GenerationsPass, InboundTypeOK, Entries
<1>n. ASSUME UNCHANGED notice PROVE \A n \in Notices : Taken(n)' = Taken(n)
  BY <1>n, ClaimsKept
<1>1. ASSUME Stays PROVE Somewhere(m)'
  BY <1>0, <1>1, <1>n, SendsKept DEF Stays, Somewhere
<1>2. ASSUME Replaces PROVE FALSE
  BY <1>t, <1>2 DEF Replaces
<1>3. ASSUME NEW k \in Messages, Queues(k) PROVE Somewhere(m)'
  <2>1. k # m => entry'[m] = entry[m]
    BY <1>3, EntriesAfter DEF Queues
  <2> QED
    BY <1>0, <1>3, <1>n, <2>1, SendsKept DEF Queues, Arrives, Somewhere
<1>4. ASSUME NEW k \in Messages, Reserves(k) PROVE Somewhere(m)'
  <2>1. k # m => entry'[m] = entry[m]
    BY <1>4, EntriesAfter DEF Reserves
  <2>2. InSend(m)' <=> m \in {k} \/ InSend(m)
    BY <1>4, SendAdded DEF Reserves
  <2> QED
    BY <1>0, <1>4, <1>n, <2>1, <2>2 DEF Reserves, Arrives, Somewhere
<1>5. ASSUME NEW ms \in SUBSET Messages, Surfaces(ms) PROVE Somewhere(m)'
  <2>1. InSend(m)' <=> m \in ms \/ InSend(m)
    BY <1>5, SendAdded DEF Surfaces
  <2> QED
    BY <1>0, <1>5, <1>n, <2>1 DEF Surfaces, Somewhere
<1>6. ASSUME NEW d \in sends, Succeeds(d) PROVE Somewhere(m)'
  <2>1. m \notin ToSet(d.messages) => (InSend(m)' <=> InSend(m))
    BY <1>6, SendSettled DEF Succeeds
  <2>2. shown'[m] = IF m \in ToSet(d.messages) THEN shown[m] + 1 ELSE shown[m]
    BY <1>6 DEF Succeeds, Counts
  <2>3. m \notin ToSet(d.messages) => entry[m].state # "new" /\ entry[m].gen = gen
    BY <1>6, EntriesAfter DEF Succeeds
  <2> QED
    BY <1>0, <1>t, <1>6, <1>n, <2>1, <2>2, <2>3 DEF Succeeds, Somewhere
<1>7. ASSUME NEW d \in sends, Retires(d) PROVE Somewhere(m)'
  <2>1. m \notin ToSet(d.messages) => (InSend(m)' <=> InSend(m))
    BY <1>7, SendSettled DEF Retires
  <2>2. /\ entry[m].gen = gen
        /\ m \notin ToSet(d.messages) => entry[m].state # "new"
    BY <1>7, EntriesAfter DEF Retires
  <2>3. m \notin ToSet(d.messages)
    <3>1. d.gen \in Nat /\ d.gen <= gen /\ d.gen # gen
      BY <1>7 DEF GenerationsPass, Retires, InboundTypeOK, Batches
    <3>2. m \in ToSet(d.messages) => entry[m].gen <= d.gen
      BY DEF GenerationsPass
    <3> QED
      BY <1>t, <2>2, <3>1, <3>2
  <2> QED
    BY <1>0, <1>7, <1>n, <2>1, <2>2, <2>3 DEF Retires, Somewhere
<1>8. ASSUME NEW n \in Notices, Dispatches(n) PROVE Somewhere(m)'
  <2>1. Taken(n)' = ToSet(queue) \cap Claimed(n) /\ \A k \in Notices \ {n} : Taken(k)' = Taken(k)
    BY <1>8, ClaimMade
  <2>2. Taken(n) = {}
    <3>1. notice[n].claim = NoClaim
      BY <1>8 DEF ClaimsHold, Dispatches
    <3> QED
      BY <3>1 DEF Taken, NoClaim, ToSet
  <2>3. ToSet(queue)' = ToSet(queue) \ Claimed(n) /\ UNCHANGED <<gen, entry, shown>>
    BY <1>8 DEF Dispatches
  <2>4. InSend(m)' <=> InSend(m)
    BY <1>8, SendsKept DEF Dispatches
  <2> QED
    BY <1>0, <2>1, <2>2, <2>3, <2>4 DEF Somewhere
<1>9. ASSUME NEW n \in Notices, Completes(n) PROVE Somewhere(m)'
  <2>1. shown'[m] = IF m \in Taken(n) THEN shown[m] + 1 ELSE shown[m]
    BY <1>9, <1>t DEF Completes, Counts
  <2>2. \A k \in Notices \ {n} : Taken(k)' = Taken(k)
    BY <1>9, ClaimEnded
  <2>3. (InSend(m)' <=> InSend(m)) /\ UNCHANGED <<gen, entry, queue>>
    BY <1>9, SendsKept DEF Completes
  <2> QED
    BY <1>0, <1>t, <2>1, <2>2, <2>3 DEF Somewhere
<1>10. ASSUME NEW n \in Notices, RollsBack(n) PROVE Somewhere(m)'
  <2>1. \A k \in Notices \ {n} : Taken(k)' = Taken(k)
    BY <1>10, ClaimEnded
  <2>2. (InSend(m)' <=> InSend(m)) /\ UNCHANGED <<gen, entry, shown>>
    BY <1>10, SendsKept DEF RollsBack
  <2>3. ToSet(queue)' = Original(n) \cup ToSet(queue)
    BY <1>10 DEF RollsBack
  <2> QED
    BY <1>0, <1>t, <2>1, <2>2, <2>3 DEF Somewhere
<1> QED
  BY <1>1, <1>2, <1>3, <1>4, <1>5, <1>6, <1>7, <1>8, <1>9, <1>10 DEF Moves

-----------------------------------------------------------------------------
\* Order, kept by a filter and by putting what came later behind.
LEMMA FilterOrdered ==
  ASSUME NEW e, NEW q \in Seq(Messages), Ordered(e, q), NEW S
  PROVE  Ordered(e, Filter(q, S))
<1> SUFFICES ASSUME NEW k \in DOMAIN Filter(q, S), NEW l \in DOMAIN Filter(q, S), k < l
             PROVE  e[Filter(q, S)[k]].nr < e[Filter(q, S)[l]].nr
  BY DEF Ordered
<1>1. PICK i \in DOMAIN q, j \in DOMAIN q : i < j /\ Filter(q, S)[k] = q[i] /\ Filter(q, S)[l] = q[j]
  BY FilterKeeps
<1> QED
  BY <1>1 DEF Ordered

LEMMA BehindOrdered ==
  ASSUME NEW e, NEW p \in Seq(Messages), NEW q \in Seq(Messages), Ordered(e, p), Ordered(e, q),
         \A x \in ToSet(p), y \in ToSet(q) : e[x].nr < e[y].nr
  PROVE  Ordered(e, p \o q)
<1> DEFINE r == p \o q
<1>1. /\ Len(p) \in Nat /\ DOMAIN p = 1 .. Len(p)
      /\ Len(q) \in Nat /\ DOMAIN q = 1 .. Len(q)
      /\ DOMAIN r = 1 .. Len(p) + Len(q)
  OBVIOUS
<1>2. \A i \in 1 .. Len(p) : r[i] = p[i]
  BY <1>1
<1>3. \A i \in Len(p) + 1 .. Len(p) + Len(q) : i - Len(p) \in 1 .. Len(q) /\ r[i] = q[i - Len(p)]
  BY <1>1
<1> HIDE DEF r
<1> SUFFICES ASSUME NEW i \in 1 .. Len(p) + Len(q), NEW j \in 1 .. Len(p) + Len(q), i < j
             PROVE  e[r[i]].nr < e[r[j]].nr
  BY <1>1 DEF Ordered, r
<1>4. CASE j \in 1 .. Len(p)
  <2>1. i \in 1 .. Len(p)
    BY <1>1, <1>4
  <2> QED
    BY <1>1, <1>2, <1>4, <2>1 DEF Ordered
<1>5. CASE i \in Len(p) + 1 .. Len(p) + Len(q)
  <2>1. j \in Len(p) + 1 .. Len(p) + Len(q)
    BY <1>1, <1>5
  <2>2. i - Len(p) < j - Len(p)
    BY <1>1
  <2> QED
    BY <1>1, <1>3, <1>5, <2>1, <2>2 DEF Ordered
<1>6. CASE i \in 1 .. Len(p) /\ j \in Len(p) + 1 .. Len(p) + Len(q)
  <2>1. r[i] \in ToSet(p)
    BY <1>1, <1>2, <1>6 DEF ToSet
  <2>2. r[j] \in ToSet(q)
    BY <1>1, <1>3, <1>6 DEF ToSet
  <2> QED
    BY <2>1, <2>2
<1> QED
  BY <1>1, <1>4, <1>5, <1>6

LEMMA SameOrdered ==
  ASSUME NEW e, NEW f, NEW q, Ordered(e, q), \A x \in ToSet(q) : f[x].nr = e[x].nr
  PROVE  Ordered(f, q)
<1>1. \A i \in DOMAIN q : q[i] \in ToSet(q)
  BY DEF ToSet
<1> QED
  BY <1>1 DEF Ordered

\* A step that leaves the notices alone and only takes from the queue.
LEMMA OrderTaken ==
  ASSUME InboundTypeOK, OrderHolds, UNCHANGED notice,
         \A m \in Messages : m \in ToSet(queue) \/ (\E n \in Notices : m \in Original(n)) =>
           entry'[m].nr = entry[m].nr,
         ToSet(queue)' \subseteq ToSet(queue),
         Ordered(entry, queue) => Ordered(entry, queue')
  PROVE  OrderHolds'
<1>1. (OneFails' <=> OneFails) /\ \A n \in Notices : (FailsAlone(n)' <=> FailsAlone(n)) /\ Original(n)' = Original(n)
  BY ClaimsKept DEF OneFails, FailsAlone
<1>2. ASSUME NEW n \in Notices, FailsAlone(n)
      PROVE  /\ Ordered(entry', notice'[n].claim.original)
             /\ \A x \in ToSet(queue)' \ Original(n), y \in Original(n) : Nr(y)' < Nr(x)'
  <2>1. Original(n) \subseteq Messages /\ ToSet(queue) \subseteq Messages
    BY EntriesAfter
  <2>2. Ordered(entry, notice[n].claim.original)
    BY <1>2 DEF OrderHolds
  <2>3. Ordered(entry', notice[n].claim.original)
    BY <2>1, <2>2, SameOrdered DEF Original
  <2> QED
    BY <1>2, <2>1, <2>3 DEF OrderHolds, Nr
<1>3. OneFails => Ordered(entry', queue')
  <2>1. ToSet(queue') \subseteq ToSet(queue) /\ ToSet(queue) \subseteq Messages
    BY EntriesAfter
  <2>2. \A x \in ToSet(queue') : entry'[x].nr = entry[x].nr
    BY <2>1
  <2>3. Ordered(entry, queue') => Ordered(entry', queue')
    BY <2>2, SameOrdered
  <2> QED
    BY <2>3 DEF OrderHolds
<1> QED
  BY <1>1, <1>2, <1>3 DEF OrderHolds

\* The order of arrival survives every step, a rollback of the only notice that
\* fails included.
LEMMA OrderStep ==
  /\ InboundTypeOK /\ InboundTypeOK' /\ AdmittedFirst /\ OrderHolds
  /\ [InboundNext]_inVars
  => OrderHolds'
<1> SUFFICES ASSUME InboundTypeOK, InboundTypeOK', AdmittedFirst, OrderHolds, [InboundNext]_inVars
             PROVE  OrderHolds'
  OBVIOUS
<1>0. /\ queue \in Seq(Messages) /\ ToSet(queue) \in SUBSET Messages
      /\ \A S : Filter(queue, S) \in Seq(Messages) /\ ToSet(Filter(queue, S)) = ToSet(queue) \cap S
      /\ \A S : Ordered(entry, queue) => Ordered(entry, Filter(queue, S))
      /\ \A m \in Messages : entry[m].nr \in Nat
  BY FilterKeeps, FilterOrdered, Members DEF InboundTypeOK, Entries
<1>e. ToSet(<<>>) = {} /\ (\A e : Ordered(e, <<>>)) /\ <<>> \in Seq(Messages)
  BY DEF ToSet, Ordered
<1>a. ASSUME NEW m \in Messages, entry[m].state = "new"
      PROVE  m \notin ToSet(queue) /\ \A n \in Notices : m \notin Original(n)
  BY <1>a DEF AdmittedFirst
<1>1. ASSUME UNCHANGED <<entry, notice, queue>> PROVE OrderHolds'
  BY <1>1, OrderTaken
<1>2. ASSUME UNCHANGED <<entry, notice>>, queue' = <<>> PROVE OrderHolds'
  BY <1>2, <1>e, OrderTaken
<1>3. ASSUME NEW m \in Messages, ArriveIdle(m) PROVE OrderHolds'
  <2>1. Arrives(m, "reserved") /\ UNCHANGED <<queue, notice>>
    BY <1>3 DEF ArriveIdle, Arrives
  <2>2. entry[m].state = "new" /\ \A k \in Messages \ {m} : entry'[k] = entry[k]
    BY <2>1, EntriesAfter
  <2> QED
    BY <1>a, <2>1, <2>2, OrderTaken
<1>4. ASSUME NEW m \in Messages, CommitAcked(m) PROVE OrderHolds'
  <2>1. UNCHANGED <<entry, notice>>
    BY <1>4 DEF CommitAcked
  <2>2. queue' = queue \/ queue' = Filter(queue, Messages \ {m})
    BY <1>4 DEF CommitAcked
  <2>3. CASE queue' = queue
    BY <1>1, <2>1, <2>3
  <2>4. CASE queue' = Filter(queue, Messages \ {m})
    BY <1>0, <2>1, <2>4, OrderTaken
  <2> QED
    BY <2>2, <2>3, <2>4
<1>5. ASSUME NEW d \in sends, SendSucceeds(d) \/ SendRetires(d) PROVE OrderHolds'
  <2>1. \A m \in Messages : entry'[m].nr = entry[m].nr
    <3>1. \A m \in Messages : entry[m] \in Entries
      BY DEF InboundTypeOK
    <3>2. CASE SendSucceeds(d)
      BY <3>1, <3>2 DEF SendSucceeds, Entries
    <3>3. CASE SendRetires(d)
      BY <3>1, <3>3 DEF SendRetires, Entries
    <3> QED
      BY <1>5, <3>2, <3>3
  <2>2. UNCHANGED <<queue, notice>>
    BY <1>5 DEF SendSucceeds, SendRetires
  <2> QED
    BY <2>1, <2>2, OrderTaken
<1>6. ASSUME NEW m \in Messages, ArriveBusy(m) PROVE OrderHolds'
  <2>1. Arrives(m, "done") /\ UNCHANGED notice /\ queue' = Append(queue, m)
    BY <1>6 DEF ArriveBusy, Arrives
  <2>2. /\ entry[m].state = "new" /\ \A k \in Messages \ {m} : entry'[k] = entry[k]
        /\ entry'[m] = Admitted("done")
    BY <2>1, EntriesAfter
  <2>3. \A k \in Messages : entry[k].nr < entry'[m].nr
    BY <2>2, AdmittedLast DEF Nr
  <2>4. /\ OneFails' <=> OneFails
        /\ \A n \in Notices : (FailsAlone(n)' <=> FailsAlone(n)) /\ Original(n)' = Original(n)
    BY <2>1, ClaimsKept DEF OneFails, FailsAlone
  <2>5. ASSUME OneFails PROVE Ordered(entry', queue')
    <3>1. Ordered(entry', queue)
      BY <1>0, <1>a, <2>2, <2>5, SameOrdered DEF OrderHolds
    <3>2. Ordered(entry', <<m>>) /\ <<m>> \in Seq(Messages) /\ ToSet(<<m>>) = {m}
      BY FewMembers DEF Ordered
    <3>3. \A x \in ToSet(queue) : entry'[x].nr < entry'[m].nr
      BY <1>0, <1>a, <2>2, <2>3
    <3>4. Ordered(entry', queue \o <<m>>)
      BY <1>0, <3>1, <3>2, <3>3, BehindOrdered
    <3>5. queue' = queue \o <<m>>
      BY <1>0, <2>1
    <3> QED
      BY <3>4, <3>5
  <2>6. ASSUME NEW n \in Notices, FailsAlone(n)
        PROVE  /\ Ordered(entry', notice'[n].claim.original)
               /\ \A x \in ToSet(queue)' \ Original(n), y \in Original(n) : Nr(y)' < Nr(x)'
    <3>1. m \notin Original(n) /\ Original(n) \subseteq Messages
      BY <1>a, <2>2, EntriesAfter
    <3>2. Ordered(entry, notice[n].claim.original)
      BY <2>6 DEF OrderHolds
    <3>3. Ordered(entry', notice[n].claim.original)
      BY <2>2, <3>1, <3>2, SameOrdered DEF Original
    <3>4. ASSUME NEW x \in ToSet(queue)' \ Original(n), NEW y \in Original(n)
          PROVE  entry'[y].nr < entry'[x].nr
      <4>1. ToSet(Append(queue, m)) = ToSet(queue) \cup {m}
        BY <1>0, Members
      <4>2. x = m \/ (x \in ToSet(queue) /\ x # m)
        BY <2>1, <3>4, <4>1
      <4>3. entry'[y] = entry[y]
        BY <2>2, <3>1
      <4>4. CASE x = m
        BY <2>3, <3>1, <4>3, <4>4
      <4>5. CASE x \in ToSet(queue) /\ x # m
        <5>1. entry'[x] = entry[x]
          BY <1>0, <2>2, <4>5
        <5>2. Nr(y) < Nr(x)
          BY <2>6, <3>4, <4>5 DEF OrderHolds
        <5> QED
          BY <4>3, <5>1, <5>2 DEF Nr
      <4> QED
        BY <4>2, <4>4, <4>5
    <3> QED
      BY <2>1, <3>3, <3>4 DEF Nr
  <2> QED
    BY <2>4, <2>5, <2>6 DEF OrderHolds
<1>m. ASSUME NEW n \in Notices PROVE FailsAlone(n) => OneFails
  BY DEF FailsAlone, OneFails
<1>7. ASSUME NEW n \in Notices, Terminal(n) PROVE OrderHolds'
  <2>1. Dispatches(n) /\ queue' = Filter(queue, Messages \ Claimed(n)) /\ UNCHANGED entry
    BY <1>7, TerminalDispatches DEF Terminal
  <2>2. \A k \in Notices : notice'[k].fails = notice[k].fails
    BY <2>1 DEF Dispatches, Others
  <2>3. (OneFails' <=> OneFails) /\ \A k \in Notices : (FailsAlone(k)' <=> FailsAlone(k))
    BY <2>2 DEF OneFails, FailsAlone
  <2>4. ToSet(queue)' \subseteq ToSet(queue)
    BY <2>1 DEF Dispatches
  <2>5. OneFails => Ordered(entry', queue')
    BY <1>0, <2>1 DEF OrderHolds
  <2>6. ASSUME NEW k \in Notices, FailsAlone(k)
        PROVE  /\ Ordered(entry', notice'[k].claim.original)
               /\ \A x \in ToSet(queue)' \ Original(k)', y \in Original(k)' : Nr(y)' < Nr(x)'
    <3>1. CASE k = n
      <4>1. Original(k)' = ToSet(queue) /\ notice'[k].claim.original = queue
        BY <2>1, <3>1, ClaimMade DEF Dispatches
      <4> QED
        BY <1>m, <2>1, <2>4, <2>6, <4>1 DEF OrderHolds
    <3>2. CASE k # n
      <4>1. Original(k)' = Original(k) /\ notice'[k] = notice[k]
        BY <2>1, <3>2, ClaimMade DEF Dispatches, Others
      <4> QED
        BY <2>1, <2>4, <2>6, <4>1 DEF OrderHolds, Nr
    <3> QED
      BY <3>1, <3>2
  <2> QED
    BY <2>3, <2>5, <2>6 DEF OrderHolds
<1>8. ASSUME NEW n \in Notices, TerminalShown(n) PROVE OrderHolds'
  <2>1. Completes(n) /\ UNCHANGED <<queue, entry>>
    BY <1>8, ShownCompletes DEF TerminalShown
  <2>2. \A k \in Notices : notice'[k].fails = notice[k].fails
    BY <2>1 DEF Completes, Others
  <2>3. (OneFails' <=> OneFails) /\ \A k \in Notices : (FailsAlone(k)' <=> FailsAlone(k))
    BY <2>2 DEF OneFails, FailsAlone
  <2>4. OneFails => Ordered(entry', queue')
    BY <2>1 DEF OrderHolds
  <2>5. ASSUME NEW k \in Notices, FailsAlone(k)
        PROVE  /\ Ordered(entry', notice'[k].claim.original)
               /\ \A x \in ToSet(queue)' \ Original(k)', y \in Original(k)' : Nr(y)' < Nr(x)'
    <3>1. CASE k = n
      <4>1. Original(k)' = {} /\ notice'[k].claim.original = <<>>
        BY <2>1, <3>1, ClaimEnded DEF Completes, NoClaim
      <4> QED
        BY <1>e, <4>1
    <3>2. CASE k # n
      <4>1. Original(k)' = Original(k) /\ notice'[k] = notice[k]
        BY <2>1, <3>2, ClaimEnded DEF Completes, Others
      <4> QED
        BY <2>1, <2>5, <4>1 DEF OrderHolds, Nr
    <3> QED
      BY <3>1, <3>2
  <2> QED
    BY <2>3, <2>4, <2>5 DEF OrderHolds
<1>9. ASSUME NEW n \in Notices, TerminalFails(n) PROVE OrderHolds'
  <2> DEFINE orig == notice[n].claim.original
             rest == Filter(queue, Messages \ ToSet(orig))
  <2>1. RollsBack(n) /\ queue' = orig \o rest /\ UNCHANGED entry
    BY <1>9, FailsRollsBack DEF TerminalFails, RolledBack
  <2>2. /\ notice'[n].fails = notice[n].fails + 1
        /\ \A k \in Notices : notice[k].fails \in Nat
        /\ \A k \in Notices \ {n} : notice'[k].fails = notice[k].fails
    BY <2>1, QueueFacts DEF RollsBack, Others, NoticeTypes
  <2>3. notice'[n].fails > 0
    BY <2>2
  <2>4. OneFails' => FailsAlone(n) /\ OneFails
    BY <2>2, <2>3 DEF OneFails, FailsAlone
  <2>5. ASSUME OneFails' PROVE Ordered(entry', queue')
    <3>1. orig \in Seq(Messages) /\ rest \in Seq(Messages) /\ ToSet(orig) = Original(n)
          /\ ToSet(rest) = ToSet(queue) \ Original(n)
      BY <1>0, ClaimFacts DEF Original
    <3>2. Ordered(entry, orig) /\ Ordered(entry, rest)
      BY <1>0, <2>4, <2>5 DEF OrderHolds
    <3>3. \A x \in ToSet(orig), y \in ToSet(rest) : entry[x].nr < entry[y].nr
      BY <2>4, <2>5, <3>1 DEF OrderHolds, Nr
    <3> HIDE DEF orig, rest
    <3>4. Ordered(entry, orig \o rest)
      BY <3>1, <3>2, <3>3, BehindOrdered
    <3> QED
      BY <2>1, <3>4
  <2>6. ASSUME NEW k \in Notices, FailsAlone(k)'
        PROVE  /\ Ordered(entry', notice'[k].claim.original)
               /\ \A x \in ToSet(queue)' \ Original(k)', y \in Original(k)' : Nr(y)' < Nr(x)'
    <3>1. k = n
      BY <2>3, <2>6 DEF FailsAlone
    <3>2. Original(k)' = {} /\ notice'[k].claim.original = <<>>
      BY <2>1, <3>1, ClaimEnded DEF RollsBack, NoClaim
    <3> QED
      BY <1>e, <3>2
  <2> QED
    BY <2>5, <2>6 DEF OrderHolds
<1>10. ASSUME NEW m \in Messages, ProbeAcked(m) \/ Unclaimed(m) PROVE OrderHolds'
  BY <1>1, <1>10 DEF ProbeAcked, Unclaimed
<1>11. ASSUME TurnStarts \/ TurnEnds \/ UNCHANGED inVars PROVE OrderHolds'
  BY <1>1, <1>11 DEF TurnStarts, TurnEnds, inVars
<1>12. ASSUME Flush \/ Replace PROVE OrderHolds'
  BY <1>2, <1>12 DEF Flush, Replace
<1> QED
  BY <1>3, <1>4, <1>5, <1>6, <1>7, <1>8, <1>9, <1>10, <1>11, <1>12 DEF InboundNext

-----------------------------------------------------------------------------
LEMMA InboundStep == InboundInv /\ [InboundNext]_inVars => InboundInv'
<1> SUFFICES ASSUME InboundInv, [InboundNext]_inVars PROVE InboundInv'
  OBVIOUS
<1>1. /\ InboundTypeOK /\ AdmittedFirst /\ GenerationsPass /\ ClaimsHold
      /\ OnePlace /\ NoticesOnce /\ OrderHolds /\ NothingLost
  BY DEF InboundInv
<1>2. InboundTypeOK' /\ Moves
  BY <1>1, InboundTypeStep, StepsMove
<1>3. AdmittedFirst' /\ GenerationsPass' /\ ClaimsHold'
  BY <1>1, <1>2, AdmittedStep, GenerationsStep, ClaimsStep
<1>4. OnePlace' /\ NoticesOnce'
  BY <1>1, <1>2, OnePlaceStep, NoticesStep
<1>5. OrderHolds' /\ NothingLost'
  BY <1>1, <1>2, OrderStep, LostStep
<1> QED
  BY <1>2, <1>3, <1>4, <1>5 DEF InboundInv

LEMMA InboundInvHolds == InboundSpec => []InboundInv
<1>1. InboundInit => InboundInv
  BY InboundInitInv
<1>2. InboundInv /\ [InboundNext]_inVars => InboundInv'
  BY InboundStep
<1> QED
  BY <1>1, <1>2, PTL DEF InboundSpec

\* The variables of an inbound session keep their types.
THEOREM InboundTypesCorrect == InboundSpec => []InboundTypeOK
<1>1. InboundInv => InboundTypeOK
  BY DEF InboundInv
<1> QED
  BY <1>1, InboundInvHolds, PTL

\* Whichever of its four takers wins, loses or fails, an admitted message is
\* queued, sent, claimed or in the conversation until its generation ends.
THEOREM NoneIsLost == InboundSpec => []NothingLost
<1>1. InboundInv => NothingLost
  BY DEF InboundInv
<1> QED
  BY <1>1, InboundInvHolds, PTL

\* However often the broker delivers a message and whoever takes it, the agent
\* session takes it once, unless a rollback has put it back: the reason the
\* rollback of inbound-idle-queue.ts is the only way to see a message twice.
THEOREM SurfacesOnce == InboundSpec => []SurfacedOnceUnlessRevived
<1>1. InboundInv => SurfacedOnceUnlessRevived
  <2> SUFFICES ASSUME InboundInv, NEW x \in Messages \cup Notices, x \notin revived
               PROVE  shown[x] <= 1
    BY DEF SurfacedOnceUnlessRevived
  <2>1. CASE x \in Messages
    BY <2>1 DEF InboundInv, OnePlace
  <2>2. CASE x \in Notices
    BY <2>2 DEF InboundInv, NoticesOnce
  <2> QED
    BY <2>1, <2>2
<1> QED
  BY <1>1, InboundInvHolds, PTL

\* A notice has to itself what it claimed: no flush and no foreground owner
\* finds one of its entries in the queue while it is in flight.
THEOREM ClaimsAreExclusive == InboundSpec => []ClaimIsExclusive
<1>1. InboundInv => ClaimIsExclusive
  <2> SUFFICES ASSUME InboundInv, NEW n \in Notices,
                      NEW m \in Original(n) \ revived,
                      m \notin Asks /\ From[m] = From[n] /\ Time[m] <= Time[n]
               PROVE  ~Contains(queue, m)
    BY DEF ClaimIsExclusive, Original
  <2>0. InboundTypeOK /\ ClaimsHold /\ OnePlace
    BY DEF InboundInv
  <2>1. m \in Messages
    BY <2>0, EntriesAfter
  <2>2. m \in Taken(n)
    BY <2>0, <2>1 DEF ClaimsHold, Claimed, Claims
  <2>3. m \notin ToSet(queue)
    BY <2>0, <2>1, <2>2 DEF OnePlace
  <2> QED
    BY <2>0, <2>3, QueueFacts
<1> QED
  BY <1>1, InboundInvHolds, PTL

\* Failed dispatches of one notice, any number of them, leave the queue in the
\* order of arrival.
THEOREM QueueStaysInOrder == InboundSpec => []QueueInOrder
<1>1. InboundInv => QueueInOrder
  <2> SUFFICES ASSUME InboundInv, Cardinality({n \in Notices : notice[n].fails > 0}) <= 1
               PROVE  Ordered(entry, queue)
    BY DEF QueueInOrder, Ordered
  <2> DEFINE failed == {n \in Notices : notice[n].fails > 0}
  <2>1. OneFails
    <3> SUFFICES ASSUME NEW k \in failed, NEW n \in failed, k # n PROVE FALSE
      BY DEF OneFails
    <3>1. IsFiniteSet(failed)
      BY InboundAssumption, FS_Subset
    <3>2. {k} \cup {n} \in SUBSET failed
      OBVIOUS
    <3>3. IsFiniteSet({k}) /\ Cardinality({k}) = 1
      BY FS_Singleton
    <3>4. Cardinality({k} \cup {n}) = 2
      <4>1. n \notin {k}
        OBVIOUS
      <4>2. Cardinality({k} \cup {n}) = IF n \in {k} THEN Cardinality({k}) ELSE Cardinality({k}) + 1
        BY <3>3, FS_AddElement
      <4> QED
        BY <3>3, <4>1, <4>2
    <3>5. Cardinality(failed) <= 1
      OBVIOUS
    <3> HIDE DEF failed
    <3>6. Cardinality(failed) \in Nat /\ Cardinality({k} \cup {n}) <= Cardinality(failed)
      BY <3>1, <3>2, FS_Subset, FS_CardinalityType
    <3> QED
      BY <3>4, <3>5, <3>6
  <2> QED
    BY <2>1 DEF InboundInv, OrderHolds
<1> QED
  BY <1>1, InboundInvHolds, PTL
=============================================================================
