-------------------------- MODULE BrokerSocketProofs -------------------------
(***************************************************************************)
(* Proofs about the socket of the roundtable broker.  Which process binds  *)
(* it (BrokerLifecycle), for any number of processes, killed at any step:  *)
(* the startup section is exclusive, and no process that is starting       *)
(* removes the socket of a broker that accepts connections.  What comes    *)
(* through it (Framing), for any number of frames of any length, cut into  *)
(* any chunks: every message, once and in order, as soon as it is there.   *)
(***************************************************************************)
EXTENDS BrokerLifecycle, Framing, TLAPS

-----------------------------------------------------------------------------
(* Who binds the socket. *)

\* Whoever is in the startup section created the lock that is there.
HolderOwnsLock == \A p \in Procs : pc[p] \in Startup => lock = p

\* What the probe found stays true until the unlink: only the holder of the
\* lock could bind the path meanwhile.
ProbeStillHolds == \A p \in Procs : pc[p] = "unlink" => ~Reachable

LifeInv == LifeTypeOK /\ HolderOwnsLock /\ ProbeStillHolds /\ ListenFindsPathFree

-----------------------------------------------------------------------------
LEMMA LifeInitInv == LifeInit => LifeInv
BY NoProcAssumption
   DEF LifeInit, LifeInv, LifeTypeOK, HolderOwnsLock, ProbeStillHolds, ListenFindsPathFree,
       Startup

\* The variables have the values the steps give them.
LEMMA LifeTypeStep == LifeTypeOK /\ [LifeNext]_lifeVars => LifeTypeOK'
<1> SUFFICES ASSUME LifeTypeOK, [LifeNext]_lifeVars PROVE LifeTypeOK'
  OBVIOUS
<1>1. ASSUME NEW p \in Procs, Spawn(p) \/ CreateLock(p) \/ StaleLock(p) \/ LockTimeout(p) \/ WriteLock(p)
      PROVE  LifeTypeOK'
  BY <1>1 DEF LifeTypeOK, Goto, Startup, Shutdown, Ended, Spawn, CreateLock, StaleLock,
              LockTimeout, WriteLock
<1>2. ASSUME NEW p \in Procs, CheckPath(p) \/ ProbePath(p) \/ UnlinkStale(p) \/ Listen(p)
      PROVE  LifeTypeOK'
  BY <1>2 DEF LifeTypeOK, Goto, Startup, Shutdown, Ended, CheckPath, ProbePath, UnlinkStale,
              Listen
<1>3. ASSUME NEW p \in Procs, StandDown(p) \/ WritePid(p) \/ StartServing(p) \/ ChmodFails(p) \/ Abort(p)
      PROVE  LifeTypeOK'
  BY <1>3 DEF LifeTypeOK, Goto, Startup, Shutdown, Ended, StandDown, WritePid, StartServing,
              ChmodFails, Abort, RemoveLock
<1>4. ASSUME NEW p \in Procs, CloseServer(p) \/ ShutdownStep(p) \/ Crash(p)
      PROVE  LifeTypeOK'
  BY <1>4 DEF LifeTypeOK, Goto, Startup, Shutdown, Ended, CloseServer, ShutdownStep, CloseSocket,
              UnlinkSocket, UnlinkPid, Crash
<1>5. CASE UNCHANGED lifeVars
  BY <1>5 DEF LifeTypeOK, lifeVars
<1> QED BY <1>1, <1>2, <1>3, <1>4, <1>5 DEF LifeNext, StartupStep

\* A step moves one process only.
LEMMA OneMoves ==
  ASSUME LifeTypeOK, NEW p \in Procs,
         Spawn(p) \/ StartupStep(p) \/ CloseServer(p) \/ ShutdownStep(p) \/ Crash(p)
  PROVE  \A q \in Procs \ {p} : pc'[q] = pc[q]
BY DEF LifeTypeOK, Goto, Spawn, StartupStep, CreateLock, StaleLock, LockTimeout, WriteLock,
       CheckPath, ProbePath, UnlinkStale, Listen, StandDown, WritePid, StartServing,
       ChmodFails, Abort, CloseServer, ShutdownStep, CloseSocket, UnlinkSocket, UnlinkPid, Crash

\* The lock changes hands only outside the startup section.
LEMMA HolderStep == LifeInv /\ [LifeNext]_lifeVars => HolderOwnsLock'
<1> SUFFICES ASSUME LifeInv, [LifeNext]_lifeVars PROVE HolderOwnsLock'
  OBVIOUS
<1>1. LifeTypeOK /\ HolderOwnsLock
  BY DEF LifeInv
<1>2. ASSUME NEW p \in Procs, CreateLock(p) PROVE HolderOwnsLock'
  BY <1>1, <1>2, NoProcAssumption DEF LifeTypeOK, HolderOwnsLock, CreateLock, Goto
<1>3. ASSUME NEW p \in Procs,
             Spawn(p) \/ StaleLock(p) \/ LockTimeout(p) \/ Abort(p) \/ CloseServer(p)
               \/ ShutdownStep(p) \/ Crash(p)
      PROVE  HolderOwnsLock'
  BY <1>1, <1>3
     DEF LifeTypeOK, HolderOwnsLock, Goto, Startup, Spawn, StaleLock, LockTimeout, Abort,
         CloseServer, ShutdownStep, CloseSocket, UnlinkSocket, UnlinkPid, Crash
<1>4. ASSUME NEW p \in Procs,
             WriteLock(p) \/ CheckPath(p) \/ ProbePath(p) \/ UnlinkStale(p) \/ Listen(p)
               \/ WritePid(p)
      PROVE  HolderOwnsLock'
  BY <1>1, <1>4
     DEF LifeTypeOK, HolderOwnsLock, Goto, Startup, WriteLock, CheckPath, ProbePath, UnlinkStale,
         Listen, WritePid
<1>5. ASSUME NEW p \in Procs, StandDown(p) \/ StartServing(p) \/ ChmodFails(p)
      PROVE  HolderOwnsLock'
  BY <1>1, <1>5
     DEF LifeTypeOK, HolderOwnsLock, Goto, Startup, StandDown, StartServing, ChmodFails, RemoveLock
<1>6. CASE UNCHANGED lifeVars
  BY <1>1, <1>6 DEF HolderOwnsLock, lifeVars
<1> QED BY <1>2, <1>3, <1>4, <1>5, <1>6 DEF LifeNext, StartupStep

\* The path becomes reachable by a bind only, and nobody binds while another
\* process is between its probe and its unlink.
LEMMA ProbeStep == LifeInv /\ [LifeNext]_lifeVars => ProbeStillHolds'
<1> SUFFICES ASSUME LifeInv, [LifeNext]_lifeVars, NEW q \in Procs, pc'[q] = "unlink"
             PROVE  ~Reachable'
  BY DEF ProbeStillHolds
<1>1. LifeTypeOK /\ HolderOwnsLock /\ ProbeStillHolds
  BY DEF LifeInv
<1>2. ASSUME NEW p \in Procs, Listen(p) PROVE ~Reachable'
  <2>1. pc[p] = "bind" /\ pc'[p] # "unlink" /\ p # q /\ pc[q] = "unlink"
    BY <1>1, <1>2 DEF Listen, Goto, LifeTypeOK
  <2> QED BY <1>1, <2>1 DEF HolderOwnsLock, Startup
<1>3. ASSUME NEW p \in Procs, ProbePath(p) PROVE ~Reachable'
  BY <1>1, <1>3 DEF ProbePath, Goto, LifeTypeOK, ProbeStillHolds, Reachable
<1>4. ASSUME NEW p \in Procs,
             \/ Spawn(p) \/ CreateLock(p) \/ StaleLock(p) \/ LockTimeout(p) \/ WriteLock(p)
             \/ CheckPath(p) \/ UnlinkStale(p) \/  StandDown(p) \/ WritePid(p)
             \/ StartServing(p) \/ ChmodFails(p) \/ Abort(p) \/ CloseServer(p)
             \/ ShutdownStep(p) \/ Crash(p)
      PROVE  ~Reachable'
  <2>1. /\ path' \in {path, NoProc}
        /\ \A x \in Procs : listening'[x] => listening[x]
    BY <1>1, <1>4
       DEF LifeTypeOK, Spawn, CreateLock, StaleLock, LockTimeout, WriteLock, CheckPath, UnlinkStale,
           StandDown, WritePid, StartServing, ChmodFails, Abort, CloseServer,
           ShutdownStep, CloseSocket, UnlinkSocket, UnlinkPid, Crash
  <2>2. pc[q] = "unlink"
    BY <1>1, <1>4
       DEF LifeTypeOK, Goto, Spawn, CreateLock, StaleLock, LockTimeout, WriteLock, CheckPath,
           UnlinkStale, StandDown, WritePid, StartServing, ChmodFails, Abort,
           CloseServer, ShutdownStep, CloseSocket, UnlinkSocket, UnlinkPid, Crash
  <2> QED BY <1>1, <2>1, <2>2 DEF ProbeStillHolds, Reachable, LifeTypeOK
<1>5. CASE UNCHANGED lifeVars
  BY <1>1, <1>5 DEF ProbeStillHolds, Reachable, lifeVars
<1> QED BY <1>2, <1>3, <1>4, <1>5 DEF LifeNext, StartupStep

\* Only listen() puts a socket at the path, and one process at a time is
\* between its look at the path and its listen().
LEMMA ListenStep == LifeInv /\ [LifeNext]_lifeVars => ListenFindsPathFree'
<1> SUFFICES ASSUME LifeInv, [LifeNext]_lifeVars, NEW q \in Procs, pc'[q] = "bind"
             PROVE  path' = NoProc
  BY DEF ListenFindsPathFree
<1>1. LifeTypeOK /\ HolderOwnsLock /\ ListenFindsPathFree
  BY DEF LifeInv
<1>2. CASE UNCHANGED lifeVars
  BY <1>1, <1>2 DEF ListenFindsPathFree, lifeVars
<1>3. ASSUME NEW p \in Procs, CheckPath(p) \/ UnlinkStale(p) PROVE path' = NoProc
  BY <1>1, <1>3
     DEF CheckPath, UnlinkStale, Goto, LifeTypeOK, HolderOwnsLock, ListenFindsPathFree, Startup
<1>4. ASSUME NEW p \in Procs, Listen(p) PROVE path' = NoProc
  BY <1>1, <1>4 DEF Listen, Goto, LifeTypeOK, HolderOwnsLock, ListenFindsPathFree, Startup
<1>5. ASSUME NEW p \in Procs,
             \/ Spawn(p) \/ CreateLock(p) \/ StaleLock(p) \/ LockTimeout(p) \/ WriteLock(p)
             \/ ProbePath(p) \/ StandDown(p) \/ WritePid(p) \/ StartServing(p) \/ ChmodFails(p)
             \/ Abort(p) \/ CloseServer(p) \/ ShutdownStep(p) \/ Crash(p)
      PROVE  path' = NoProc
  <2>1. path' \in {path, NoProc} /\ pc[q] = "bind"
    BY <1>1, <1>5
       DEF LifeTypeOK, Goto, Spawn, CreateLock, StaleLock, LockTimeout, WriteLock, ProbePath,
           StandDown, WritePid, StartServing, ChmodFails, Abort, CloseServer, ShutdownStep,
           CloseSocket, UnlinkSocket, UnlinkPid, Crash
  <2> QED BY <1>1, <2>1 DEF ListenFindsPathFree
<1> QED BY <1>2, <1>3, <1>4, <1>5 DEF LifeNext, StartupStep

LEMMA LifeStepInv == LifeInv /\ [LifeNext]_lifeVars => LifeInv'
BY LifeTypeStep, HolderStep, ProbeStep, ListenStep DEF LifeInv

-----------------------------------------------------------------------------
\* At most one process is between creating and removing the startup lock,
\* however many start at once and wherever they are killed.
THEOREM StartupIsExclusive == LifeSpec => []StartupExclusive
<1>1. LifeInv => StartupExclusive
  BY DEF LifeInv, HolderOwnsLock, StartupExclusive
<1> QED BY <1>1, LifeInitInv, LifeStepInv, PTL DEF LifeSpec

\* Every variable keeps to its type, whoever starts, stops or is killed.
THEOREM LifeTypeCorrect == LifeSpec => []LifeTypeOK
<1>1. LifeInv => LifeTypeOK
  BY DEF LifeInv
<1> QED BY <1>1, LifeInitInv, LifeStepInv, PTL DEF LifeSpec

\* A process that has got as far as listen() finds the path free, so that
\* EADDRINUSE, and the exit code 0 it leads to, never answers one broker's
\* start because of another's.
THEOREM ListenSucceeds == LifeSpec => []ListenFindsPathFree
<1>1. LifeInv => ListenFindsPathFree
  BY DEF LifeInv
<1> QED BY <1>1, LifeInitInv, LifeStepInv, PTL DEF LifeSpec

\* A starting process removes no socket that somebody accepts on: the probe's
\* answer is still good when the unlink runs.
THEOREM StartersLeaveLiveSockets == LifeSpec => StartupNeverSteals
<1> DEFINE A == \A p, q \in Procs :
                  path = p /\ listening[p] /\ pc[q] \in Startup /\ pc'[q] # pc[q] => path' = p
<1>1. LifeInv /\ [LifeNext]_lifeVars => [A]_lifeVars
  <2> SUFFICES ASSUME LifeInv, LifeNext, NEW p \in Procs, NEW q \in Procs,
                      path = p, listening[p], pc[q] \in Startup, pc'[q] # pc[q]
               PROVE  path' = p
    BY DEF LifeInv
  <2>1. LifeTypeOK /\ ProbeStillHolds /\ path # NoProc /\ Reachable
    BY NoProcAssumption DEF LifeInv, Reachable
  <2>2. PICK x \in Procs :
          Spawn(x) \/ StartupStep(x) \/ CloseServer(x) \/ ShutdownStep(x) \/ Crash(x)
    BY DEF LifeNext
  <2>3. x = q
    BY <2>1, <2>2, OneMoves
  <2>4. ~UnlinkStale(q)
    BY <2>1 DEF UnlinkStale, Goto, ProbeStillHolds
  <2>5. ~Abort(q) /\ ~CloseServer(q) /\ ~ShutdownStep(q)
    BY DEF Abort, CloseServer, ShutdownStep, CloseSocket, UnlinkSocket, UnlinkPid, Goto, Startup
  <2> QED BY <2>1, <2>2, <2>3, <2>4, <2>5
          DEF StartupStep, Spawn, CreateLock, StaleLock, LockTimeout, WriteLock, CheckPath,
              ProbePath, Listen, StandDown, WritePid, StartServing, ChmodFails, Crash
<1> QED BY <1>1, LifeInitInv, LifeStepInv, PTL DEF LifeSpec, StartupNeverSteals

-----------------------------------------------------------------------------
(* What comes through the socket. *)

\* What the reader has is a whole number of frames behind what has arrived, up
\* to the moment it gives the socket up.
FramingTypeOK ==
  /\ kind \in [1 .. N -> {"ok", "unparsable", "refused"}]
  /\ written \in 0 .. N
  /\ arrived \in Nat /\ taken \in Nat
  /\ inLoop \in BOOLEAN /\ open \in BOOLEAN
  /\ delivered \in Seq(0 .. N)

\* An open reader stands at the start of the frame after the last it delivered,
\* and only an open reader loops.
AtFrameStart ==
  /\ open => Len(delivered) <= N /\ taken = Start[Len(delivered) + 1] /\ taken <= arrived
  /\ inLoop => open

ArrivedAreWritten == arrived <= Start[written + 1]

FramingInv == FramingTypeOK /\ ArrivedAreWritten /\ AtFrameStart /\ NothingStuck

-----------------------------------------------------------------------------
LEMMA StartsGrow ==
  ASSUME NEW i \in 1 .. N + 1, NEW j \in 1 .. N + 1
  PROVE  /\ Start[i] \in Nat
         /\ i < j => Start[i] + 4 < Start[j]
         /\ i <= j => Start[i] <= Start[j]
         /\ Start[i] <= Start[j] => i <= j
         /\ Start[i] = Start[j] => i = j
<1>1. /\ Start[i] \in Nat /\ Start[j] \in Nat
      /\ i < j => Start[i] + 4 < Start[j]
      /\ j < i => Start[j] + 4 < Start[i]
  BY FramesAssumption DEF HEADER
<1>2. i \in Int /\ j \in Int
  BY FramesAssumption
<1> QED
  BY <1>1, <1>2

LEMMA SizeOfFrame ==
  ASSUME NEW i \in 1 .. N
  PROVE  /\ i \in 1 .. N + 1 /\ i + 1 \in 1 .. N + 1
         /\ Size[i] = Start[i + 1] - Start[i] - 4
         /\ Size[i] \in Nat \ {0}
<1>1. i \in 1 .. N + 1 /\ i + 1 \in 1 .. N + 1 /\ i < i + 1
  BY FramesAssumption
<1>2. Size[i] = Start[i + 1] - Start[i] - 4
  BY DEF Size, HEADER
<1> QED
  BY <1>1, <1>2, StartsGrow

\* Where a frame begins, the reader reads that frame's length and takes that
\* frame.
LEMMA ReadsItsFrame ==
  ASSUME NEW i \in 1 .. N, taken = Start[i]
  PROVE  /\ LengthsRead = {Size[i]}
         /\ FrameTaken(Size[i]) = i
<1>1. \A j \in 1 .. N : Start[j] = taken <=> j = i
  BY StartsGrow, SizeOfFrame
<1>2. LengthsRead = {Size[i]}
  BY <1>1 DEF LengthsRead
<1>3. FrameTaken(Size[i]) = i
  BY <1>1 DEF FrameTaken
<1> QED
  BY <1>2, <1>3

\* A turn that takes a frame hands out the next one, whole, and one that was
\* written.
LEMMA TakesNext ==
  ASSUME FramingInv, NEW len \in LengthsRead, TakeFrame(len)
  PROVE  /\ Len(delivered) + 1 \in 1 .. N
         /\ Len(delivered) < written
         /\ len = Size[Len(delivered) + 1]
         /\ FrameTaken(len) = Len(delivered) + 1
         /\ taken' = Start[Len(delivered) + 2]
         /\ taken' <= arrived
<1> DEFINE n == Len(delivered)
<1>0. n \in Nat
  BY DEF FramingInv, FramingTypeOK
<1>1. /\ n <= N /\ taken = Start[n + 1] /\ arrived <= Start[written + 1]
      /\ written \in 0 .. N /\ arrived \in Nat
  BY DEF FramingInv, FramingTypeOK, AtFrameStart, ArrivedAreWritten, TakeFrame
<1>2. Complete(len)
  BY DEF TakeFrame
<1>3. /\ n + 1 \in 1 .. N + 1 /\ written + 1 \in 1 .. N + 1 /\ N + 1 \in 1 .. N + 1
      /\ N \in Nat
  BY <1>0, <1>1, FramesAssumption
<1>4. Start[n + 1] \in Nat /\ Start[written + 1] \in Nat
  BY <1>3, StartsGrow
<1>5. Start[n + 1] < Start[written + 1]
  BY <1>1, <1>2, <1>4 DEF Complete, Buffered, HEADER
<1>6. n < written
  <2> SUFFICES ASSUME ~(n < written) PROVE FALSE
    OBVIOUS
  <2>1. written + 1 <= n + 1
    BY <1>0, <1>1
  <2>2. Start[written + 1] <= Start[n + 1]
    BY <2>1, <1>3, StartsGrow
  <2> QED
    BY <2>2, <1>4, <1>5
<1>7. n + 1 \in 1 .. N
  BY <1>0, <1>1, <1>3, <1>6
<1>8. len = Size[n + 1] /\ FrameTaken(len) = n + 1
  BY <1>1, <1>7, ReadsItsFrame
<1>9. Size[n + 1] = Start[n + 2] - Start[n + 1] - 4 /\ Start[n + 2] \in Nat
  <2>1. (n + 1) + 1 = n + 2
    BY <1>0
  <2> QED
    BY <2>1, <1>7, SizeOfFrame, StartsGrow
<1>10. taken' = Start[n + 2]
  BY <1>1, <1>4, <1>8, <1>9 DEF TakeFrame, Cut, HEADER
<1>11. taken' <= arrived
  BY <1>1, <1>2, <1>4, <1>8, <1>9, <1>10 DEF Complete, Buffered, HEADER
<1> QED
  BY <1>6, <1>7, <1>8, <1>10, <1>11

LEMMA FramingInitInv == FramingInit => FramingInv
<1> SUFFICES ASSUME FramingInit PROVE FramingInv
  OBVIOUS
<1>1. FramingTypeOK
  <2>1. <<>> \in Seq(0 .. N)
    OBVIOUS
  <2>2. 0 \in 0 .. N
    BY FramesAssumption
  <2> QED
    BY <2>1, <2>2 DEF FramingInit, FramingTypeOK
<1>2. Start[1] = 0 /\ Len(delivered) = 0 /\ 1 \in 1 .. N + 1 /\ N \in Nat
  BY FramesAssumption DEF FramingInit
<1>3. ArrivedAreWritten /\ AtFrameStart
  BY <1>2 DEF FramingInit, ArrivedAreWritten, AtFrameStart
<1>4. NothingStuck
  <2> SUFFICES ASSUME NEW i \in 1 .. N, Start[i + 1] <= 0 PROVE FALSE
    BY DEF NothingStuck, FramingInit
  <2>1. i + 1 \in 1 .. N + 1 /\ 1 < i + 1
    BY <1>2
  <2> QED
    BY <2>1, <1>2, StartsGrow
<1> QED
  BY <1>1, <1>3, <1>4 DEF FramingInv

LEMMA WriteMessagePreserves ==
  ASSUME FramingInv, WriteMessage
  PROVE  FramingInv'
<1>1. written \in 0 .. N /\ written' = written + 1 /\ written < N /\ arrived \in Nat
  BY DEF FramingInv, FramingTypeOK, WriteMessage
<1>2. FramingTypeOK' /\ AtFrameStart' /\ NothingStuck'
  BY <1>1, FramesAssumption
     DEF FramingInv, FramingTypeOK, WriteMessage, AtFrameStart, NothingStuck
<1>3. Start[written + 1] <= Start[written + 2] /\ Start[written + 1] \in Nat
      /\ Start[written + 2] \in Nat
  <2>1. written + 1 \in 1 .. N + 1 /\ written + 2 \in 1 .. N + 1 /\ written + 1 < written + 2
    BY <1>1, FramesAssumption
  <2> QED
    BY <2>1, StartsGrow
<1>4. ArrivedAreWritten'
  <2>1. written' + 1 = written + 2
    BY <1>1
  <2> QED
    BY <2>1, <1>1, <1>3 DEF FramingInv, ArrivedAreWritten, WriteMessage
<1> QED
  BY <1>2, <1>4 DEF FramingInv

LEMMA DataPreserves ==
  ASSUME FramingInv, NEW n \in Nat, Data(n)
  PROVE  FramingInv'
<1>1. arrived' \in Nat /\ arrived <= arrived' /\ arrived' = arrived + n
  BY DEF FramingInv, FramingTypeOK, Data
<1>2. FramingTypeOK'
  BY <1>1 DEF FramingInv, FramingTypeOK, Data
<1>3. ArrivedAreWritten'
  BY <1>1 DEF Data, ArrivedAreWritten
<1>4. AtFrameStart'
  <2>1. taken \in Nat /\ arrived \in Nat
    BY DEF FramingInv, FramingTypeOK
  <2> QED
    BY <1>1, <2>1 DEF FramingInv, AtFrameStart, Data
<1>5. NothingStuck'
  BY DEF NothingStuck, Data
<1> QED
  BY <1>2, <1>3, <1>4, <1>5 DEF FramingInv

LEMMA TakeFramePreserves ==
  ASSUME FramingInv, NEW len \in LengthsRead, TakeFrame(len)
  PROVE  FramingInv'
<1> DEFINE n == Len(delivered)
<1>1. /\ n + 1 \in 1 .. N /\ FrameTaken(len) = n + 1
      /\ taken' = Start[n + 2] /\ taken' <= arrived
  BY TakesNext
<1>2. n \in Nat /\ n + 1 # 0 /\ N \in Nat /\ (n + 1) + 1 = n + 2
  BY FramesAssumption DEF FramingInv, FramingTypeOK
<1>3. \/ delivered' = Append(delivered, n + 1) /\ Len(delivered') = n + 1
      \/ delivered' = delivered /\ open' = FALSE
  BY <1>1, <1>2 DEF TakeFrame, FramingInv, FramingTypeOK
<1>4. \/ inLoop' = TRUE /\ open' = open /\ Len(delivered') = n + 1
      \/ inLoop' = FALSE /\ open' = FALSE
  BY <1>1, <1>2, <1>3 DEF TakeFrame, Continues, FramingInv, FramingTypeOK
<1>5. FramingTypeOK'
  <2>1. taken' \in Nat
    <3>1. n + 2 \in 1 .. N + 1
      BY <1>1, <1>2
    <3> QED
      BY <1>1, <3>1, StartsGrow
  <2>2. delivered' \in Seq(0 .. N)
    <3>1. n + 1 \in 0 .. N
      BY <1>1, <1>2
    <3>2. delivered \in Seq(0 .. N)
      BY DEF FramingInv, FramingTypeOK
    <3>3. Append(delivered, n + 1) \in Seq(0 .. N)
      BY <3>1, <3>2
    <3> QED
      BY <1>3, <3>2, <3>3
  <2>3. inLoop' \in BOOLEAN /\ open' \in BOOLEAN
    BY <1>4 DEF FramingInv, FramingTypeOK
  <2> QED
    BY <2>1, <2>2, <2>3 DEF FramingInv, FramingTypeOK, TakeFrame
<1>6. ArrivedAreWritten'
  BY DEF FramingInv, ArrivedAreWritten, TakeFrame
<1>7. AtFrameStart'
  <2>1. CASE inLoop' = FALSE /\ open' = FALSE
    BY <2>1 DEF AtFrameStart
  <2>2. CASE inLoop' = TRUE /\ open' = open /\ Len(delivered') = n + 1
    <3>1. open /\ arrived' = arrived
      BY DEF FramingInv, AtFrameStart, TakeFrame
    <3>2. Len(delivered') + 1 = n + 2 /\ Len(delivered') <= N
      BY <1>1, <1>2, <2>2
    <3> QED
      BY <1>1, <2>2, <3>1, <3>2 DEF AtFrameStart
  <2> QED
    BY <1>4, <2>1, <2>2
<1>8. NothingStuck'
  BY <1>4 DEF NothingStuck
<1> QED
  BY <1>5, <1>6, <1>7, <1>8 DEF FramingInv

LEMMA AwaitMorePreserves ==
  ASSUME FramingInv, AwaitMore
  PROVE  FramingInv'
<1> DEFINE n == Len(delivered)
<1>1. FramingTypeOK' /\ ArrivedAreWritten' /\ AtFrameStart'
  BY DEF FramingInv, FramingTypeOK, ArrivedAreWritten, AtFrameStart, AwaitMore
<1>2. /\ open /\ n \in Nat /\ n <= N /\ taken = Start[n + 1] /\ N \in Nat
      /\ arrived \in Nat /\ taken \in Nat
  BY FramesAssumption DEF FramingInv, FramingTypeOK, AtFrameStart, AwaitMore
<1>3. NothingStuck'
  <2> SUFFICES ASSUME NEW i \in 1 .. N, Start[i + 1] <= arrived, ~(i <= n)
               PROVE  FALSE
    BY <1>2 DEF NothingStuck, AwaitMore
  <2>1. n + 1 \in 1 .. N /\ n + 2 \in 1 .. N + 1 /\ i + 1 \in 1 .. N + 1
        /\ n + 2 <= i + 1 /\ (n + 1) + 1 = n + 2
    BY <1>2
  <2>2. Start[n + 2] <= arrived
    BY <1>2, <2>1, StartsGrow
  <2>3. /\ LengthsRead = {Size[n + 1]} /\ Size[n + 1] = Start[n + 2] - taken - 4
        /\ Size[n + 1] \in Nat /\ Start[n + 2] \in Nat
    BY <1>2, <2>1, ReadsItsFrame, SizeOfFrame, StartsGrow
  <2>4. Buffered >= HEADER /\ Complete(Size[n + 1])
    BY <1>2, <2>2, <2>3 DEF Buffered, Complete, HEADER
  <2> QED
    BY <2>3, <2>4, <1>2 DEF AwaitMore, Buffered, HEADER
<1> QED
  BY <1>1, <1>3 DEF FramingInv

LEMMA FramingStepInv == FramingInv /\ [FramingNext]_framingVars => FramingInv'
<1> SUFFICES ASSUME FramingInv, [FramingNext]_framingVars PROVE FramingInv'
  OBVIOUS
<1>1. CASE WriteMessage
  BY <1>1, WriteMessagePreserves
<1>2. ASSUME NEW n \in 1 .. Start[N + 1], Data(n) PROVE FramingInv'
  <2>1. n \in Nat
    BY FramesAssumption
  <2> QED
    BY <1>2, <2>1, DataPreserves
<1>3. ASSUME NEW len \in LengthsRead, TakeFrame(len) PROVE FramingInv'
  BY <1>3, TakeFramePreserves
<1>4. CASE AwaitMore
  BY <1>4, AwaitMorePreserves
<1>5. CASE UNCHANGED framingVars
  BY <1>5 DEF framingVars, FramingInv, FramingTypeOK, ArrivedAreWritten, AtFrameStart,
              NothingStuck
<1> QED
  BY <1>1, <1>2, <1>3, <1>4, <1>5 DEF FramingNext

LEMMA FramingInvariant == FramingSpec => []FramingInv
BY FramingInitInv, FramingStepInv, PTL DEF FramingSpec

\* Between two chunks no frame that has arrived in full waits in the buffer of
\* an open socket, for any number of frames of any length, however the stream
\* is cut (the while loop of createMessageReader).
THEOREM ReaderLeavesNothingStuck == FramingSpec => []NothingStuck
<1>1. FramingInv => NothingStuck
  BY DEF FramingInv
<1> QED
  BY <1>1, FramingInvariant, PTL

\* Every step of the framed stream writes one message, hands out the next one
\* that was written, or is none of the receiver's business.
LEMMA DeliverySimulation ==
  FramingInv /\ [FramingNext]_framingVars
    => [Delivery!SendOne \/ Delivery!HandleOne]_Delivery!deliveryVars
<1> SUFFICES ASSUME FramingInv, [FramingNext]_framingVars
             PROVE  Delivery!SendOne \/ Delivery!HandleOne \/ UNCHANGED Delivery!deliveryVars
  OBVIOUS
<1>1. CASE WriteMessage
  BY <1>1 DEF WriteMessage, Delivery!SendOne
<1>2. ASSUME NEW n \in 1 .. Start[N + 1], Data(n)
      PROVE  UNCHANGED Delivery!deliveryVars
  BY <1>2 DEF Data, Delivery!deliveryVars
<1>3. ASSUME NEW len \in LengthsRead, TakeFrame(len)
      PROVE  Delivery!HandleOne \/ UNCHANGED Delivery!deliveryVars
  <2>1. FrameTaken(len) = Len(delivered) + 1 /\ Len(delivered) < written
    BY <1>3, TakesNext
  <2>2. delivered' = Append(delivered, Len(delivered) + 1) \/ delivered' = delivered
    BY <1>3, <2>1 DEF TakeFrame
  <2>3. written' = written
    BY <1>3 DEF TakeFrame
  <2> QED
    BY <2>1, <2>2, <2>3 DEF Delivery!HandleOne, Delivery!deliveryVars
<1>4. CASE AwaitMore
  BY <1>4 DEF AwaitMore, Delivery!deliveryVars
<1>5. CASE UNCHANGED framingVars
  BY <1>5 DEF framingVars, Delivery!deliveryVars
<1> QED
  BY <1>1, <1>2, <1>3, <1>4, <1>5 DEF FramingNext

\* For any frames and any chunks the framed stream implements the abstract
\* channel: the messages come out in the order of their writing, each once,
\* none made up from the wrong bytes (writeMessage, createMessageReader).
THEOREM FramingRefinesDelivery == FramingSpec => ImplementsDelivery
<1>1. FramingInit => Delivery!DeliveryInit
  BY DEF FramingInit, Delivery!DeliveryInit
<1> QED
  BY <1>1, FramingInvariant, DeliverySimulation, PTL
     DEF FramingSpec, ImplementsDelivery, Delivery!DeliverySpec
=============================================================================
