------------------------- MODULE InitiativeLock_proofs -------------------------
(****************************************************************************)
(* Proofs about InitiativeLock, for every set of sessions and hosts, every    *)
(* lease, heartbeat and clock skew.                                          *)
(****************************************************************************)
EXTENDS InitiativeLock, TLAPS

(* The record a session writes.                                              *)
LEMMA OursType ==
    ASSUME TypeOK, NEW s \in Sessions
    PROVE  /\ Ours(s) \in LockInfo
           /\ Ours(s).session = s /\ Ours(s).host = HostOf[s] /\ Ours(s).pid = pid[s]
BY ConstantsAssumption DEF Ours, LockInfo, TypeOK

(* No lock file and a torn one are not records.                               *)
LEMMA NoRecord == NoLock \notin LockInfo /\ Torn \notin LockInfo /\ NoLock # Torn
BY ConstantsAssumption, LockAssumption

LEMMA HorizonType == Horizon \in Nat /\ 0 \in 0..Horizon
BY ConstantsAssumption DEF Horizon

LEMMA AcquireType ==
    ASSUME TypeOK, NEW s \in Sessions, Acquire(s)
    PROVE  TypeOK'
<1> USE DEF TypeOK, Goto, disk, driver, call
<1>1. CASE AcquireRead(s)
  BY <1>1 DEF AcquireRead, MayCall, CallSteps
<1>2. CASE AcquireFree(s)
  BY <1>2, OursType DEF AcquireFree, CallSteps
<1>3. CASE AcquireOwn(s)
  BY <1>3 DEF AcquireOwn, CallSteps
<1>4. CASE AcquireRefused(s)
  BY <1>4, HorizonType DEF AcquireRefused, Return, Believes
<1>5. CASE AcquireTakeOver(s)
  BY <1>5, OursType DEF AcquireTakeOver, CallSteps
<1>6. CASE WriteHalt(s)
  BY <1>6 DEF WriteHalt, CallSteps
<1> QED
  BY <1>1, <1>2, <1>3, <1>4, <1>5, <1>6 DEF Acquire

LEMMA WriteType ==
    ASSUME TypeOK, NEW s \in Sessions, Write(s)
    PROVE  TypeOK'
<1> USE DEF TypeOK, Goto, driver
<1>1. CASE TruncateLock(s)
  BY <1>1 DEF TruncateLock, CallSteps
<1>2. CASE WriteLock(s)
  <2>1. seen[s] \in LockInfo /\ alive[s]
    BY <1>2 DEF WriteLock
  <2> QED
    BY <1>2, <2>1, HorizonType DEF WriteLock, Return, Believes
<1> QED
  BY <1>1, <1>2 DEF Write

LEMMA RenewType ==
    ASSUME TypeOK, NEW s \in Sessions, RenewRead(s)
    PROVE  TypeOK'
<1> USE DEF TypeOK, Goto, disk, driver, call
<1>0. alive[s] /\ pc[s] = "idle" /\ holds[s]
  BY DEF RenewRead, MayCall
<1>1. CASE Owns(s)
  <2>1. lock \in LockInfo
    BY <1>1 DEF Owns
  <2>2. /\ pc' = [pc EXCEPT ![s] = "write"] /\ seen' = [seen EXCEPT ![s] = lock]
        /\ UNCHANGED <<lock, age, halt, alive, pid, holds, busy, expired, elapsed>>
    BY <1>1 DEF RenewRead
  <2> QED
    BY <1>0, <2>1, <2>2 DEF CallSteps
<1>2. CASE ~Owns(s)
  BY <1>0, <1>2 DEF RenewRead, Believes
<1> QED
  BY <1>1, <1>2

LEMMA ReleaseType ==
    ASSUME TypeOK, NEW s \in Sessions, Release(s)
    PROVE  TypeOK'
<1>1. CASE ReleaseRead(s)
  <2> USE DEF TypeOK, Goto, disk, driver, call
  <2>0. alive[s] /\ pc[s] = "idle" /\ holds[s]
    BY <1>1 DEF ReleaseRead, MayCall
  <2>1. CASE Owns(s)
    BY <1>1, <2>0, <2>1 DEF ReleaseRead, CallSteps
  <2>2. CASE ~Owns(s)
    BY <1>1, <2>0, <2>2 DEF ReleaseRead, Believes
  <2> QED
    BY <2>1, <2>2
<1>2. CASE Unlink(s)
  BY <1>2, HorizonType DEF Unlink, Return, Believes, TypeOK, Goto
<1> QED
  BY <1>1, <1>2 DEF Release

LEMMA WorkType ==
    ASSUME TypeOK, NEW s \in Sessions, Work(s) \/ Crash(s) \/ Restart(s)
    PROVE  TypeOK'
<1> USE DEF TypeOK, Goto, disk, driver, call
<1>1. CASE Work(s)
  BY <1>1 DEF Work, StartArtifact, FinishArtifact, StandDown, Believes
<1>2. CASE Crash(s)
  BY <1>2, HorizonType DEF Crash, Return
<1>3. CASE Restart(s)
  BY <1>3 DEF Restart
<1> QED
  BY <1>1, <1>2, <1>3

LEMMA LaterType == \A n \in 0..Horizon : Later(n) \in 0..Horizon
BY HorizonType DEF Later

LEMMA TickType ==
    ASSUME TypeOK, Tick
    PROVE  TypeOK'
<1>1. age' \in 0..Horizon /\ elapsed' \in [Sessions -> 0..Horizon]
  BY LaterType DEF Tick, TypeOK
<1> QED
  BY <1>1 DEF Tick, TypeOK, driver

LEMMA NextType ==
    ASSUME TypeOK, [Next]_vars
    PROVE  TypeOK'
<1>1. CASE ClearHalt
  BY <1>1 DEF ClearHalt, TypeOK, driver, call
<1>2. CASE UNCHANGED vars
  BY <1>2 DEF vars, TypeOK
<1> QED
  BY <1>1, <1>2, AcquireType, WriteType, RenewType, ReleaseType, WorkType, TickType
  DEF Next

(* The lock file, the sentinel and every call's memory stay in their types,   *)
(* whatever interleaves or dies; a call about to write the lock holds a       *)
(* record (lock.py:273-305, 326-330).                                         *)
THEOREM TypeCorrect == Spec => []TypeOK
<1>1. Init => TypeOK
  <2> SUFFICES ASSUME Init PROVE TypeOK
    OBVIOUS
  <2>1. \A s \in Sessions : pc[s] = "idle" /\ ~holds[s] /\ ~busy[s]
    BY DEF Init
  <2>2. /\ lock \in LockInfo \cup {NoLock, Torn} /\ age \in 0..Horizon
        /\ elapsed \in [Sessions -> 0..Horizon]
        /\ seen \in [Sessions -> LockInfo \cup {NoLock}]
    BY HorizonType DEF Init
  <2>3. /\ halt \in BOOLEAN /\ alive \in [Sessions -> BOOLEAN]
        /\ pid \in [Sessions -> Nat] /\ holds \in [Sessions -> BOOLEAN]
        /\ busy \in [Sessions -> BOOLEAN] /\ expired \in [Sessions -> BOOLEAN]
        /\ pc \in [Sessions -> {"idle"} \cup CallSteps]
    BY DEF Init
  <2> QED
    BY <2>1, <2>2, <2>3 DEF TypeOK
<1> QED
  BY <1>1, NextType, PTL DEF Spec

----------------------------------------------------------------------------
(* Serial calls.  A step of a call moves one session's step only.             *)
LEMMA OneCall ==
    ASSUME Serial, TypeOK, CallsAgreeWithDisk, NEW s \in Sessions, NEW step,
           pc[s] # "idle" \/ MayCall(s), Goto(s, step)
    PROVE  /\ \A t \in Sessions : t # s => pc[t] = "idle" /\ pc'[t] = "idle"
           /\ pc'[s] = step
           /\ \A t, u \in Sessions : pc'[t] # "idle" /\ pc'[u] # "idle" => t = u
BY DEF MayCall, Idle, Goto, TypeOK, CallsAgreeWithDisk

LEMMA AcquireAgrees ==
    ASSUME Serial, TypeOK, CallsAgreeWithDisk, NEW s \in Sessions, Acquire(s)
    PROVE  CallsAgreeWithDisk'
<1> USE DEF disk, driver
<1>0. \A t \in Sessions : Agrees(t)
  BY DEF CallsAgreeWithDisk
<1>1. CASE AcquireRead(s)
  <2>1. /\ Goto(s, "judge") /\ MayCall(s)
        /\ UNCHANGED <<lock, halt, holds>>
        /\ seen' = [seen EXCEPT ![s] = lock]
    BY <1>1 DEF AcquireRead
  <2>2. seen'[s] = lock /\ lock # Torn
    BY <2>1 DEF MayCall, TypeOK
  <2> QED
    BY <1>0, <2>1, <2>2, OneCall DEF CallsAgreeWithDisk, Agrees, Owns
<1>2. CASE AcquireFree(s)
  <2>1. /\ Goto(s, "write") /\ pc[s] = "judge" /\ seen[s] = NoLock
        /\ UNCHANGED <<lock, halt, holds>>
        /\ seen' = [seen EXCEPT ![s] = Ours(s)]
    BY <1>2 DEF AcquireFree
  <2>2. lock = NoLock /\ seen'[s].session = s /\ \A t \in Sessions : ~Owns(t)
    BY <1>0, <2>1, OursType, NoRecord DEF TypeOK, Agrees, Owns
  <2>3. \A t \in Sessions \ {s} : pc[t] = "idle" /\ (holds[t] => halt)
    BY <1>0, <2>1, <2>2, OneCall DEF Agrees
  <2> QED
    BY <1>0, <2>1, <2>2, <2>3, OneCall, NoRecord DEF CallsAgreeWithDisk, Agrees, Owns
<1>3. CASE AcquireOwn(s)
  <2>1. /\ Goto(s, "write") /\ pc[s] = "judge"
        /\ seen[s] # NoLock /\ seen[s].session = s
        /\ UNCHANGED <<lock, halt, holds, seen>>
    BY <1>3 DEF AcquireOwn
  <2>2. lock = seen[s] /\ \A t \in Sessions \ {s} : ~Owns(t)
    BY <1>0, <2>1 DEF Agrees, Owns
  <2>3. \A t \in Sessions \ {s} : pc[t] = "idle" /\ (holds[t] => halt)
    BY <1>0, <2>1, <2>2, OneCall DEF Agrees
  <2> QED
    BY <1>0, <2>1, <2>2, <2>3, OneCall DEF CallsAgreeWithDisk, Agrees, Owns
<1>4. CASE AcquireRefused(s)
  <2>1. /\ Goto(s, "idle") /\ pc[s] = "judge"
        /\ UNCHANGED <<lock, halt>>
        /\ holds' = [holds EXCEPT ![s] = FALSE]
        /\ seen' = [seen EXCEPT ![s] = NoLock]
    BY <1>4 DEF AcquireRefused, Return, Believes
  <2> QED
    BY <1>0, <2>1, OneCall DEF CallsAgreeWithDisk, Agrees, Owns, TypeOK
<1>5. CASE AcquireTakeOver(s)
  <2>1. /\ Goto(s, "halt") /\ pc[s] = "judge"
        /\ UNCHANGED <<lock, halt, holds>>
        /\ seen' = [seen EXCEPT ![s] = Ours(s)]
    BY <1>5 DEF AcquireTakeOver
  <2>2. seen'[s].session = s
    BY <2>1, OursType DEF TypeOK
  <2> QED
    BY <1>0, <2>1, <2>2, OneCall DEF CallsAgreeWithDisk, Agrees, Owns
<1>6. CASE WriteHalt(s)
  <2>1. /\ Goto(s, "write") /\ pc[s] = "halt"
        /\ UNCHANGED <<lock, holds, seen>> /\ halt'
    BY <1>6 DEF WriteHalt
  <2> QED
    BY <1>0, <2>1, OneCall DEF CallsAgreeWithDisk, Agrees, Owns
<1> QED
  BY <1>1, <1>2, <1>3, <1>4, <1>5, <1>6 DEF Acquire

LEMMA WriteAgrees ==
    ASSUME Serial, TypeOK, CallsAgreeWithDisk, NEW s \in Sessions, Write(s)
    PROVE  CallsAgreeWithDisk'
<1> USE DEF driver
<1>0. \A t \in Sessions : Agrees(t)
  BY DEF CallsAgreeWithDisk
<1>1. CASE TruncateLock(s)
  <2>1. /\ Goto(s, "fill") /\ pc[s] = "write" /\ lock' = Torn
        /\ UNCHANGED <<halt, holds, seen>>
    BY <1>1 DEF TruncateLock
  <2> QED
    BY <1>0, <2>1, OneCall, NoRecord DEF CallsAgreeWithDisk, Agrees, Owns
<1>2. CASE WriteLock(s)
  <2>1. /\ Goto(s, "idle") /\ pc[s] \in {"write", "fill"} /\ lock' = seen[s]
        /\ UNCHANGED halt
        /\ holds' = [holds EXCEPT ![s] = TRUE]
        /\ seen' = [seen EXCEPT ![s] = NoLock]
    BY <1>2 DEF WriteLock, Return, Believes
  <2>2. seen[s] \in LockInfo /\ seen[s].session = s
    BY <1>0, <2>1 DEF TypeOK, Agrees
  <2>3. \A t \in Sessions \ {s} : pc[t] = "idle" /\ (holds[t] => halt)
    BY <1>0, <2>1, OneCall DEF Agrees
  <2> QED
    BY <1>0, <2>1, <2>2, <2>3, OneCall, NoRecord DEF CallsAgreeWithDisk, Agrees, Owns, TypeOK
<1> QED
  BY <1>1, <1>2 DEF Write

LEMMA RenewAgrees ==
    ASSUME Serial, TypeOK, CallsAgreeWithDisk, NEW s \in Sessions, RenewRead(s)
    PROVE  CallsAgreeWithDisk'
<1> USE DEF disk, driver, call
<1>0. \A t \in Sessions : Agrees(t)
  BY DEF CallsAgreeWithDisk
<1>1. MayCall(s) /\ holds[s] /\ lock # Torn
  BY DEF RenewRead, MayCall
<1>2. CASE Owns(s)
  <2>1. /\ Goto(s, "write") /\ UNCHANGED <<lock, halt, holds>>
        /\ seen' = [seen EXCEPT ![s] = lock]
    BY <1>2 DEF RenewRead
  <2>2. seen'[s].session = s /\ \A t \in Sessions \ {s} : ~Owns(t)
    BY <1>2, <2>1 DEF TypeOK, Owns
  <2>3. \A t \in Sessions \ {s} : pc[t] = "idle" /\ (holds[t] => halt)
    BY <1>0, <1>1, <2>1, <2>2, OneCall DEF Agrees
  <2> QED
    BY <1>0, <1>1, <2>1, <2>2, <2>3, OneCall DEF CallsAgreeWithDisk, Agrees, Owns
<1>3. CASE ~Owns(s)
  <2>1. /\ UNCHANGED <<lock, halt, pc, seen>>
        /\ holds' = [holds EXCEPT ![s] = FALSE]
    BY <1>3 DEF RenewRead, Believes
  <2> QED
    BY <1>0, <2>1 DEF CallsAgreeWithDisk, Agrees, Owns, TypeOK
<1> QED
  BY <1>2, <1>3

LEMMA ReleaseAgrees ==
    ASSUME Serial, TypeOK, CallsAgreeWithDisk, NEW s \in Sessions, Release(s)
    PROVE  CallsAgreeWithDisk'
<1> USE DEF disk, driver, call
<1>0. \A t \in Sessions : Agrees(t)
  BY DEF CallsAgreeWithDisk
<1>1. CASE ReleaseRead(s) /\ Owns(s)
  <2>1. /\ Goto(s, "unlink") /\ MayCall(s) /\ lock # Torn
        /\ UNCHANGED <<lock, halt, holds, seen>>
    BY <1>1 DEF ReleaseRead, MayCall
  <2> QED
    BY <1>0, <1>1, <2>1, OneCall DEF CallsAgreeWithDisk, Agrees, Owns
<1>2. CASE ReleaseRead(s) /\ ~Owns(s)
  <2>1. /\ UNCHANGED <<lock, halt, pc, seen>>
        /\ holds' = [holds EXCEPT ![s] = FALSE]
    BY <1>2 DEF ReleaseRead, Believes
  <2> QED
    BY <1>0, <2>1 DEF CallsAgreeWithDisk, Agrees, Owns, TypeOK
<1>3. CASE Unlink(s)
  <2>1. /\ Goto(s, "idle") /\ pc[s] = "unlink" /\ lock' = NoLock
        /\ UNCHANGED halt
        /\ holds' = [holds EXCEPT ![s] = FALSE]
        /\ seen' = [seen EXCEPT ![s] = NoLock]
    BY <1>3 DEF Unlink, Return, Believes
  <2>2. \A t \in Sessions \ {s} : ~Owns(t) /\ pc[t] = "idle"
    BY <1>0, <2>1, OneCall DEF Agrees, Owns
  <2>3. \A t \in Sessions \ {s} : holds[t] => halt
    BY <1>0, <2>2 DEF Agrees
  <2> QED
    BY <1>0, <2>1, <2>2, <2>3, OneCall, NoRecord DEF CallsAgreeWithDisk, Agrees, Owns, TypeOK
<1> QED
  BY <1>1, <1>2, <1>3 DEF Release

(* A step that leaves the disk alone, and whose only change to a call is to   *)
(* end it before it has truncated the lock.                                  *)
LEMMA StoppedAgrees ==
    ASSUME TypeOK, CallsAgreeWithDisk, UNCHANGED <<lock, halt>>,
           \A t \in Sessions : holds'[t] => holds[t],
           \A t \in Sessions : \/ pc'[t] = pc[t] /\ seen'[t] = seen[t]
                               \/ pc'[t] = "idle" /\ ~holds'[t]
    PROVE  CallsAgreeWithDisk'
BY DEF CallsAgreeWithDisk, Agrees, Owns

LEMMA WorkAgrees ==
    ASSUME TypeOK, CallsAgreeWithDisk, NEW s \in Sessions,
           Work(s) \/ Crash(s) \/ Restart(s)
    PROVE  CallsAgreeWithDisk'
<1> USE DEF disk, driver, call
<1>1. CASE Work(s) \/ Restart(s)
  <2>1. /\ UNCHANGED <<lock, halt, pc, seen>>
        /\ \A t \in Sessions : holds'[t] => holds[t]
    BY <1>1 DEF Work, StartArtifact, FinishArtifact, StandDown, Believes, Restart, TypeOK
  <2> QED
    BY <2>1, StoppedAgrees
<1>2. CASE Crash(s)
  <2>1. /\ UNCHANGED <<lock, halt>> /\ Goto(s, "idle")
        /\ holds' = [holds EXCEPT ![s] = FALSE]
        /\ seen' = [seen EXCEPT ![s] = NoLock]
    BY <1>2 DEF Crash, Return
  <2> QED
    BY <2>1, StoppedAgrees DEF Goto, TypeOK
<1> QED
  BY <1>1, <1>2

LEMMA NextAgrees ==
    ASSUME Serial, TypeOK, CallsAgreeWithDisk, [Next]_vars
    PROVE  CallsAgreeWithDisk'
<1>1. CASE ClearHalt
  BY <1>1 DEF ClearHalt, CallsAgreeWithDisk, Agrees, Owns, Idle, driver, call, TypeOK
<1>2. CASE Tick \/ UNCHANGED vars
  <2>1. UNCHANGED <<lock, halt, holds, pc, seen>>
    BY <1>2 DEF Tick, vars, driver
  <2> QED
    BY <2>1, StoppedAgrees
<1> QED
  BY <1>1, <1>2, AcquireAgrees, WriteAgrees, RenewAgrees, ReleaseAgrees, WorkAgrees
  DEF Next

(* When lock calls do not interleave, each of them acts on the lock that is   *)
(* on disk, and writes it only once whoever else takes itself for the owner   *)
(* is stopped by the sentinel (lock.py:273-305, 326-330, 340-343).            *)
THEOREM CallsAgree ==
    ASSUME Serial
    PROVE  Spec => []CallsAgreeWithDisk
<1>1. Init => CallsAgreeWithDisk
  BY DEF Init, CallsAgreeWithDisk, Agrees
<1>2. Serial /\ TypeOK /\ CallsAgreeWithDisk /\ [Next]_vars => CallsAgreeWithDisk'
  BY NextAgrees
<1>3. Serial
  OBVIOUS
<1> QED
  BY <1>1, <1>2, <1>3, TypeCorrect, PTL DEF Spec

(* Then a driver whose lock was taken over has the sentinel in front of it,   *)
(* wherever the takeover was cut short (lock.py:301-305).                     *)
THEOREM Displaced ==
    ASSUME Serial
    PROVE  Spec => []DisplacedIsHalted
<1>1. CallsAgreeWithDisk => DisplacedIsHalted
  BY DEF CallsAgreeWithDisk, Agrees, DisplacedIsHalted
<1> QED
  BY <1>1, CallsAgree, PTL

LEMMA OneDriverStep ==
    ASSUME Serial, TypeOK, CallsAgreeWithDisk, OneDriverProceeds, [Next]_vars
    PROVE  OneDriverProceeds'
<1> SUFFICES ASSUME NEW s \in Sessions, NEW t \in Sessions, busy'[s], busy'[t], s # t
             PROVE  FALSE
  BY DEF OneDriverProceeds
<1>1. PICK u \in Sessions : StartArtifact(u) /\ (u = s \/ u = t)
  <2>1. ~(busy[s] /\ busy[t])
    BY DEF OneDriverProceeds
  <2>2. \A u \in Sessions :
           Acquire(u) \/ RenewRead(u) \/ Write(u) \/ Release(u) \/ FinishArtifact(u)
           \/ StandDown(u) \/ Crash(u) \/ Restart(u) =>
              \A v \in Sessions : busy'[v] => busy[v]
    BY DEF Acquire, AcquireRead, AcquireFree, AcquireOwn, AcquireRefused, AcquireTakeOver,
           WriteHalt, RenewRead, Write, TruncateLock, WriteLock, Release, ReleaseRead,
           Unlink, FinishArtifact, StandDown, Crash, Restart, Believes, TypeOK,
           disk, driver, call
  <2>3. ClearHalt \/ Tick \/ UNCHANGED vars => busy' = busy
    BY DEF ClearHalt, Tick, vars, driver
  <2>4. \A u \in Sessions : StartArtifact(u) => \A v \in Sessions \ {u} : busy'[v] = busy[v]
    BY DEF StartArtifact, TypeOK
  <2> QED
    BY <2>1, <2>2, <2>3, <2>4 DEF Next, Work
<1>2. holds[s] /\ holds[t] /\ ~halt /\ pc[u] = "idle"
  BY <1>1 DEF StartArtifact, TypeOK, disk
<1>3. \A v \in Sessions : Agrees(v) /\ (holds[v] => Owns(v) \/ pc[v] = "fill")
  BY <1>2 DEF CallsAgreeWithDisk, Agrees
<1> QED
  BY <1>1, <1>2, <1>3 DEF Owns, Agrees, CallsAgreeWithDisk, LockInfo, TypeOK

(* Then two drivers never work on an artifact at the same time                *)
(* (lock.py:214-216), for every lease, heartbeat and clock skew.              *)
THEOREM OneDriver ==
    ASSUME Serial
    PROVE  Spec => []OneDriverProceeds
<1>1. Init => OneDriverProceeds
  BY DEF Init, OneDriverProceeds
<1>2. Serial /\ TypeOK /\ CallsAgreeWithDisk /\ OneDriverProceeds /\ [Next]_vars
      => OneDriverProceeds'
  BY OneDriverStep
<1>3. Serial
  OBVIOUS
<1> QED
  BY <1>1, <1>2, <1>3, TypeCorrect, CallsAgree, PTL DEF Spec

----------------------------------------------------------------------------
(* Drivers that renew in time.                                               *)

Timely == Serial /\ Heartbeat + MaxSkew <= LeaseTTL /\ MaxProcesses = 1

(* A record that was renewed in time is not takeable from its holder.         *)
LEMMA NotTakeable ==
    ASSUME Timely, TypeOK, CallsAgreeWithDisk, RenewedInTime,
           NEW s \in Sessions, NEW t \in Sessions, s # t, holds[t],
           pc[s] = "judge", seen[s] # NoLock, NEW probe \in PidAlive(seen[s])
    PROVE  ~Takeable(s, probe)
<1>1. seen[s] = lock /\ pc[t] # "fill"
  BY DEF CallsAgreeWithDisk, Agrees
<1>2. lock \in LockInfo /\ lock.session = t
  BY <1>1 DEF RenewedInTime, RecordRenewed, CallRenewed, Owns
<1>3. /\ lock.host = HostOf[t] /\ lock.pid = pid[t] /\ age <= Heartbeat
      /\ expired[s] <=> LeaseExpired(s, lock)
  BY <1>2 DEF RenewedInTime, RecordRenewed, CallRenewed
<1>4. ~LeaseExpired(s, lock)
  <2>1. Skew[HostOf[s]] \in 0..MaxSkew /\ Skew[lock.host] \in 0..MaxSkew
    BY <1>3, ConstantsAssumption
  <2>2. age \in Nat
    BY HorizonType DEF TypeOK
  <2> QED
    BY <1>3, <2>1, <2>2, ConstantsAssumption DEF LeaseExpired, Timely
<1>5. probe
  BY <1>1, <1>2, <1>3 DEF PidAlive, ProcessLives, TypeOK
<1> QED
  BY <1>3, <1>4, <1>5 DEF Takeable, TypeOK

LEMMA AcquireRenewed ==
    ASSUME Timely, TypeOK, CallsAgreeWithDisk, RenewedInTime,
           NEW s \in Sessions, Acquire(s)
    PROVE  RenewedInTime'
<1> USE DEF disk, driver, Timely
<1>0. \A t \in Sessions : Agrees(t)
  BY DEF CallsAgreeWithDisk
<1>1. CASE AcquireRead(s)
  <2>1. /\ Goto(s, "judge") /\ MayCall(s)
        /\ UNCHANGED <<lock, age, pid, holds, elapsed>>
        /\ seen' = [seen EXCEPT ![s] = lock]
        /\ expired' = [expired EXCEPT ![s] = lock \in LockInfo /\ LeaseExpired(s, lock)]
    BY <1>1 DEF AcquireRead
  <2>2. \A t \in Sessions : LeaseExpired(t, lock)' <=> LeaseExpired(t, lock)
    BY <2>1 DEF LeaseExpired
  <2>3. holds[s] => Owns(s)
    BY <2>1 DEF RenewedInTime, CallRenewed, MayCall
  <2>4. RecordRenewed'
    BY <2>1 DEF RenewedInTime, RecordRenewed
  <2>5. CallRenewed(s)'
    <3>1. expired'[s] <=> lock \in LockInfo /\ LeaseExpired(s, lock)
      BY <2>1, Zenon DEF TypeOK
    <3>2. (lock \in LockInfo)' <=> lock \in LockInfo
      BY <2>1
    <3>3. /\ pid'[s] = 1 /\ elapsed'[s] = 0 /\ pc'[s] = "judge"
          /\ holds'[s] => Owns(s)'
      BY <2>1, <2>3, OneCall DEF RenewedInTime, CallRenewed, Owns
    <3> QED
      BY <2>2, <3>1, <3>2, <3>3 DEF CallRenewed
  <2>6. ASSUME NEW t \in Sessions \ {s} PROVE CallRenewed(t)'
    BY <2>1, OneCall DEF RenewedInTime, CallRenewed, Owns
  <2> QED
    BY <2>4, <2>5, <2>6 DEF RenewedInTime
<1>2. CASE AcquireFree(s)
  <2>1. /\ Goto(s, "write") /\ pc[s] = "judge" /\ seen[s] = NoLock
        /\ UNCHANGED <<lock, age, pid, holds, elapsed, expired>>
        /\ seen' = [seen EXCEPT ![s] = Ours(s)]
    BY <1>2 DEF AcquireFree
  <2>2. \A t \in Sessions \ {s} : ~holds[t]
    BY <1>0, <2>1, OneCall, NoRecord DEF RenewedInTime, CallRenewed, Agrees, Owns
  <2> QED
    BY <2>1, <2>2, OneCall, OursType DEF RenewedInTime, RecordRenewed, CallRenewed, Owns, LeaseExpired, TypeOK
<1>3. CASE AcquireOwn(s)
  <2>1. /\ Goto(s, "write") /\ pc[s] = "judge"
        /\ seen[s] # NoLock /\ seen[s].session = s
        /\ UNCHANGED <<lock, age, pid, holds, elapsed, expired, seen>>
    BY <1>3 DEF AcquireOwn
  <2>2. seen[s] = lock /\ lock \in LockInfo
    BY <1>0, <2>1 DEF Agrees, TypeOK
  <2>3. \A t \in Sessions \ {s} : ~holds[t]
    BY <2>1, <2>2, OneCall DEF RenewedInTime, RecordRenewed, CallRenewed, Owns
  <2> QED
    BY <2>1, <2>2, <2>3, OneCall DEF RenewedInTime, RecordRenewed, CallRenewed, Owns, LeaseExpired, TypeOK
<1>4. CASE AcquireRefused(s)
  <2>1. /\ Goto(s, "idle") /\ pc[s] = "judge"
        /\ UNCHANGED <<lock, age, pid>>
        /\ holds' = [holds EXCEPT ![s] = FALSE]
        /\ elapsed' = [elapsed EXCEPT ![s] = 0]
    BY <1>4 DEF AcquireRefused, Return, Believes
  <2> QED
    BY <2>1, OneCall DEF RenewedInTime, RecordRenewed, CallRenewed, Owns, TypeOK
<1>5. CASE AcquireTakeOver(s)
  <2>1. /\ Goto(s, "halt") /\ pc[s] = "judge" /\ seen[s] # NoLock
        /\ UNCHANGED <<lock, age, pid, holds, elapsed, expired>>
        /\ seen' = [seen EXCEPT ![s] = Ours(s)]
    BY <1>5 DEF AcquireTakeOver
  <2>2. \A t \in Sessions \ {s} : ~holds[t]
    BY <1>5, <2>1, NotTakeable DEF AcquireTakeOver
  <2> QED
    BY <2>1, <2>2, OneCall, OursType DEF RenewedInTime, RecordRenewed, CallRenewed, Owns, LeaseExpired, TypeOK
<1>6. CASE WriteHalt(s)
  <2>1. /\ Goto(s, "write") /\ pc[s] = "halt"
        /\ UNCHANGED <<lock, age, pid, holds, elapsed, expired, seen>>
    BY <1>6 DEF WriteHalt
  <2> QED
    BY <2>1, OneCall DEF RenewedInTime, RecordRenewed, CallRenewed, Owns, LeaseExpired, TypeOK
<1> QED
  BY <1>1, <1>2, <1>3, <1>4, <1>5, <1>6 DEF Acquire

LEMMA WriteRenewed ==
    ASSUME Timely, TypeOK, CallsAgreeWithDisk, RenewedInTime,
           NEW s \in Sessions, Write(s)
    PROVE  RenewedInTime'
<1> USE DEF driver, Timely
<1>1. CASE TruncateLock(s)
  <2>1. /\ Goto(s, "fill") /\ pc[s] = "write" /\ lock' = Torn
        /\ UNCHANGED <<age, pid, holds, elapsed, expired, seen>>
    BY <1>1 DEF TruncateLock
  <2> QED
    BY <2>1, OneCall, NoRecord DEF RenewedInTime, RecordRenewed, CallRenewed, Owns, TypeOK
<1>2. CASE WriteLock(s)
  <2>1. /\ Goto(s, "idle") /\ pc[s] \in {"write", "fill"} /\ lock' = seen[s]
        /\ UNCHANGED pid /\ age' = elapsed[s]
        /\ holds' = [holds EXCEPT ![s] = TRUE]
        /\ elapsed' = [elapsed EXCEPT ![s] = 0]
    BY <1>2 DEF WriteLock, Return, Believes
  <2>2. /\ lock' \in LockInfo /\ lock'.session = s
        /\ lock'.host = HostOf[s] /\ lock'.pid = pid[s]
        /\ \A t \in Sessions \ {s} : ~holds[t]
    BY <2>1 DEF RenewedInTime, CallRenewed, TypeOK, CallsAgreeWithDisk, Agrees
  <2>3. age' = 0 /\ 0 <= Heartbeat
    BY <2>1, ConstantsAssumption DEF RenewedInTime, RecordRenewed, CallRenewed
  <2> QED
    BY <2>1, <2>2, <2>3, OneCall DEF RenewedInTime, RecordRenewed, CallRenewed, Owns, TypeOK
<1> QED
  BY <1>1, <1>2 DEF Write

LEMMA RenewRenewed ==
    ASSUME Timely, TypeOK, CallsAgreeWithDisk, RenewedInTime,
           NEW s \in Sessions, RenewRead(s)
    PROVE  RenewedInTime'
<1> USE DEF disk, driver, call, Timely
<1>1. CASE Owns(s)
  <2>1. /\ Goto(s, "write") /\ MayCall(s)
        /\ UNCHANGED <<lock, age, pid, holds, elapsed, expired>>
        /\ seen' = [seen EXCEPT ![s] = lock]
    BY <1>1 DEF RenewRead
  <2>2. \A t \in Sessions \ {s} : ~holds[t]
    BY <1>1, <2>1, OneCall DEF RenewedInTime, RecordRenewed, CallRenewed, Owns
  <2> QED
    BY <1>1, <2>1, <2>2, OneCall DEF RenewedInTime, RecordRenewed, CallRenewed, Owns, TypeOK
<1>2. CASE ~Owns(s)
  <2>1. /\ UNCHANGED <<lock, age, pid, elapsed, expired, pc, seen>>
        /\ holds' = [holds EXCEPT ![s] = FALSE]
    BY <1>2 DEF RenewRead, Believes
  <2> QED
    BY <2>1 DEF RenewedInTime, RecordRenewed, CallRenewed, Owns, LeaseExpired, TypeOK
<1> QED
  BY <1>1, <1>2

LEMMA ReleaseRenewed ==
    ASSUME Timely, TypeOK, CallsAgreeWithDisk, RenewedInTime,
           NEW s \in Sessions, Release(s)
    PROVE  RenewedInTime'
<1> USE DEF disk, driver, call, Timely
<1>1. CASE ReleaseRead(s) /\ Owns(s)
  <2>1. /\ Goto(s, "unlink") /\ MayCall(s)
        /\ UNCHANGED <<lock, age, pid, holds, elapsed, expired, seen>>
    BY <1>1 DEF ReleaseRead
  <2>2. \A t \in Sessions : LeaseExpired(t, lock)' <=> LeaseExpired(t, lock)
    BY <2>1 DEF LeaseExpired
  <2>3. RecordRenewed'
    BY <2>1 DEF RenewedInTime, RecordRenewed
  <2>4. ASSUME NEW t \in Sessions PROVE CallRenewed(t)'
    BY <1>1, <2>1, OneCall DEF RenewedInTime, CallRenewed, Owns
  <2> QED
    BY <2>3, <2>4 DEF RenewedInTime
<1>2. CASE ReleaseRead(s) /\ ~Owns(s)
  <2>1. /\ UNCHANGED <<lock, age, pid, elapsed, expired, pc, seen>>
        /\ holds' = [holds EXCEPT ![s] = FALSE]
    BY <1>2 DEF ReleaseRead, Believes
  <2> QED
    BY <2>1 DEF RenewedInTime, RecordRenewed, CallRenewed, Owns, LeaseExpired, TypeOK
<1>3. CASE Unlink(s)
  <2>1. /\ Goto(s, "idle") /\ pc[s] = "unlink" /\ lock' = NoLock
        /\ UNCHANGED pid
        /\ holds' = [holds EXCEPT ![s] = FALSE]
        /\ elapsed' = [elapsed EXCEPT ![s] = 0]
    BY <1>3 DEF Unlink, Return, Believes
  <2>2. \A t \in Sessions \ {s} : ~holds[t]
    BY <2>1, OneCall DEF RenewedInTime, CallRenewed, CallsAgreeWithDisk, Agrees, Owns
  <2> QED
    BY <2>1, <2>2, OneCall, NoRecord DEF RenewedInTime, RecordRenewed, CallRenewed, Owns, TypeOK
<1> QED
  BY <1>1, <1>2, <1>3 DEF Release

LEMMA WorkRenewed ==
    ASSUME Timely, TypeOK, CallsAgreeWithDisk, RenewedInTime,
           NEW s \in Sessions, Work(s) \/ Crash(s) \/ Restart(s)
    PROVE  RenewedInTime'
<1> USE DEF disk, driver, call, Timely
<1>1. CASE Work(s)
  <2>1. /\ UNCHANGED <<lock, age, pid, elapsed, expired, pc, seen>>
        /\ \A t \in Sessions : holds'[t] => holds[t]
    BY <1>1 DEF Work, StartArtifact, FinishArtifact, StandDown, Believes, TypeOK
  <2>2. \A t \in Sessions : LeaseExpired(t, lock)' <=> LeaseExpired(t, lock)
    BY <2>1 DEF LeaseExpired
  <2>3. RecordRenewed'
    BY <2>1 DEF RenewedInTime, RecordRenewed, LockInfo
  <2>4. ASSUME NEW t \in Sessions PROVE CallRenewed(t)'
    BY <2>1, <2>2 DEF RenewedInTime, CallRenewed, Owns
  <2> QED
    BY <2>3, <2>4 DEF RenewedInTime
<1>2. CASE Crash(s)
  <2>1. /\ UNCHANGED <<lock, age, pid>> /\ Goto(s, "idle")
        /\ holds' = [holds EXCEPT ![s] = FALSE]
        /\ seen' = [seen EXCEPT ![s] = NoLock]
        /\ expired' = [expired EXCEPT ![s] = FALSE]
        /\ elapsed' = [elapsed EXCEPT ![s] = 0]
    BY <1>2 DEF Crash, Return
  <2> QED
    BY <2>1 DEF RenewedInTime, RecordRenewed, CallRenewed, Owns, LeaseExpired, TypeOK, Goto
<1>3. ~Restart(s)
  BY DEF Restart, RenewedInTime, CallRenewed
<1> QED
  BY <1>1, <1>2, <1>3

LEMMA TickRenewed ==
    ASSUME Timely, TypeOK, CallsAgreeWithDisk, RenewedInTime, Tick
    PROVE  RenewedInTime'
<1> USE DEF driver, Timely
<1>1. \A t \in Sessions : pc[t] = "idle"
  BY DEF Tick, Idle
<1>2. /\ UNCHANGED <<lock, pid, holds, pc, seen>>
      /\ age' = IF lock \in LockInfo THEN Later(age) ELSE age
      /\ elapsed' = [s \in Sessions |->
                        IF pc[s] = "idle" THEN elapsed[s] ELSE Later(elapsed[s])]
      /\ \A s \in Sessions : holds[s] /\ Owns(s) => age < Heartbeat
  BY DEF Tick
<1>3. ASSUME lock \in LockInfo, holds[lock.session]
      PROVE  age' <= Heartbeat
  <2>1. lock.session \in Sessions /\ age \in Nat
    BY <1>3, HorizonType DEF LockInfo, TypeOK
  <2>2. age < Heartbeat
    BY <1>2, <1>3, <2>1 DEF Owns
  <2> QED
    BY <1>2, <1>3, <2>1, <2>2, ConstantsAssumption DEF Later
<1> QED
  BY <1>1, <1>2, <1>3 DEF RenewedInTime, RecordRenewed, CallRenewed, Owns

LEMMA NextRenewed ==
    ASSUME Timely, TypeOK, CallsAgreeWithDisk, RenewedInTime, [Next]_vars
    PROVE  RenewedInTime'
<1>1. CASE ClearHalt \/ UNCHANGED vars
  BY <1>1 DEF ClearHalt, vars, RenewedInTime, RecordRenewed, CallRenewed, Owns, LeaseExpired, driver, call, TypeOK
<1> QED
  BY <1>1, AcquireRenewed, WriteRenewed, RenewRenewed, ReleaseRenewed, WorkRenewed,
     TickRenewed DEF Next

(* The lease arithmetic: with calls that do not interleave, heartbeat plus    *)
(* clock skew within the lease, and a new session id for every process, the   *)
(* record a driver owns is never older than its heartbeat, so no call finds   *)
(* it takeable (lock.py:180-201).                                            *)
THEOREM Renewed ==
    ASSUME Timely
    PROVE  Spec => []RenewedInTime
<1>1. Init => RenewedInTime
  BY NoRecord DEF Init, RenewedInTime, RecordRenewed, CallRenewed
<1>2. Timely /\ TypeOK /\ CallsAgreeWithDisk /\ RenewedInTime /\ [Next]_vars
      => RenewedInTime'
  BY NextRenewed
<1>3. Timely /\ Serial
  BY DEF Timely
<1> QED
  BY <1>1, <1>2, <1>3, TypeCorrect, CallsAgree, PTL DEF Spec

(* Then a driver that renews within its heartbeat is never displaced, on      *)
(* hosts whose clocks differ by up to MaxSkew (lock.py:194-201).              *)
THEOREM Holder ==
    ASSUME Timely
    PROVE  Spec => []HolderOwns
<1>1. RenewedInTime /\ CallsAgreeWithDisk => HolderOwns
  BY DEF RenewedInTime, CallRenewed, CallsAgreeWithDisk, Agrees, HolderOwns
<1>2. Serial
  BY DEF Timely
<1> QED
  BY <1>1, <1>2, Renewed, CallsAgree, PTL

----------------------------------------------------------------------------
(* The promise to the drivers: calls that do not interleave and a write that  *)
(* is never seen half done, whatever heartbeat, skew, deaths, restarts and    *)
(* reused PIDs.                                                              *)

Whole == Serial /\ ~TornWrites

LEMMA SameClaim ==
    ASSUME UNCHANGED <<lock, age, alive, pid>>
    PROVE  Lapsed' <=> Lapsed
BY DEF Lapsed, ProcessLives

(* A step of one call: the others are idle, so only its own claim to write    *)
(* the lock has to be looked at.                                             *)
LEMMA EntitledAlone ==
    ASSUME Whole, TypeOK, CallsAgreeWithDisk, ClaimsInStep, NEW s \in Sessions, NEW step,
           pc[s] # "idle" \/ MayCall(s), Goto(s, step),
           UNCHANGED elapsed \/ elapsed' = [elapsed EXCEPT ![s] = 0],
           lock' # Torn,
           lock' \in LockInfo => lock'.pid <= pid'[lock'.session],
           step \in {"judge", "halt", "write"} => Entitled(s)'
    PROVE  ClaimsInStep'
<1>1. pc'[s] = step /\ \A t \in Sessions : t # s => pc'[t] = "idle"
  BY OneCall DEF Whole
<1>2. \A t \in Sessions : elapsed'[t] = 0
  BY DEF ClaimsInStep, Entitled, TypeOK
<1>3. ASSUME NEW t \in Sessions PROVE Entitled(t)'
  <2>1. CASE pc'[t] \in {"judge", "halt", "write"}
    BY <1>1, <2>1
  <2>2. CASE pc'[t] \notin {"judge", "halt", "write"}
    BY <1>2, <2>2 DEF Entitled
  <2> QED
    BY <2>1, <2>2
<1> QED
  BY <1>3 DEF ClaimsInStep

(* A lock that may be taken over has lapsed.                                  *)
LEMMA TakenWhenLapsed ==
    ASSUME TypeOK, CallsAgreeWithDisk, ClaimsInStep, NEW s \in Sessions,
           pc[s] = "judge", seen[s] # NoLock,
           NEW probe \in PidAlive(seen[s]), Takeable(s, probe)
    PROVE  Lapsed
<1>1. seen[s] = lock /\ lock \in LockInfo
  BY DEF CallsAgreeWithDisk, Agrees, TypeOK
<1>2. CASE expired[s]
  BY <1>2 DEF ClaimsInStep, Entitled
<1>3. CASE ~probe
  <2>1. ~ProcessLives(seen[s])
    BY <1>3 DEF PidAlive
  <2> QED
    BY <1>1, <2>1 DEF Lapsed
<1> QED
  BY <1>2, <1>3 DEF Takeable

LEMMA ExpiredLapsed ==
    ASSUME TypeOK, NEW s \in Sessions, lock \in LockInfo, LeaseExpired(s, lock)
    PROVE  Lapsed
<1>1. Skew[HostOf[s]] \in 0..MaxSkew /\ Skew[lock.host] \in 0..MaxSkew /\ age \in Nat
  BY ConstantsAssumption, HorizonType DEF LockInfo, TypeOK
<1>2. age + MaxSkew > LeaseTTL
  BY <1>1, ConstantsAssumption DEF LeaseExpired
<1> QED
  BY <1>2 DEF Lapsed

LEMMA AcquireClaims ==
    ASSUME Whole, TypeOK, CallsAgreeWithDisk, ClaimsInStep,
           NEW s \in Sessions, Acquire(s)
    PROVE  ClaimsInStep'
<1> USE DEF disk, driver
<1>0. Agrees(s) /\ Entitled(s) /\ elapsed[s] = 0
  BY DEF CallsAgreeWithDisk, ClaimsInStep, Entitled
<1>1. /\ lock # Torn
      /\ lock \in LockInfo => lock.pid <= pid[lock.session]
  BY DEF ClaimsInStep
<1>2. CASE AcquireRead(s)
  <2>1. /\ Goto(s, "judge") /\ MayCall(s)
        /\ UNCHANGED <<lock, age, alive, pid, elapsed>>
        /\ expired' = [expired EXCEPT ![s] = lock \in LockInfo /\ LeaseExpired(s, lock)]
    BY <1>2 DEF AcquireRead
  <2>2. expired'[s] => lock \in LockInfo /\ Lapsed
    <3>1. expired'[s] <=> lock \in LockInfo /\ LeaseExpired(s, lock)
      BY <2>1, Zenon DEF TypeOK
    <3> QED
      BY <3>1, ExpiredLapsed
  <2>3. pc'[s] = "judge" /\ elapsed'[s] = 0
    BY <1>0, <2>1 DEF Goto, TypeOK
  <2>4. Entitled(s)'
    BY <2>1, <2>2, <2>3, SameClaim DEF Entitled
  <2> QED
    BY <1>1, <2>1, <2>4, EntitledAlone
<1>3. CASE AcquireFree(s)
  <2>1. /\ Goto(s, "write") /\ pc[s] = "judge" /\ seen[s] = NoLock
        /\ UNCHANGED <<lock, age, alive, pid, elapsed>>
        /\ seen' = [seen EXCEPT ![s] = Ours(s)]
    BY <1>3 DEF AcquireFree
  <2>2. lock = NoLock /\ pc'[s] = "write" /\ seen'[s] = Ours(s) /\ Ours(s)' = Ours(s)
    BY <1>0, <2>1 DEF Agrees, Goto, Ours, TypeOK
  <2>3. Entitled(s)'
    BY <1>0, <2>1, <2>2 DEF Entitled
  <2> QED
    BY <1>1, <2>1, <2>3, EntitledAlone
<1>4. CASE AcquireOwn(s)
  <2>1. /\ Goto(s, "write") /\ pc[s] = "judge"
        /\ seen[s] # NoLock /\ seen[s].session = s
        /\ UNCHANGED <<lock, age, alive, pid, elapsed, seen>>
    BY <1>4 DEF AcquireOwn
  <2>2. seen[s] = lock /\ Owns(s) /\ pc'[s] = "write"
    BY <1>0, <2>1 DEF Agrees, Owns, Goto, TypeOK
  <2>3. Entitled(s)'
    BY <1>0, <2>1, <2>2 DEF Entitled, Owns
  <2> QED
    BY <1>1, <2>1, <2>3, EntitledAlone
<1>5. CASE AcquireRefused(s)
  <2>1. /\ Goto(s, "idle") /\ pc[s] = "judge"
        /\ UNCHANGED <<lock, age, alive, pid>>
        /\ elapsed' = [elapsed EXCEPT ![s] = 0]
    BY <1>5 DEF AcquireRefused, Return, Believes
  <2> QED
    BY <1>1, <2>1, EntitledAlone
<1>6. CASE AcquireTakeOver(s)
  <2>1. /\ Goto(s, "halt") /\ pc[s] = "judge"
        /\ seen[s] # NoLock /\ seen[s].session # s
        /\ UNCHANGED <<lock, age, alive, pid, elapsed>>
        /\ seen' = [seen EXCEPT ![s] = Ours(s)]
    BY <1>6 DEF AcquireTakeOver
  <2>2. Lapsed
    BY <1>6, <2>1, TakenWhenLapsed DEF AcquireTakeOver
  <2>3. ~Owns(s) /\ pc'[s] = "halt" /\ seen'[s] = Ours(s) /\ Ours(s)' = Ours(s)
    BY <1>0, <2>1 DEF Agrees, Owns, Goto, Ours, TypeOK
  <2>4. Entitled(s)'
    BY <1>0, <2>1, <2>2, <2>3, SameClaim DEF Entitled, Owns
  <2> QED
    BY <1>1, <2>1, <2>4, EntitledAlone
<1>7. CASE WriteHalt(s)
  <2>1. /\ Goto(s, "write") /\ pc[s] = "halt" /\ halt'
        /\ UNCHANGED <<lock, age, alive, pid, elapsed, seen>>
    BY <1>7 DEF WriteHalt
  <2>2. Lapsed /\ ~Owns(s) /\ seen[s] = Ours(s) /\ Ours(s)' = Ours(s) /\ pc'[s] = "write"
    BY <1>0, <2>1 DEF Entitled, Goto, Ours, TypeOK
  <2>3. Entitled(s)'
    BY <1>0, <2>1, <2>2, SameClaim DEF Entitled, Owns
  <2> QED
    BY <1>1, <2>1, <2>3, EntitledAlone
<1> QED
  BY <1>2, <1>3, <1>4, <1>5, <1>6, <1>7 DEF Acquire

LEMMA WriteClaims ==
    ASSUME Whole, TypeOK, CallsAgreeWithDisk, ClaimsInStep,
           NEW s \in Sessions, Write(s)
    PROVE  ClaimsInStep'
<1>1. WriteLock(s)
  BY DEF Write, TruncateLock, Whole
<1>2. /\ Goto(s, "idle") /\ pc[s] = "write" /\ lock' = seen[s] /\ UNCHANGED pid
      /\ elapsed' = [elapsed EXCEPT ![s] = 0]
  BY <1>1 DEF WriteLock, Return, Believes, Whole
<1>3. seen[s] \in LockInfo /\ seen[s].session = s
  BY <1>2 DEF TypeOK, CallsAgreeWithDisk, Agrees
<1>4. seen[s].pid <= pid[s]
  <2>1. CASE seen[s] = lock
    BY <1>3, <2>1 DEF ClaimsInStep
  <2>2. CASE seen[s] = Ours(s)
    BY <2>2, OursType DEF TypeOK
  <2> QED
    BY <1>2, <2>1, <2>2 DEF ClaimsInStep, Entitled
<1> QED
  BY <1>2, <1>3, <1>4, NoRecord, EntitledAlone

LEMMA HolderClaims ==
    ASSUME Whole, TypeOK, CallsAgreeWithDisk, ClaimsInStep,
           NEW s \in Sessions, RenewRead(s) \/ Release(s)
    PROVE  ClaimsInStep'
<1> USE DEF disk, driver, call
<1>0. /\ elapsed[s] = 0 /\ lock # Torn
      /\ lock \in LockInfo => lock.pid <= pid[lock.session]
  BY DEF ClaimsInStep, Entitled
<1>1. CASE RenewRead(s) /\ Owns(s)
  <2>1. /\ Goto(s, "write") /\ MayCall(s)
        /\ UNCHANGED <<lock, age, alive, pid, elapsed>>
        /\ seen' = [seen EXCEPT ![s] = lock]
    BY <1>1 DEF RenewRead
  <2>2. pc'[s] = "write" /\ seen'[s] = lock
    BY <2>1 DEF Goto, TypeOK
  <2>3. Entitled(s)'
    BY <1>0, <1>1, <2>1, <2>2 DEF Entitled, Owns
  <2> QED
    BY <1>0, <2>1, <2>3, EntitledAlone
<1>2. CASE (RenewRead(s) \/ ReleaseRead(s)) /\ ~Owns(s)
  <2>1. UNCHANGED <<lock, age, halt, alive, pid, pc, seen, expired, elapsed>>
    BY <1>2 DEF RenewRead, ReleaseRead, Believes
  <2> QED
    BY <2>1, SameClaim DEF ClaimsInStep, Entitled, Owns, Ours
<1>3. CASE ReleaseRead(s) /\ Owns(s)
  <2>1. /\ Goto(s, "unlink") /\ MayCall(s) /\ UNCHANGED <<lock, pid, elapsed>>
    BY <1>3 DEF ReleaseRead
  <2> QED
    BY <1>0, <2>1, EntitledAlone
<1>4. CASE Unlink(s)
  <2>1. /\ Goto(s, "idle") /\ pc[s] = "unlink" /\ lock' = NoLock
        /\ elapsed' = [elapsed EXCEPT ![s] = 0]
    BY <1>4 DEF Unlink, Return
  <2> QED
    BY <2>1, NoRecord, EntitledAlone
<1> QED
  BY <1>1, <1>2, <1>3, <1>4 DEF Release

(* A process dies, starts again or goes on with its work, or time passes:     *)
(* a claim that has lapsed stays so.                                         *)
LEMMA LapsedStays ==
    ASSUME Whole, TypeOK, ClaimsInStep, Lapsed,
           Tick \/ \E s \in Sessions : Crash(s) \/ Restart(s)
    PROVE  Lapsed'
<1> USE DEF disk, driver, call
<1>1. lock \in LockInfo /\ lock.session \in Sessions /\ lock.pid \in Nat
      /\ lock.pid <= pid[lock.session] /\ age \in 0..Horizon
  BY DEF Lapsed, ClaimsInStep, LockInfo, TypeOK
<1>2. CASE Tick
  <2>1. /\ UNCHANGED <<lock, alive, pid>> /\ age' = Later(age)
    BY <1>1, <1>2 DEF Tick
  <2>2. age \in Nat /\ (age' = age + 1 \/ age' = age)
    BY <1>1, <2>1, HorizonType DEF Later
  <2> QED
    BY <2>1, <2>2, ConstantsAssumption DEF Lapsed, ProcessLives
<1>3. ASSUME NEW s \in Sessions, Crash(s)
      PROVE  Lapsed'
  BY <1>3 DEF Crash, Lapsed, ProcessLives, TypeOK
<1>4. ASSUME NEW s \in Sessions, Restart(s)
      PROVE  Lapsed'
  <2>1. /\ UNCHANGED <<lock, age>> /\ ~alive[s]
        /\ alive' = [alive EXCEPT ![s] = TRUE]
        /\ pid' = [pid EXCEPT ![s] = pid[s] + 1]
    BY <1>4 DEF Restart
  <2>2. lock.session # s => (ProcessLives(lock)' <=> ProcessLives(lock))
    BY <1>1, <2>1 DEF ProcessLives, TypeOK
  <2>3. lock.session = s => ~ProcessLives(lock)'
    BY <1>1, <2>1 DEF ProcessLives, TypeOK
  <2> QED
    BY <1>1, <2>1, <2>2, <2>3 DEF Lapsed
<1> QED
  BY <1>2, <1>3, <1>4

LEMMA WorkClaims ==
    ASSUME Whole, TypeOK, CallsAgreeWithDisk, ClaimsInStep,
           NEW s \in Sessions, Work(s) \/ Crash(s) \/ Restart(s)
    PROVE  ClaimsInStep'
<1> USE DEF disk, driver, call
<1>0. /\ \A t \in Sessions : elapsed[t] = 0 /\ Entitled(t)
      /\ lock # Torn
      /\ lock \in LockInfo => lock.pid <= pid[lock.session]
  BY DEF ClaimsInStep, Entitled
<1>1. CASE Work(s)
  <2>1. UNCHANGED <<lock, age, halt, alive, pid, pc, seen, expired, elapsed>>
    BY <1>1 DEF Work, StartArtifact, FinishArtifact, StandDown, Believes
  <2> QED
    BY <2>1, SameClaim DEF ClaimsInStep, Entitled, Owns, Ours
<1>2. CASE Crash(s)
  <2>1. /\ UNCHANGED <<lock, age, halt, pid>>
        /\ Goto(s, "idle")
        /\ seen' = [seen EXCEPT ![s] = NoLock]
        /\ expired' = [expired EXCEPT ![s] = FALSE]
        /\ elapsed' = [elapsed EXCEPT ![s] = 0]
    BY <1>2 DEF Crash, Return
  <2>2. Lapsed => Lapsed'
    BY <1>2, LapsedStays
  <2>3. ASSUME NEW t \in Sessions PROVE Entitled(t)'
    <3>1. CASE t = s
      BY <2>1, <3>1 DEF Entitled, Goto, TypeOK
    <3>2. CASE t # s
      <4>1. /\ pc'[t] = pc[t] /\ seen'[t] = seen[t] /\ expired'[t] = expired[t]
            /\ elapsed'[t] = 0 /\ Ours(t)' = Ours(t) /\ (Owns(t)' <=> Owns(t))
        BY <1>0, <2>1, <3>2 DEF Goto, TypeOK, Ours, Owns
      <4> QED
        BY <1>0, <2>1, <2>2, <4>1 DEF Entitled
    <3> QED
      BY <3>1, <3>2
  <2> QED
    BY <1>0, <2>1, <2>3 DEF ClaimsInStep
<1>3. CASE Restart(s)
  <2>1. /\ UNCHANGED <<lock, age, halt, pc, seen, expired, elapsed>>
        /\ ~alive[s] /\ pid' = [pid EXCEPT ![s] = pid[s] + 1]
    BY <1>3 DEF Restart
  <2>2. (Lapsed => Lapsed') /\ pc[s] = "idle"
    BY <1>3, <2>1, LapsedStays DEF TypeOK
  <2>3. ASSUME NEW t \in Sessions PROVE Entitled(t)'
    <3>1. CASE t = s
      BY <1>0, <2>1, <2>2, <3>1 DEF Entitled
    <3>2. CASE t # s
      <4>1. Ours(t)' = Ours(t) /\ (Owns(t)' <=> Owns(t))
        BY <2>1, <3>2 DEF TypeOK, Ours, Owns
      <4> QED
        BY <1>0, <2>1, <2>2, <4>1 DEF Entitled
    <3> QED
      BY <3>1, <3>2
  <2>4. lock \in LockInfo => lock.pid <= pid'[lock.session]
    BY <1>0, <2>1 DEF LockInfo, TypeOK
  <2> QED
    BY <1>0, <2>1, <2>3, <2>4 DEF ClaimsInStep
<1> QED
  BY <1>1, <1>2, <1>3

LEMMA NextClaims ==
    ASSUME Whole, TypeOK, CallsAgreeWithDisk, ClaimsInStep, [Next]_vars
    PROVE  ClaimsInStep'
<1>1. CASE Tick
  <2>1. /\ UNCHANGED <<lock, pid, pc>> /\ Idle
        /\ elapsed' = [s \in Sessions |->
                          IF pc[s] = "idle" THEN elapsed[s] ELSE Later(elapsed[s])]
    BY <1>1 DEF Tick, Whole, driver
  <2>2. \A s \in Sessions : elapsed'[s] = elapsed[s] /\ pc'[s] = "idle"
    BY <2>1 DEF Idle
  <2> QED
    BY <2>1, <2>2 DEF ClaimsInStep, Entitled
<1>2. CASE ClearHalt
  <2>1. /\ UNCHANGED <<lock, pid, pc, elapsed>> /\ Idle
    BY <1>2 DEF ClearHalt, driver, call
  <2> QED
    BY <2>1 DEF ClaimsInStep, Entitled, Idle
<1>3. CASE UNCHANGED vars
  BY <1>3, SameClaim DEF vars, ClaimsInStep, Entitled, Owns, Ours
<1> QED
  BY <1>1, <1>2, <1>3, AcquireClaims, WriteClaims, HolderClaims, WorkClaims DEF Next

(* A call writes the lock over its own record, over none, or over one whose   *)
(* claim has lapsed and for which the sentinel stands (lock.py:273-305).      *)
THEOREM Claims ==
    ASSUME Whole
    PROVE  Spec => []ClaimsInStep
<1>1. Init => ClaimsInStep
  BY NoRecord DEF Init, ClaimsInStep, Entitled
<1>2. Whole /\ TypeOK /\ CallsAgreeWithDisk /\ ClaimsInStep /\ [Next]_vars
      => ClaimsInStep'
  BY NextClaims
<1>3. Whole /\ Serial
  BY DEF Whole
<1> QED
  BY <1>1, <1>2, <1>3, TypeCorrect, CallsAgree, PTL DEF Spec

(* The owner as LeaseLock sees it.                                            *)
Owner == IF lock \in LockInfo THEN lock.session ELSE NoOne

LeaseStep == [Lease!Next]_Lease!vars

LEMMA OwnerIs ==
    ASSUME TypeOK
    PROVE  /\ \A s \in Sessions : Owns(s) <=> Owner = s
           /\ lock \in LockInfo <=> Owner \in Sessions
           /\ lock \notin LockInfo <=> Owner = NoOne
           /\ lock \notin LockInfo => ~Lapsed
           /\ Lapsed \in BOOLEAN
BY ConstantsAssumption DEF Owns, Owner, LockInfo, Lapsed

(* A step that leaves the lock and its owner's process alone.                 *)
LEMMA SameLease ==
    ASSUME UNCHANGED <<lock, age, alive, pid, halt>>
    PROVE  LeaseStep
<1>1. (Lapsed' <=> Lapsed) /\ Owner' = Owner /\ halt' = halt
  BY SameClaim DEF Owner
<1>2. Lapsed' = Lapsed
  BY <1>1 DEF Lapsed
<1> QED
  BY <1>1, <1>2 DEF LeaseStep, Lease!vars, Owner

(* A step of the clock, or of a process that dies or starts: the claim may    *)
(* lapse.                                                                    *)
LEMMA LeaseLapses ==
    ASSUME TypeOK, UNCHANGED <<lock, halt>>, Lapsed => Lapsed'
    PROVE  LeaseStep
<1>1. Owner' = Owner /\ Lapsed \in BOOLEAN /\ Lapsed' \in BOOLEAN
  BY DEF Owner, Lapsed
<1>2. CASE Lapsed' = Lapsed
  BY <1>1, <1>2 DEF LeaseStep, Lease!vars, Owner
<1>3. CASE Lapsed' /\ ~Lapsed
  <2>1. Owner # NoOne
    BY <1>3, ConstantsAssumption DEF Lapsed, Owner, LockInfo
  <2>2. Lease!Lapse
    BY <1>1, <1>3, <2>1 DEF Lease!Lapse, Owner
  <2> QED
    BY <2>2 DEF LeaseStep, Lease!Next
<1> QED
  BY <1>1, <1>2, <1>3

LEMMA LeaseWritten ==
    ASSUME Whole, TypeOK, CallsAgreeWithDisk, ClaimsInStep,
           NEW s \in Sessions, WriteLock(s)
    PROVE  LeaseStep
<1>1. /\ pc[s] = "write" /\ lock' = seen[s] /\ age' = elapsed[s]
      /\ UNCHANGED <<alive, pid, halt>>
  BY DEF WriteLock, Believes, Whole
<1>2. /\ seen[s] \in LockInfo /\ seen[s].session = s /\ alive[s]
      /\ elapsed[s] = 0 /\ Entitled(s)
  BY <1>1 DEF TypeOK, CallsAgreeWithDisk, Agrees, ClaimsInStep, Entitled
<1>3. Owner' = s
  BY <1>1, <1>2 DEF Owner
<1>4. seen[s].pid = pid[s] => Lapsed' = FALSE
  BY <1>1, <1>2, ConstantsAssumption DEF Lapsed, ProcessLives
<1>5. CASE Owns(s) /\ seen[s] = lock
  <2>1. Owner = s /\ lock \in LockInfo
    BY <1>5, OwnerIs
  <2>2. CASE seen[s].pid = pid[s]
    <3>1. Lease!Renew(s)
      BY <1>1, <1>3, <1>4, <2>1, <2>2 DEF Lease!Renew, Owner
    <3> QED
      BY <3>1 DEF LeaseStep, Lease!Next
  <2>3. CASE seen[s].pid # pid[s]
    <3>1. Lapsed = TRUE /\ Lapsed' = TRUE
      BY <1>1, <1>2, <1>5, <2>1, <2>3 DEF Lapsed, ProcessLives
    <3> QED
      BY <1>1, <1>3, <2>1, <3>1 DEF LeaseStep, Lease!vars, Owner
  <2> QED
    BY <2>2, <2>3
<1>6. CASE lock = NoLock /\ seen[s] = Ours(s)
  <2>1. Owner = NoOne /\ Lapsed = FALSE /\ Lapsed' = FALSE
    BY <1>4, <1>6, NoRecord, OursType, OwnerIs DEF Owner
  <2>2. Lease!Grant(s)
    BY <1>1, <1>3, <2>1 DEF Lease!Grant, Owner
  <2> QED
    BY <2>2 DEF LeaseStep, Lease!Next
<1>7. CASE Lapsed /\ ~Owns(s) /\ seen[s] = Ours(s) /\ halt
  <2>1. /\ Owner \notin {NoOne, s} /\ Lapsed = TRUE /\ Lapsed' = FALSE
    BY <1>4, <1>7, OursType, OwnerIs
  <2>2. Lease!Displace(s)
    BY <1>1, <1>3, <1>7, <2>1 DEF Lease!Displace, Owner
  <2> QED
    BY <2>2 DEF LeaseStep, Lease!Next
<1> QED
  BY <1>1, <1>2, <1>5, <1>6, <1>7 DEF Entitled

LEMMA MappedNext ==
    ASSUME Whole, TypeOK, CallsAgreeWithDisk, ClaimsInStep, [Next]_vars
    PROVE  LeaseStep
<1> USE DEF disk, driver, call
<1>1. ASSUME NEW s \in Sessions, WriteHalt(s)
      PROVE  LeaseStep
  <2>1. pc[s] = "halt" /\ halt' = TRUE /\ UNCHANGED <<lock, age, alive, pid>>
    BY <1>1 DEF WriteHalt
  <2>2. Lapsed /\ Lapsed' = Lapsed
    BY <2>1, SameClaim DEF ClaimsInStep, Entitled, Lapsed
  <2>3. Lease!Post
    BY <2>1, <2>2 DEF Lease!Post
  <2> QED
    BY <2>3 DEF LeaseStep, Lease!Next
<1>2. ASSUME NEW s \in Sessions, Acquire(s)
      PROVE  LeaseStep
  BY <1>1, <1>2, SameLease
  DEF Acquire, AcquireRead, AcquireFree, AcquireOwn, AcquireRefused, AcquireTakeOver, Believes
<1>3. ASSUME NEW s \in Sessions, RenewRead(s) \/ ReleaseRead(s) \/ Work(s)
      PROVE  LeaseStep
  <2>1. UNCHANGED <<lock, age, alive, pid, halt>>
    BY <1>3 DEF RenewRead, ReleaseRead, Work, StartArtifact, FinishArtifact, StandDown, Believes
  <2> QED
    BY <2>1, SameLease
<1>4. ASSUME NEW s \in Sessions, Write(s)
      PROVE  LeaseStep
  BY <1>4, LeaseWritten DEF Write, TruncateLock, Whole
<1>5. ASSUME NEW s \in Sessions, Unlink(s)
      PROVE  LeaseStep
  <2>1. pc[s] = "unlink" /\ lock' = NoLock /\ UNCHANGED halt
    BY <1>5 DEF Unlink
  <2>2. Owner = s /\ Owner' = NoOne /\ Lapsed' = FALSE
    BY <2>1, NoRecord, OwnerIs DEF CallsAgreeWithDisk, Agrees, Owner, Lapsed
  <2>3. Lease!Release(s)
    BY <2>1, <2>2 DEF Lease!Release, Owner
  <2> QED
    BY <2>3 DEF LeaseStep, Lease!Next
<1>6. ASSUME Tick \/ \E s \in Sessions : Crash(s) \/ Restart(s)
      PROVE  LeaseStep
  <2>1. UNCHANGED <<lock, halt>>
    BY <1>6 DEF Tick, Crash, Restart
  <2> QED
    BY <1>6, <2>1, LapsedStays, LeaseLapses
<1>7. CASE ClearHalt
  <2>1. halt' = FALSE /\ UNCHANGED <<lock, age, alive, pid>>
    BY <1>7 DEF ClearHalt
  <2>2. Lapsed' = Lapsed
    BY <2>1 DEF Lapsed, ProcessLives
  <2>3. Lease!Withdraw
    BY <2>1, <2>2 DEF Lease!Withdraw
  <2> QED
    BY <2>3 DEF LeaseStep, Lease!Next
<1>8. CASE UNCHANGED vars
  BY <1>8, SameLease DEF vars
<1> QED
  BY <1>2, <1>3, <1>4, <1>5, <1>6, <1>7, <1>8 DEF Next, Release

LEMMA MappedInit ==
    Init => Lease!Init
BY NoRecord DEF Init, Lease!Init, Lapsed

(* With calls that do not interleave, the lock passes from one owner to       *)
(* another only by a release, or once the owner's process is dead or its      *)
(* lease has run out on some clock and the sentinel stands, for every         *)
(* heartbeat, skew and schedule of deaths and restarts (lock.py:180-201,      *)
(* 262-305).                                                                 *)
THEOREM Implements ==
    ASSUME Whole
    PROVE  Spec => ImplementsLease
<1>1. Whole /\ TypeOK /\ CallsAgreeWithDisk /\ ClaimsInStep /\ [Next]_vars
      => [Lease!Next]_Lease!vars
  BY MappedNext DEF LeaseStep
<1>2. Whole /\ Serial
  BY DEF Whole
<1> QED
  BY <1>1, <1>2, MappedInit, TypeCorrect, CallsAgree, Claims, PTL
  DEF Spec, ImplementsLease, Lease!Spec
=============================================================================
