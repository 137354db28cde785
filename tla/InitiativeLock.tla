---------------------------- MODULE InitiativeLock ----------------------------
(****************************************************************************)
(* The whole-initiative lock of src/lock.py: .aieos/lock, the halt sentinel   *)
(* .aieos/halt, and the sessions on several hosts that acquire, renew and     *)
(* release it.  A call reads the lock file, decides, and writes it back in    *)
(* later steps: other calls, the clock and the caller's death come between    *)
(* (unless Serial).                                                          *)
(*                                                                          *)
(* Time is relative: age is the time since the record's renewed_at was true,  *)
(* elapsed[s] the time since the running call of s read the clock.  Only      *)
(* comparisons with the lease matter, so both saturate at Horizon.           *)
(*                                                                          *)
(* The drivers that call lock.py live outside the repository.  What they do   *)
(* with the lock is modelled from what lock.py and ADR-0004 ask of them: they *)
(* look for the sentinel before each artifact, and stop when a renewal or an  *)
(* acquisition is refused.                                                   *)
(****************************************************************************)
EXTENDS Naturals, Integers, FiniteSets

CONSTANTS
    Sessions,       \* session ids
    Hosts,
    HostOf,         \* HostOf[s]: the host session s runs on
    Skew,           \* Skew[h]: how far the clock of h is ahead of true time
    MaxSkew,
    NoLock,         \* there is no lock file
    Torn,           \* a lock file cut off by a truncating write
    NoOne,
    LeaseTTL,       \* lease_ttl_seconds, in ticks
    Heartbeat,      \* a driver that holds the lock renews it within this age
    Serial,         \* lock calls take no time and do not interleave
    TornWrites,     \* write_text truncates the file before it fills it
    PidReuse,       \* the PID of a dead process may be taken by another
    Mortal,         \* the sessions whose process may die
    MaxProcesses    \* bound: processes a session id is used by, one by one

ASSUME ConstantsAssumption ==
    /\ HostOf \in [Sessions -> Hosts]
    /\ MaxSkew \in Nat /\ Skew \in [Hosts -> 0..MaxSkew]
    /\ LeaseTTL \in Nat /\ MaxSkew <= LeaseTTL
    /\ Heartbeat \in Nat
    /\ NoOne \notin Sessions
    /\ NoLock # Torn
    /\ Serial \in BOOLEAN /\ TornWrites \in BOOLEAN /\ PidReuse \in BOOLEAN
    /\ Mortal \subseteq Sessions
    /\ MaxProcesses \in Nat \ {0}

(* The fields of the record that decide something; its process is named by    *)
(* the session it belongs to and which of that session's processes it is.     *)
LockInfo == [session: Sessions, host: Hosts, pid: Nat]

ASSUME LockAssumption == NoLock \notin LockInfo /\ Torn \notin LockInfo

Horizon == LeaseTTL + MaxSkew + 1

CallSteps == {"judge", "halt", "write", "fill", "unlink"}

VARIABLES
    lock,       \* .aieos/lock
    age,        \* time since the record was renewed
    halt,       \* .aieos/halt exists
    alive,      \* the process of a session lives
    pid,        \* which of its processes a session is on
    holds,      \* the driver takes itself for the owner
    busy,       \* the driver is working on an artifact
    pc,         \* step of the running call
    seen,       \* the record read, later the one to be written
    expired,    \* its lease had run out when it was read
    elapsed     \* time since the call read the clock

disk   == <<lock, age, halt>>
driver == <<alive, pid, holds, busy>>
call   == <<pc, seen, expired, elapsed>>
vars   == <<lock, age, halt, alive, pid, holds, busy, pc, seen, expired, elapsed>>

TypeOK ==
    /\ lock \in LockInfo \cup {NoLock, Torn}
    /\ age \in 0..Horizon
    /\ halt \in BOOLEAN
    /\ alive \in [Sessions -> BOOLEAN]
    /\ pid \in [Sessions -> Nat]
    /\ holds \in [Sessions -> BOOLEAN]
    /\ busy \in [Sessions -> BOOLEAN]
    /\ pc \in [Sessions -> {"idle"} \cup CallSteps]
    /\ seen \in [Sessions -> LockInfo \cup {NoLock}]
    /\ expired \in [Sessions -> BOOLEAN]
    /\ elapsed \in [Sessions -> 0..Horizon]
    /\ \A s \in Sessions :
          /\ pc[s] \in {"halt", "write", "fill"} => seen[s] \in LockInfo
          /\ busy[s] => holds[s]
          /\ holds[s] \/ pc[s] # "idle" => alive[s]

Init ==
    /\ lock = NoLock
    /\ age = 0
    /\ halt = FALSE
    /\ alive = [s \in Sessions |-> TRUE]
    /\ pid = [s \in Sessions |-> 1]
    /\ holds = [s \in Sessions |-> FALSE]
    /\ busy = [s \in Sessions |-> FALSE]
    /\ pc = [s \in Sessions |-> "idle"]
    /\ seen = [s \in Sessions |-> NoLock]
    /\ expired = [s \in Sessions |-> FALSE]
    /\ elapsed = [s \in Sessions |-> 0]

----------------------------------------------------------------------------
(* Helpers.                                                                  *)

Idle == \A s \in Sessions : pc[s] = "idle"

(* A call starts: the process lives, and the lock file parses if it exists    *)
(* (json.loads raises on a torn one, and the call changes nothing).           *)
MayCall(s) ==
    /\ alive[s] /\ pc[s] = "idle"
    /\ Serial => Idle
    /\ lock # Torn

Owns(s) == lock \in LockInfo /\ lock.session = s

Ours(s) == [session |-> s, host |-> HostOf[s], pid |-> pid[s]]

LeaseExpired_AtTTL(s, info) == age + Skew[HostOf[s]] - Skew[info.host] >= LeaseTTL

LeaseExpired_Never(s, info) == FALSE

(* now - renewed_at > lease_ttl, with the clock of the host that asks.        *)
LeaseExpired(s, info) == age + Skew[HostOf[s]] - Skew[info.host] > LeaseTTL

ProcessLives(info) == alive[info.session] /\ pid[info.session] = info.pid

(* What _pid_alive may answer about the recorded process.                     *)
PidAlive(info) == {ProcessLives(info)} \cup (IF PidReuse THEN {TRUE} ELSE {})

Goto(s, step) == pc' = [pc EXCEPT ![s] = step]

Return(s) ==
    /\ Goto(s, "idle")
    /\ seen' = [seen EXCEPT ![s] = NoLock]
    /\ expired' = [expired EXCEPT ![s] = FALSE]
    /\ elapsed' = [elapsed EXCEPT ![s] = 0]

Believes(s, b) ==
    /\ holds' = [holds EXCEPT ![s] = b]
    /\ busy' = [busy EXCEPT ![s] = busy[s] /\ b]
    /\ UNCHANGED <<alive, pid>>

----------------------------------------------------------------------------
(* acquire_lock.                                                             *)

AcquireRead(s) ==
    /\ MayCall(s)
    /\ Goto(s, "judge")
    /\ seen' = [seen EXCEPT ![s] = lock]
    /\ expired' = [expired EXCEPT ![s] = lock \in LockInfo /\ LeaseExpired(s, lock)]
    /\ UNCHANGED <<disk, driver, elapsed>>

AcquireFree(s) ==
    /\ pc[s] = "judge"
    /\ seen[s] = NoLock
    /\ Goto(s, "write")
    /\ seen' = [seen EXCEPT ![s] = Ours(s)]
    /\ UNCHANGED <<disk, driver, expired, elapsed>>

(* Our own lock: the record read is written back, with a fresh renewed_at.    *)
AcquireOwn(s) ==
    /\ pc[s] = "judge"
    /\ seen[s] # NoLock /\ seen[s].session = s
    /\ Goto(s, "write")
    /\ UNCHANGED <<disk, driver, seen, expired, elapsed>>

(* is_takeable, the fast path for a dead process of our own host included.    *)
Takeable(s, probe) ==
    expired[s] \/ (seen[s].host = HostOf[s] /\ ~probe)

AcquireRefused(s) ==
    /\ pc[s] = "judge"
    /\ seen[s] # NoLock /\ seen[s].session # s
    /\ \E probe \in PidAlive(seen[s]) : ~Takeable(s, probe)
    /\ Return(s)
    /\ Believes(s, FALSE)
    /\ UNCHANGED disk

AcquireTakeOver_NoHalt(s) ==
    /\ pc[s] = "judge"
    /\ seen[s] # NoLock /\ seen[s].session # s
    /\ \E probe \in PidAlive(seen[s]) : Takeable(s, probe)
    /\ Goto(s, "write")
    /\ seen' = [seen EXCEPT ![s] = Ours(s)]
    /\ UNCHANGED <<disk, driver, expired, elapsed>>

AcquireTakeOver(s) ==
    /\ pc[s] = "judge"
    /\ seen[s] # NoLock /\ seen[s].session # s
    /\ \E probe \in PidAlive(seen[s]) : Takeable(s, probe)
    /\ Goto(s, "halt")
    /\ seen' = [seen EXCEPT ![s] = Ours(s)]
    /\ UNCHANGED <<disk, driver, expired, elapsed>>

(* _write_halt_sentinel.                                                     *)
WriteHalt(s) ==
    /\ pc[s] = "halt"
    /\ halt' = TRUE
    /\ Goto(s, "write")
    /\ UNCHANGED <<lock, age, driver, seen, expired, elapsed>>

----------------------------------------------------------------------------
(* _write_lock, the end of acquire_lock and renew_lock.                       *)

TruncateLock(s) ==
    /\ TornWrites
    /\ pc[s] = "write"
    /\ lock' = Torn
    /\ Goto(s, "fill")
    /\ UNCHANGED <<age, halt, driver, seen, expired, elapsed>>

WriteLock(s) ==
    /\ pc[s] = IF TornWrites THEN "fill" ELSE "write"
    /\ lock' = seen[s]
    /\ age' = elapsed[s]
    /\ Return(s)
    /\ Believes(s, TRUE)
    /\ UNCHANGED halt

----------------------------------------------------------------------------
(* renew_lock and release_lock, by a driver that takes itself for the owner.  *)

RenewRead_GoneUnchecked(s) ==
    /\ MayCall(s)
    /\ holds[s]
    /\ Goto(s, "write")
    /\ seen' = [seen EXCEPT ![s] = lock]
    /\ UNCHANGED <<disk, driver, expired, elapsed>>

RenewRead(s) ==
    /\ MayCall(s)
    /\ holds[s]
    /\ \/ /\ Owns(s)
          /\ Goto(s, "write")
          /\ seen' = [seen EXCEPT ![s] = lock]
          /\ UNCHANGED <<disk, driver, expired, elapsed>>
       \/ /\ ~Owns(s)
          /\ Believes(s, FALSE)
          /\ UNCHANGED <<disk, call>>

ReleaseRead(s) ==
    /\ MayCall(s)
    /\ holds[s] /\ ~busy[s]
    /\ \/ /\ Owns(s)
          /\ Goto(s, "unlink")
          /\ UNCHANGED <<disk, driver, seen, expired, elapsed>>
       \/ /\ ~Owns(s)
          /\ Believes(s, FALSE)
          /\ UNCHANGED <<disk, call>>

(* Path.unlink takes whatever file is there, and raises when there is none.   *)
Unlink(s) ==
    /\ pc[s] = "unlink"
    /\ lock' = NoLock
    /\ age' = 0
    /\ Return(s)
    /\ Believes(s, FALSE)
    /\ UNCHANGED halt

----------------------------------------------------------------------------
(* The driver around the lock, the clock, and the death of processes.         *)

StartArtifact(s) ==
    /\ pc[s] = "idle"
    /\ holds[s] /\ ~busy[s]
    /\ ~halt
    /\ busy' = [busy EXCEPT ![s] = TRUE]
    /\ UNCHANGED <<disk, alive, pid, holds, call>>

FinishArtifact(s) ==
    /\ pc[s] = "idle"
    /\ busy[s]
    /\ busy' = [busy EXCEPT ![s] = FALSE]
    /\ UNCHANGED <<disk, alive, pid, holds, call>>

StandDown(s) ==
    /\ pc[s] = "idle"
    /\ holds[s] /\ ~busy[s]
    /\ halt
    /\ Believes(s, FALSE)
    /\ UNCHANGED <<disk, call>>

(* A human resumes the initiative, once every driver that lost the lock has   *)
(* stood down and no lock call is running.                                   *)
ClearHalt ==
    /\ halt
    /\ Idle
    /\ \A s \in Sessions : holds[s] => Owns(s)
    /\ halt' = FALSE
    /\ UNCHANGED <<lock, age, driver, call>>

Crash(s) ==
    /\ s \in Mortal
    /\ alive[s]
    /\ alive' = [alive EXCEPT ![s] = FALSE]
    /\ holds' = [holds EXCEPT ![s] = FALSE]
    /\ busy' = [busy EXCEPT ![s] = FALSE]
    /\ Return(s)
    /\ UNCHANGED <<disk, pid>>

(* A new process resumes the session.                                        *)
Restart(s) ==
    /\ ~alive[s]
    /\ pid[s] < MaxProcesses
    /\ alive' = [alive EXCEPT ![s] = TRUE]
    /\ pid' = [pid EXCEPT ![s] = pid[s] + 1]
    /\ UNCHANGED <<disk, holds, busy, call>>

Later(n) == IF n < Horizon THEN n + 1 ELSE n

Tick ==
    /\ Serial => Idle
    /\ \A s \in Sessions : holds[s] /\ Owns(s) => age < Heartbeat
    /\ age' = IF lock \in LockInfo THEN Later(age) ELSE age
    /\ elapsed' = [s \in Sessions |->
                      IF pc[s] = "idle" THEN elapsed[s] ELSE Later(elapsed[s])]
    /\ UNCHANGED <<lock, halt, driver, pc, seen, expired>>

----------------------------------------------------------------------------

Acquire(s) ==
    \/ AcquireRead(s) \/ AcquireFree(s) \/ AcquireOwn(s) \/ AcquireRefused(s)
    \/ AcquireTakeOver(s) \/ WriteHalt(s)

Write(s) == TruncateLock(s) \/ WriteLock(s)

Release(s) == ReleaseRead(s) \/ Unlink(s)

Work(s) == StartArtifact(s) \/ FinishArtifact(s) \/ StandDown(s)

Next ==
    \/ \E s \in Sessions :
          \/ Acquire(s) \/ RenewRead(s) \/ Write(s) \/ Release(s)
          \/ Work(s) \/ Crash(s) \/ Restart(s)
    \/ ClearHalt
    \/ Tick

Spec == Init /\ [][Next]_vars

(* A running call goes on, the clock runs (SF: calls that take no time stop   *)
(* it only for as long as they run), and a driver without the lock tries      *)
(* again.                                                                    *)
Fairness ==
    /\ SF_vars(Tick)
    /\ \A s \in Sessions :
          /\ WF_vars(Acquire(s) /\ ~holds[s])
          /\ WF_vars(Acquire(s) /\ pc[s] # "idle")
          /\ WF_vars(Write(s))
          /\ WF_vars(Unlink(s))

FairSpec == Spec /\ Fairness

----------------------------------------------------------------------------
(* Properties.                                                               *)

(* Two drivers never proceed against one initiative (lock.py:214-216): at     *)
(* most one is inside an artifact, also after the lock of a driver that is    *)
(* slow, stopped or on a host with a wrong clock was taken over.              *)
OneDriverProceeds ==
    \A s, t \in Sessions : busy[s] /\ busy[t] => s = t

(* A driver that takes itself for the owner while the lock on disk is not its *)
(* own has the halt sentinel in front of it (lock.py:301-305, the sentinel is *)
(* written before the lock), however the takeover was cut short.              *)
DisplacedIsHalted ==
    \A s \in Sessions : holds[s] /\ lock # Torn /\ ~Owns(s) => halt

(* What a call of s may rely on at each of its steps.                         *)
Agrees(s) ==
    /\ pc[s] # "idle" => (lock = Torn <=> pc[s] = "fill")
    /\ pc[s] = "judge" => seen[s] = lock
    /\ pc[s] \in {"halt", "write", "fill"} => seen[s].session = s
    /\ pc[s] \in {"write", "fill"} =>
          \A t \in Sessions \ {s} : holds[t] => halt
    /\ pc[s] = "unlink" => Owns(s)
    /\ holds[s] /\ ~Owns(s) => halt \/ pc[s] = "fill"

(* When lock calls do not interleave, a call acts on what is on disk, and    *)
(* whoever else takes itself for the owner is stopped before the call writes  *)
(* the lock (lock.py:273-305, 326-330, 340-343).                              *)
CallsAgreeWithDisk ==
    /\ \A s, t \in Sessions : pc[s] # "idle" /\ pc[t] # "idle" => s = t
    /\ \A s \in Sessions : Agrees(s)

(* A driver that renews within its heartbeat keeps the lock, as long as       *)
(* heartbeat and clock skew together stay within the lease                    *)
(* (lock.py:180-201, the comparison is strict).                               *)
HolderOwns ==
    \A s \in Sessions : holds[s] /\ lock # Torn => Owns(s)

(* Why it keeps it: the record it owns names its own process and host, its    *)
(* age stays within the heartbeat, and a call that is about to write found no  *)
(* other holder (lock.py:194-201).                                            *)
RecordRenewed ==
    lock \in LockInfo =>
        /\ lock.host = HostOf[lock.session] /\ lock.pid = pid[lock.session]
        /\ holds[lock.session] => age <= Heartbeat

CallRenewed(s) ==
    /\ pid[s] = 1 /\ elapsed[s] = 0
    /\ holds[s] => Owns(s) \/ pc[s] = "fill"
    /\ pc[s] = "judge" => (expired[s] <=> lock \in LockInfo /\ LeaseExpired(s, lock))
    /\ pc[s] \in {"halt", "write", "fill"} =>
          /\ seen[s].host = HostOf[s] /\ seen[s].pid = pid[s]
          /\ \A t \in Sessions \ {s} : ~holds[t]

RenewedInTime == RecordRenewed /\ \A s \in Sessions : CallRenewed(s)

LiveOwner(s) == alive[s] /\ Owns(s)

(* A crashed run frees itself within the TTL instead of wedging forever       *)
(* (lock.py:20-23): while somebody lives to try, the lock comes to a live     *)
(* session.                                                                  *)
NotWedged ==
    (\A s \in Sessions : ~LiveOwner(s))
        ~> (\E s \in Sessions : LiveOwner(s)) \/ (\A s \in Sessions : ~alive[s])

(* The owner's claim may be set aside: its process is dead, or some clock     *)
(* within the skew sees the lease run out.                                    *)
Lapsed ==
    lock \in LockInfo /\ (~ProcessLives(lock) \/ age + MaxSkew > LeaseTTL)

(* What a call that is about to write the lock found: its own record, no lock, *)
(* or a lapsed claim for which the sentinel stands before the lock goes.      *)
Entitled(s) ==
    /\ elapsed[s] = 0
    /\ pc[s] = "judge" /\ expired[s] => lock \in LockInfo /\ Lapsed
    /\ pc[s] \in {"halt", "write"} =>
          \/ Owns(s) /\ seen[s] = lock /\ pc[s] = "write"
          \/ lock = NoLock /\ seen[s] = Ours(s) /\ pc[s] = "write"
          \/ Lapsed /\ ~Owns(s) /\ seen[s] = Ours(s) /\ (pc[s] = "write" => halt)

ClaimsInStep ==
    /\ lock # Torn
    /\ lock \in LockInfo => lock.pid <= pid[lock.session]
    /\ \A s \in Sessions : Entitled(s)

(* The calls together keep the promise of LeaseLock, step by step.            *)
Lease == INSTANCE LeaseLock WITH
    owner  <- IF lock \in LockInfo THEN lock.session ELSE NoOne,
    lapsed <- Lapsed,
    posted <- halt

ImplementsLease == Lease!Spec
=============================================================================
