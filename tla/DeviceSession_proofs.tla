------------------------- MODULE DeviceSession_proofs -------------------------
(***************************************************************************)
(* Proofs about DeviceSession, for any set of processes of any kinds and   *)
(* any calls failing.                                                      *)
(***************************************************************************)
EXTENDS DeviceSession, TLAPS

(***************************************************************************)
(* What each process holds follows from the call it is about to make.  The *)
(* one exception is SETINTERFACE, which puppy_open also issues after a     *)
(* failed claim, when it has closed its descriptors.                       *)
(***************************************************************************)
Entering == {"scanlock", "scan", "convert", "lock", "opendev", "devlock",
             "descriptor", "reset", "claim", "use"}

HeldBy(p) ==
  /\ pc[p] = "devlock" => p \in fds
  /\ pc[p] \in {"descriptor", "reset", "claim", "use", "release"} => p \in devLocked
  /\ pc[p] = "use" => p \in claimed
  /\ pc[p] \in Entering => error[p] = "none"
  /\ pc[p] = "setif" => p \notin fds \/ (p \in claimed /\ error[p] = "none")

OneLock == \A p, q \in devLocked : p = q

Inv ==
  /\ TypeOK
  /\ OneLock
  /\ \A p \in Procs : HeldBy(p)

LEMMA InvInit == Init => Inv
  BY DeviceSessionAssumption
     DEF Init, Inv, TypeOK, OneLock, HeldBy, Entering, Places, ErrorCodes

(***************************************************************************)
(* A step of one process leaves what the others hold alone.                *)
(***************************************************************************)
LEMMA InvStep == Inv /\ [Next]_vars => Inv'
<1> SUFFICES ASSUME Inv, [Next]_vars PROVE Inv'
  OBVIOUS
<1> USE DeviceSessionAssumption
    DEF Inv, TypeOK, OneLock, HeldBy, Entering, Places, ErrorCodes,
        Step, Fail, SetLock, fileVars, devVars
<1>1. CASE UNCHANGED vars
  BY <1>1 DEF vars
<1>2. ASSUME NEW p \in Procs, OpenLockFile(p) PROVE Inv'
  BY <1>2 DEF OpenLockFile
<1>3. ASSUME NEW p \in Procs, OpenLockFileFails(p) PROVE Inv'
  BY <1>3 DEF OpenLockFileFails
<1>4. ASSUME NEW p \in Procs, Enter(p) PROVE Inv'
  <2>1. CASE LockExclusive(p)
    BY <2>1 DEF LockExclusive
  <2>2. CASE LockExclusiveRefused(p) \/ Scan(p)
    BY <2>2 DEF LockExclusiveRefused, Scan
  <2>3. CASE DropExclusive(p)
    BY <2>3 DEF DropExclusive
  <2>4. CASE LockShared(p)
    BY <2>4 DEF LockShared
  <2>5. CASE LockSharedRefused(p)
    BY <2>5 DEF LockSharedRefused
  <2>6. CASE OpenDevice(p)
    BY <2>6 DEF OpenDevice
  <2>7. CASE LockDevice(p)
    BY <2>7 DEF LockDevice
  <2>8. CASE LockDeviceRefused(p) \/ ReadDescriptor(p) \/ Reset(p)
    BY <2>8 DEF LockDeviceRefused, ReadDescriptor, Reset
  <2>9. CASE Claim(p)
    BY <2>9 DEF Claim
  <2>10. CASE ClaimRefused(p)
    BY <2>10 DEF ClaimRefused
  <2>11. CASE SetInterface(p) \/ SetInterfaceFails(p)
    BY <2>11 DEF SetInterface, SetInterfaceFails
  <2>12. CASE CallFails(p)
    BY <2>12 DEF CallFails
  <2> QED
    BY <1>4, <2>1, <2>2, <2>3, <2>4, <2>5, <2>6, <2>7, <2>8, <2>9, <2>10, <2>11,
       <2>12 DEF Enter
<1>5. ASSUME NEW p \in Procs, ReleaseInterface(p) PROVE Inv'
  BY <1>5 DEF ReleaseInterface
<1>6. ASSUME NEW p \in Procs, Leave(p) PROVE Inv'
  <2>1. CASE CloseAfterUse(p)
    BY <2>1 DEF CloseAfterUse, DropDevice
  <2>2. CASE Unlink(p)
    BY <2>2 DEF Unlink
  <2>3. CASE CloseLockFile(p)
    BY <2>3 DEF CloseLockFile
  <2>4. CASE CloseDevice(p)
    BY <2>4 DEF CloseDevice, DropDevice
  <2>5. CASE End(p)
    BY <2>5 DEF End
  <2> QED
    BY <1>6, <2>1, <2>2, <2>3, <2>4, <2>5 DEF Leave
<1>7. ASSUME NEW p \in Procs, Crash(p) PROVE Inv'
  BY <1>7 DEF Crash
<1> QED
  BY <1>1, <1>2, <1>3, <1>4, <1>5, <1>6, <1>7 DEF Next

LEMMA InvHolds == Spec => []Inv
<1> QED
  BY InvInit, InvStep, PTL DEF Spec

(* Every variable keeps its type; locks and claims sit on open descriptors. *)
THEOREM TypeCorrect == Spec => []TypeOK
<1>1. Inv => TypeOK
  BY DEF Inv
<1> QED
  BY <1>1, InvHolds, PTL

(* Nobody resets a device on which somebody else has the interface. *)
THEOREM ResetsAreSafe == Spec => []ResetSafe
<1>1. Inv => ResetSafe
  BY DEF Inv, TypeOK, OneLock, HeldBy, ResetSafe
<1> QED
  BY <1>1, InvHolds, PTL

(* Packets are exchanged only by the one owner of lock and interface. *)
THEOREM UsersOwn == Spec => []UseOwned
<1>1. Inv => UseOwned
  BY DEF Inv, TypeOK, OneLock, HeldBy, Entering, UseOwned
<1> QED
  BY <1>1, InvHolds, PTL

-----------------------------------------------------------------------------
(***************************************************************************)
(* The lock a process holds follows from the call it is about to make, and *)
(* an exclusive lock is the only one on its inode.  (A session at          *)
(* SETINTERFACE may have closed its lock file: see above.)                 *)
(***************************************************************************)
LockedBy(p) ==
  /\ pc[p] = "start" => lockFd[p] = 0
  /\ pc[p] \in {"scanlock", "scan", "convert", "lock"} => lockFd[p] # 0
  /\ pc[p] \in {"scan", "convert"} => lock[p] = "EX"
  /\ InSession(p) /\ lockFd[p] # 0 => lock[p] = "SH"
  /\ lock[p] # "none" => lockFd[p] # 0

Excluded(p) ==
  lock[p] = "EX" =>
    \A q \in Procs \ {p} : lockFd[q] = lockFd[p] => lock[q] = "none"

LockInv == TypeOK /\ \A p \in Procs : LockedBy(p) /\ Excluded(p)

LEMMA LockInvInit == Init => LockInv
<1> SUFFICES ASSUME Init PROVE LockInv
  OBVIOUS
<1>1. TypeOK
  BY InvInit DEF Inv
<1> QED
  BY <1>1 DEF Init, LockInv, LockedBy, Excluded, InSession

LEMMA LockInvStep ==
  ASSUME Inv, LockInv, [Next]_vars
  PROVE  LockInv'
<1>1. TypeOK'
  BY InvStep DEF Inv
<1> USE <1>1 DEF LockInv, TypeOK, LockedBy, Excluded, InSession,
        Step, Fail, SetLock, fileVars, devVars
<1>2. CASE UNCHANGED vars
  BY <1>2 DEF vars
<1>3. ASSUME NEW p \in Procs, OpenLockFile(p) \/ OpenLockFileFails(p) PROVE LockInv'
  <2>1. CASE OpenLockFile(p)
    BY <2>1 DEF OpenLockFile
  <2>2. CASE OpenLockFileFails(p)
    BY <2>2 DEF OpenLockFileFails
  <2> QED
    BY <1>3, <2>1, <2>2
<1>4. ASSUME NEW p \in Procs, Enter(p) PROVE LockInv'
  <2>1. CASE LockExclusive(p)
    BY <2>1 DEF LockExclusive, Compatible
  <2>2. CASE LockExclusiveRefused(p) \/ Scan(p)
    BY <2>2 DEF LockExclusiveRefused, Scan
  <2>3. CASE DropExclusive(p)
    BY <2>3 DEF DropExclusive
  <2>4. CASE LockShared(p)
    BY <2>4 DEF LockShared, Compatible
  <2>5. CASE LockSharedRefused(p)
    BY <2>5 DEF LockSharedRefused
  <2>6. CASE OpenDevice(p) \/ LockDevice(p) \/ LockDeviceRefused(p)
    BY <2>6 DEF OpenDevice, LockDevice, LockDeviceRefused
  <2>7. CASE ReadDescriptor(p) \/ Reset(p) \/ Claim(p) \/ ClaimRefused(p)
    BY <2>7 DEF ReadDescriptor, Reset, Claim, ClaimRefused
  <2>8. CASE SetInterface(p) \/ SetInterfaceFails(p)
    BY <2>8 DEF SetInterface, SetInterfaceFails
  <2>9. CASE CallFails(p)
    BY <2>9 DEF CallFails
  <2> QED
    BY <1>4, <2>1, <2>2, <2>3, <2>4, <2>5, <2>6, <2>7, <2>8, <2>9 DEF Enter
<1>5. ASSUME NEW p \in Procs, ReleaseInterface(p) PROVE LockInv'
  BY <1>5 DEF ReleaseInterface
<1>6. ASSUME NEW p \in Procs, Leave(p) PROVE LockInv'
  <2>1. CASE CloseAfterUse(p)
    BY <2>1 DEF CloseAfterUse
  <2>2. CASE Unlink(p)
    BY <2>2 DEF Unlink
  <2>3. CASE CloseLockFile(p)
    BY <2>3 DEF CloseLockFile
  <2>4. CASE CloseDevice(p)
    BY <2>4 DEF CloseDevice
  <2>5. CASE End(p)
    BY <2>5 DEF End
  <2> QED
    BY <1>6, <2>1, <2>2, <2>3, <2>4, <2>5 DEF Leave
<1>7. ASSUME NEW p \in Procs, Crash(p) PROVE LockInv'
  BY <1>7 DEF Crash
<1> QED
  BY <1>2, <1>3, <1>4, <1>5, <1>6, <1>7 DEF Next

LEMMA LockInvHolds == Spec => []LockInv
<1>1. Inv /\ LockInv /\ [Next]_vars => LockInv'
  BY LockInvStep
<1> QED
  BY <1>1, LockInvInit, InvHolds, PTL DEF Spec

(***************************************************************************)
(* Whatever libpuppy's clients unlink, no process is in session under the  *)
(* lock file that a scan has locked.                                       *)
(***************************************************************************)
THEOREM ScansExcludeSharers == Spec => []ScanExcludesSharers
<1>1. LockInv => ScanExcludesSharers
  BY DEF LockInv, TypeOK, LockedBy, Excluded, ScanExcludesSharers, InSession
<1> QED
  BY <1>1, LockInvHolds, PTL

-----------------------------------------------------------------------------
(***************************************************************************)
(* As long as no process uses libpuppy the name /tmp/puppy is never        *)
(* removed, and all lock descriptors are on one inode.                     *)
(***************************************************************************)
OnTheFile(p) ==
  /\ pc[p] # "unlink"
  /\ lockFd[p] \in {0, name}
  /\ pc[p] \in {"scanlock", "scan", "convert", "lock"} \/ InSession(p) => lockFd[p] = 1

OneFile ==
  /\ inodes = IF name = 0 THEN 0 ELSE 1
  /\ name \in {0, 1}
  /\ \A p \in Procs : OnTheFile(p)

LEMMA OneFileInit == Init => OneFile
  BY DEF Init, OneFile, OnTheFile, InSession

LEMMA OneFileStep ==
  ASSUME Lib = {}, Inv, OneFile, [Next]_vars
  PROVE  OneFile'
<1> USE DEF Inv, TypeOK, OneFile, OnTheFile, InSession,
        Step, Fail, SetLock, fileVars, devVars
<1>2. CASE UNCHANGED vars
  BY <1>2 DEF vars
<1>3. ASSUME NEW p \in Procs, OpenLockFile(p) \/ OpenLockFileFails(p) PROVE OneFile'
  <2>1. CASE OpenLockFile(p)
    BY <2>1 DEF OpenLockFile
  <2>2. CASE OpenLockFileFails(p)
    BY <2>2 DEF OpenLockFileFails
  <2> QED
    BY <1>3, <2>1, <2>2
<1>4. ASSUME NEW p \in Procs, Enter(p) PROVE OneFile'
  <2>1. CASE LockExclusive(p)
    BY <2>1 DEF LockExclusive
  <2>2. CASE LockExclusiveRefused(p) \/ Scan(p)
    BY <2>2 DEF LockExclusiveRefused, Scan
  <2>3. CASE DropExclusive(p)
    BY <2>3 DEF DropExclusive
  <2>4. CASE LockShared(p)
    BY <2>4 DEF LockShared
  <2>5. CASE LockSharedRefused(p)
    BY <2>5 DEF LockSharedRefused
  <2>6. CASE OpenDevice(p) \/ LockDevice(p) \/ LockDeviceRefused(p)
    BY <2>6 DEF OpenDevice, LockDevice, LockDeviceRefused
  <2>7. CASE ReadDescriptor(p) \/ Reset(p) \/ Claim(p) \/ ClaimRefused(p)
    BY <2>7 DEF ReadDescriptor, Reset, Claim, ClaimRefused
  <2>8. CASE SetInterface(p) \/ SetInterfaceFails(p)
    BY <2>8 DEF SetInterface, SetInterfaceFails
  <2>9. CASE CallFails(p)
    BY <2>9 DEF CallFails
  <2> QED
    BY <1>4, <2>1, <2>2, <2>3, <2>4, <2>5, <2>6, <2>7, <2>8, <2>9 DEF Enter
<1>5. ASSUME NEW p \in Procs, ReleaseInterface(p) PROVE OneFile'
  BY <1>5 DEF ReleaseInterface
<1>6. ASSUME NEW p \in Procs, Leave(p) PROVE OneFile'
  <2>1. CASE CloseAfterUse(p)
    BY <2>1 DEF CloseAfterUse
  <2>2. CASE Unlink(p)
    BY <2>2 DEF Unlink
  <2>3. CASE CloseLockFile(p)
    BY <2>3 DEF CloseLockFile
  <2>4. CASE CloseDevice(p)
    BY <2>4 DEF CloseDevice
  <2>5. CASE End(p)
    BY <2>5 DEF End
  <2> QED
    BY <1>6, <2>1, <2>2, <2>3, <2>4, <2>5 DEF Leave
<1>7. ASSUME NEW p \in Procs, Crash(p) PROVE OneFile'
  BY <1>7 DEF Crash
<1> QED
  BY <1>2, <1>3, <1>4, <1>5, <1>6, <1>7 DEF Next

(***************************************************************************)
(* puppy.c:1222 holds among instances of puppy: while one scans, no other  *)
(* is in a session, wherever they crash and whatever fails.                *)
(***************************************************************************)
THEOREM ScansAreAlone ==
  ASSUME Lib = {}
  PROVE  Spec => []ScanAlone
<1>1. Inv /\ OneFile /\ [Next]_vars => OneFile'
  BY OneFileStep
<1>2. OneFile /\ ScanExcludesSharers => ScanAlone
  BY DEF OneFile, OnTheFile, ScanExcludesSharers, ScanAlone, InSession
<1> QED
  BY <1>1, <1>2, OneFileInit, InvHolds, ScansExcludeSharers, PTL DEF Spec


-----------------------------------------------------------------------------
(***************************************************************************)
(* Who is turned away, and by whom.  A process past the lock of the device *)
(* node can fail, but nobody turns it away any more; nor does anybody turn *)
(* away one that has ended or failed for a reason of its own.              *)
(***************************************************************************)
Through(p) ==
  /\ pc[p] \in {"descriptor", "reset", "claim", "setif", "use", "release", "unlink",
                "ending", "ended"}
  /\ ~TurnedAway(p)

Running(p) == pc[p] # "start" /\ ~TurnedAway(p)

(***************************************************************************)
(* What turns a process away is a lock that somebody else holds: the one   *)
(* on the device node is held by a process that is through, an exclusive   *)
(* one by a process that has not been turned away, a shared one either by  *)
(* such a process or by one that found the device node locked.             *)
(***************************************************************************)
HoldersRun(p) ==
  /\ pc[p] \in {"start", "scanlock", "lock"} => lock[p] = "none"
  /\ lock[p] = "EX" =>
       pc[p] \in {"scan", "convert"} \/ (pc[p] = "ending" /\ error[p] = "crash")
  /\ p \in devLocked => Through(p)
  /\ lock[p] = "SH" /\ TurnedAway(p) => error[p] = "E_DEVICE_LOCK"
  /\ error[p] = "E_DEVICE_LOCK" => \E q \in Procs : Through(q)
  /\ pc[p] = "start" => error[p] = "none"

SomeoneRuns == (\E p \in Procs : pc[p] # "start") => \E p \in Procs : Running(p)

RefusalInv == (\A p \in Procs : HoldersRun(p)) /\ SomeoneRuns

LEMMA RefusalInit == Init => RefusalInv
  BY DEF Init, RefusalInv, HoldersRun, SomeoneRuns, TurnedAway

(* Nothing turns away a process that is through. *)
LEMMA ThroughStays ==
  ASSUME Inv, [Next]_vars, NEW q \in Procs, Through(q)
  PROVE  Through(q)'
<1> USE DEF Inv, TypeOK, HeldBy, Entering, Through, TurnedAway, Step, Fail
<1>1. CASE UNCHANGED vars
  BY <1>1 DEF vars
<1>2. ASSUME NEW p \in Procs, OpenLockFile(p) \/ OpenLockFileFails(p) PROVE Through(q)'
  BY <1>2 DEF OpenLockFile, OpenLockFileFails
<1>3. ASSUME NEW p \in Procs, Enter(p) PROVE Through(q)'
  <2>1. CASE \/ LockExclusive(p) \/ LockExclusiveRefused(p) \/ Scan(p) \/ DropExclusive(p)
             \/ LockShared(p) \/ LockSharedRefused(p) \/ OpenDevice(p)
    BY <2>1 DEF LockExclusive, LockExclusiveRefused, Scan, DropExclusive, LockShared,
       LockSharedRefused, OpenDevice
  <2>2. CASE \/ LockDevice(p) \/ LockDeviceRefused(p) \/ ReadDescriptor(p) \/ Reset(p)
             \/ Claim(p) \/ ClaimRefused(p)
    BY <2>2 DEF LockDevice, LockDeviceRefused, ReadDescriptor, Reset, Claim, ClaimRefused
  <2>3. CASE SetInterface(p) \/ SetInterfaceFails(p) \/ CallFails(p)
    BY <2>3 DEF SetInterface, SetInterfaceFails, CallFails
  <2> QED
    BY <1>3, <2>1, <2>2, <2>3 DEF Enter
<1>4. ASSUME NEW p \in Procs, ReleaseInterface(p) \/ Leave(p) \/ Crash(p) PROVE Through(q)'
  BY <1>4 DEF ReleaseInterface, Leave, CloseAfterUse, Unlink, CloseLockFile, CloseDevice, End,
     Crash
<1> QED
  BY <1>1, <1>2, <1>3, <1>4 DEF Next

(***************************************************************************)
(* The three ways to be turned away each name somebody who is not.         *)
(***************************************************************************)
LEMMA SomeoneElseRuns ==
  ASSUME "scan" \notin Failures, Inv, LockInv, RefusalInv, NEW p \in Procs,
         \/ LockExclusiveRefused(p) \/ LockSharedRefused(p) \/ LockDeviceRefused(p)
  PROVE  \E q \in Procs \ {p} : Running(q)
<1> USE DEF RefusalInv, HoldersRun
<1>1. ASSUME NEW q \in Procs, Through(q), pc[p] \in {"scanlock", "lock", "devlock"}
      PROVE  q # p /\ Running(q)
  BY <1>1 DEF Through, Running
<1>2. CASE LockDeviceRefused(p)
  <2>1. PICK q \in devLocked : q # p
    BY <1>2 DEF LockDeviceRefused
  <2>2. q \in Procs /\ Through(q) /\ pc[p] = "devlock"
    BY <1>2, <2>1 DEF Inv, TypeOK, LockDeviceRefused, Fail
  <2> QED
    BY <1>1, <2>2
<1>3. CASE LockSharedRefused(p) \/ LockExclusiveRefused(p)
  <2>1. PICK q \in Procs \ {p} : lock[q] \in {"SH", "EX"}
    BY <1>3 DEF LockSharedRefused, LockExclusiveRefused, Compatible, LockInv, TypeOK
  <2>2. pc[p] \in {"scanlock", "lock"}
    BY <1>3 DEF LockSharedRefused, LockExclusiveRefused, Fail
  <2>3. CASE ~TurnedAway(q)
    BY <2>1, <2>3 DEF Running
  <2>4. CASE TurnedAway(q) /\ lock[q] = "SH"
    BY <1>1, <2>1, <2>2, <2>4
  <2>5. CASE TurnedAway(q) /\ lock[q] = "EX"
    BY <2>1, <2>5 DEF Inv, HeldBy, Entering, TurnedAway
  <2> QED
    BY <2>1, <2>3, <2>4, <2>5
<1> QED
  BY <1>2, <1>3

LEMMA SomeoneRunsStep ==
  ASSUME "scan" \notin Failures, Inv, LockInv, RefusalInv, [Next]_vars
  PROVE  SomeoneRuns'
<1> USE DEF Inv, TypeOK, HeldBy, Entering, RefusalInv, SomeoneRuns, Running, TurnedAway, Step, Fail
<1>1. CASE UNCHANGED vars
  BY <1>1 DEF vars
<1>2. ASSUME NEW p \in Procs, OpenLockFile(p) \/ OpenLockFileFails(p) PROVE SomeoneRuns'
  <2>1. pc'[p] # "start" /\ error'[p] \in {"none", "E_LOCK_FILE"}
    BY <1>2 DEF OpenLockFile, OpenLockFileFails
  <2> QED
    BY <2>1
<1>3. ASSUME NEW p \in Procs,
             LockExclusiveRefused(p) \/ LockSharedRefused(p) \/ LockDeviceRefused(p)
      PROVE  SomeoneRuns'
  <2>1. PICK q \in Procs \ {p} : Running(q)
    BY <1>3, SomeoneElseRuns
  <2>2. pc'[q] = pc[q] /\ error'[q] = error[q]
    BY <1>3, <2>1 DEF LockExclusiveRefused, LockSharedRefused, LockDeviceRefused
  <2> QED
    BY <2>1, <2>2
<1>4. ASSUME NEW p \in Procs, pc[p] # "start", pc' = [pc EXCEPT ![p] = pc'[p]],
             pc'[p] # "start",
             \/ UNCHANGED error
             \/ error' = [error EXCEPT ![p] = error'[p]] /\ ~TurnedAway(p)'
      PROVE  SomeoneRuns'
  <2>1. PICK q \in Procs : Running(q)
    BY <1>4
  <2>2. Running(q)'
    BY <1>4, <2>1
  <2> QED
    BY <2>2
<1>5. ASSUME NEW p \in Procs, Enter(p),
             ~(LockExclusiveRefused(p) \/ LockSharedRefused(p) \/ LockDeviceRefused(p))
      PROVE  SomeoneRuns'
  <2>1. CASE \/ LockExclusive(p) \/ Scan(p) \/ DropExclusive(p) \/ LockShared(p)
             \/ OpenDevice(p) \/ LockDevice(p) \/ ReadDescriptor(p) \/ Reset(p)
    BY <1>4, <2>1 DEF LockExclusive, Scan, DropExclusive, LockShared, OpenDevice, LockDevice,
       ReadDescriptor, Reset
  <2>2. CASE Claim(p) \/ ClaimRefused(p) \/ SetInterface(p) \/ SetInterfaceFails(p)
    BY <1>4, <2>2 DEF Claim, ClaimRefused, SetInterface, SetInterfaceFails
  <2>3. CASE CallFails(p)
    BY <1>4, <2>3 DEF CallFails
  <2> QED
    BY <1>5, <2>1, <2>2, <2>3 DEF Enter
<1>6. ASSUME NEW p \in Procs, ReleaseInterface(p) \/ Leave(p) \/ Crash(p) PROVE SomeoneRuns'
  <2>1. CASE CloseLockFile(p) \/ CloseDevice(p)
    BY <2>1 DEF CloseLockFile, CloseDevice
  <2>2. CASE ReleaseInterface(p) \/ CloseAfterUse(p) \/ Unlink(p) \/ End(p) \/ Crash(p)
    BY <1>4, <2>2 DEF ReleaseInterface, CloseAfterUse, Unlink, End, Crash
  <2> QED
    BY <1>6, <2>1, <2>2 DEF Leave
<1> QED
  BY <1>1, <1>2, <1>3, <1>5, <1>6 DEF Next

(***************************************************************************)
(* The step of HoldersRun.  The clause about processes that found the      *)
(* device node locked speaks of two processes; the others speak of one.    *)
(***************************************************************************)
HolderRuns(p) ==
  /\ pc[p] \in {"start", "scanlock", "lock"} => lock[p] = "none"
  /\ lock[p] = "EX" =>
       pc[p] \in {"scan", "convert"} \/ (pc[p] = "ending" /\ error[p] = "crash")
  /\ p \in devLocked => Through(p)
  /\ lock[p] = "SH" /\ TurnedAway(p) => error[p] = "E_DEVICE_LOCK"
  /\ pc[p] = "start" => error[p] = "none"

LEMMA HolderRunsStep ==
  ASSUME "scan" \notin Failures, Inv, LockInv, [Next]_vars,
         \A p \in Procs : HolderRuns(p)
  PROVE  \A p \in Procs : HolderRuns(p)'
<1> USE DEF Inv, TypeOK, HeldBy, Entering, LockInv, LockedBy, HolderRuns, Through, TurnedAway,
        InSession, Step, Fail, SetLock, fileVars, devVars
<1> DEFINE Goal == \A p \in Procs : HolderRuns(p)'
<1>1. CASE UNCHANGED vars
  BY <1>1 DEF vars
<1>2. ASSUME NEW p \in Procs, OpenLockFile(p) \/ OpenLockFileFails(p) PROVE Goal
  BY <1>2 DEF OpenLockFile, OpenLockFileFails
<1>3. ASSUME NEW p \in Procs, Enter(p) PROVE Goal
  <2>1. CASE LockExclusive(p) \/ LockExclusiveRefused(p)
    BY <2>1 DEF LockExclusive, LockExclusiveRefused
  <2>2. CASE Scan(p) \/ DropExclusive(p)
    BY <2>2 DEF Scan, DropExclusive
  <2>3. CASE LockShared(p) \/ LockSharedRefused(p)
    BY <2>3 DEF LockShared, LockSharedRefused
  <2>4. CASE OpenDevice(p) \/ LockDevice(p) \/ LockDeviceRefused(p)
    BY <2>4 DEF OpenDevice, LockDevice, LockDeviceRefused
  <2>5. CASE ReadDescriptor(p) \/ Reset(p) \/ Claim(p) \/ ClaimRefused(p)
    BY <2>5 DEF ReadDescriptor, Reset, Claim, ClaimRefused
  <2>6. CASE SetInterface(p) \/ SetInterfaceFails(p)
    BY <2>6 DEF SetInterface, SetInterfaceFails
  <2>7. CASE CallFails(p)
    BY <2>7 DEF CallFails
  <2> QED
    BY <1>3, <2>1, <2>2, <2>3, <2>4, <2>5, <2>6, <2>7 DEF Enter
<1>4. ASSUME NEW p \in Procs, ReleaseInterface(p) PROVE Goal
  BY <1>4 DEF ReleaseInterface
<1>5. ASSUME NEW p \in Procs, Leave(p) PROVE Goal
  <2>1. CASE CloseAfterUse(p)
    BY <2>1 DEF CloseAfterUse, DropDevice
  <2>2. CASE Unlink(p)
    BY <2>2 DEF Unlink
  <2>3. CASE CloseLockFile(p)
    BY <2>3 DEF CloseLockFile
  <2>4. CASE CloseDevice(p)
    BY <2>4 DEF CloseDevice, DropDevice
  <2>5. CASE End(p)
    BY <2>5 DEF End
  <2> QED
    BY <1>5, <2>1, <2>2, <2>3, <2>4, <2>5 DEF Leave
<1>6. ASSUME NEW p \in Procs, Crash(p) PROVE Goal
  BY <1>6 DEF Crash
<1> QED
  BY <1>1, <1>2, <1>3, <1>4, <1>5, <1>6 DEF Next

LEMMA FoundLockedStep ==
  ASSUME Inv, RefusalInv, [Next]_vars, NEW p \in Procs, error'[p] = "E_DEVICE_LOCK"
  PROVE  \E q \in Procs : Through(q)'
<1>1. CASE error[p] = "E_DEVICE_LOCK"
  BY <1>1, ThroughStays DEF RefusalInv, HoldersRun
<1>2. CASE error[p] # "E_DEVICE_LOCK"
  <2>1. LockDeviceRefused(p)
    <3>1. ~UNCHANGED error
      BY <1>2
    <3>2. PICK q \in Procs : \/ OpenLockFile(q) \/ OpenLockFileFails(q)
                             \/ Enter(q) \/ ReleaseInterface(q) \/ Leave(q) \/ Crash(q)
      BY <3>1 DEF Next, vars
    <3>3. ~(ReleaseInterface(q) \/ Leave(q))
      BY <3>1 DEF ReleaseInterface, Leave, CloseAfterUse, Unlink, CloseLockFile, CloseDevice,
         End, Step
    <3>4. ~(OpenLockFile(q) \/ OpenLockFileFails(q) \/ Crash(q))
      BY <1>2 DEF OpenLockFile, OpenLockFileFails, Crash, Fail, Inv, TypeOK
    <3>5. Enter(q)
      BY <3>2, <3>3, <3>4
    <3> QED
      BY <1>2, <3>1, <3>5
      DEF Enter, LockExclusive, LockExclusiveRefused, Scan, DropExclusive, LockShared,
          LockSharedRefused, OpenDevice, LockDevice, LockDeviceRefused, ReadDescriptor, Reset,
          Claim, ClaimRefused, SetInterface, SetInterfaceFails, CallFails, Step, Fail, Inv, TypeOK
  <2>2. PICK q \in devLocked : q # p
    BY <2>1 DEF LockDeviceRefused
  <2> QED
    BY <2>2, ThroughStays DEF RefusalInv, HoldersRun, Inv, TypeOK
<1> QED
  BY <1>1, <1>2

LEMMA RefusalStep ==
  ASSUME "scan" \notin Failures, Inv, LockInv, RefusalInv, [Next]_vars
  PROVE  RefusalInv'
<1>1. \A p \in Procs : HolderRuns(p)
  BY DEF RefusalInv, HoldersRun, HolderRuns
<1>2. \A p \in Procs : HolderRuns(p)'
  BY <1>1, HolderRunsStep
<1> QED
  BY <1>2, FoundLockedStep, SomeoneRunsStep DEF RefusalInv, HoldersRun, HolderRuns

(***************************************************************************)
(* Processes that race for the locks never all turn each other away.       *)
(***************************************************************************)
THEOREM SomeoneGetsIn == Spec => []NotAllRefused
<1>1. CASE "scan" \in Failures
  <2>1. Inv => NotAllRefused
    BY <1>1 DEF NotAllRefused
  <2> QED
    BY <2>1, InvHolds, PTL
<1>2. CASE "scan" \notin Failures
  <2>1. Inv /\ LockInv /\ RefusalInv /\ [Next]_vars => RefusalInv'
    BY <1>2, RefusalStep
  <2>2. RefusalInv => NotAllRefused
    BY DEF RefusalInv, SomeoneRuns, Running, NotAllRefused
  <2> QED
    BY <2>1, <2>2, RefusalInit, InvHolds, LockInvHolds, PTL DEF Spec
<1> QED
  BY <1>1, <1>2

==============================================================================
