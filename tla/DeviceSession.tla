---------------------------- MODULE DeviceSession ----------------------------
(***************************************************************************)
(* How processes come to own the Topfield: the lock file /tmp/puppy and    *)
(* the usbfs device node, as puppy_open and puppy_done of libpuppy.c and   *)
(* main, parseArgs and findToppy of puppy.c use them.  One action is one   *)
(* system call; the calls of different processes interleave freely.        *)
(*                                                                         *)
(* Three kinds of process share the device: clients of libpuppy            *)
(* (puppy-dir, puppy-get), puppy told its device by -d, and puppy left to  *)
(* scan for one.  flock() locks belong to the open file, so they   *)
(* follow the inode: once the name /tmp/puppy has been unlinked, the next  *)
(* open creates a lock file of its own.                                    *)
(***************************************************************************)
EXTENDS Naturals, FiniteSets

CONSTANTS
  Procs,      \* processes
  Lib,        \* those that use libpuppy
  Scanners,   \* those that run puppy without a device
  Failures    \* the steps that may fail

Steps == {"lockfile", "scan", "opendev", "descriptor", "foreign", "reset",
          "claim", "setif", "crash"}

ASSUME DeviceSessionAssumption ==
  /\ Lib \subseteq Procs /\ Scanners \subseteq Procs
  /\ Lib \cap Scanners = {}
  /\ Failures \subseteq Steps

VARIABLES
  pc,         \* the call each process makes next
  error,      \* p->error, or the exit code of puppy; "none" so far
  name,       \* the inode /tmp/puppy names, 0 when there is no such file
  inodes,     \* lock files ever created
  lockFd,     \* the inode each process has open as lockFd, 0 for none
  lock,       \* the flock each process holds on it
  fds,        \* the processes that have the device node open
  devLocked,  \* those of them that hold LOCK_EX on it
  claimed     \* those for whom the kernel has claimed interface 0

fileVars == <<name, inodes, lockFd, lock>>
devVars  == <<fds, devLocked, claimed>>
vars     == <<pc, error, fileVars, devVars>>

Init ==
  /\ pc = [p \in Procs |-> "start"]
  /\ error = [p \in Procs |-> "none"]
  /\ name = 0 /\ inodes = 0
  /\ lockFd = [p \in Procs |-> 0]
  /\ lock = [p \in Procs |-> "none"]
  /\ fds = {} /\ devLocked = {} /\ claimed = {}

(* A call returns and the next one is at "to". *)
Step(p, from, to) ==
  /\ pc[p] = from
  /\ pc' = [pc EXCEPT ![p] = to]
  /\ UNCHANGED error

(* A call fails: what is left to do is to close what is open. *)
Fail(p, from, code) ==
  /\ pc[p] = from
  /\ pc' = [pc EXCEPT ![p] = "ending"]
  /\ error' = [error EXCEPT ![p] = code]

-----------------------------------------------------------------------------
(***************************************************************************)
(* The lock file.                                                          *)
(***************************************************************************)

(* Slip: main takes its shared lock before parseArgs, as puppy_open does, *)
(* and findToppy finds the shared locks of the other scanners.            *)
OpenLockFileShared(p) ==
  /\ pc[p] = "start"
  /\ \A q \in Procs : lock[q] # "EX"
  /\ pc' = [pc EXCEPT ![p] = IF p \in Scanners THEN "scanlock" ELSE "opendev"]
  /\ error' = [error EXCEPT ![p] = "none"]
  /\ inodes' = 1 /\ name' = 1
  /\ lockFd' = [lockFd EXCEPT ![p] = 1]
  /\ lock' = [lock EXCEPT ![p] = "SH"]
  /\ UNCHANGED <<devVars>>

(* open(O_CREAT): the file the name leads to, or a new one. *)
OpenLockFile(p) ==
  /\ pc[p] = "start"
  /\ pc' = [pc EXCEPT ![p] = IF p \in Scanners THEN "scanlock" ELSE "lock"]
  /\ error' = [error EXCEPT ![p] = "none"]
  /\ inodes' = IF name = 0 THEN inodes + 1 ELSE inodes
  /\ name' = IF name = 0 THEN inodes + 1 ELSE name
  /\ lockFd' = [lockFd EXCEPT ![p] = name']
  /\ UNCHANGED <<lock, devVars>>

OpenLockFileFails(p) ==
  /\ pc[p] = "start"
  /\ "lockfile" \in Failures
  /\ pc' = [pc EXCEPT ![p] = "ending"]
  /\ error' = [error EXCEPT ![p] = "E_LOCK_FILE"]
  /\ UNCHANGED <<fileVars, devVars>>

(* flock(LOCK_NB) succeeds when every lock others hold on the inode allows it. *)
Compatible(p, mode) ==
  \A q \in Procs \ {p} :
    lockFd[q] = lockFd[p] => lock[q] = "none" \/ (lock[q] = "SH" /\ mode = "SH")

SetLock(p, mode) == lock' = [lock EXCEPT ![p] = mode]

(* Slip: no lock is taken, as in the findToppy of libpuppy.c. *)
LockExclusiveOmitted(p) ==
  /\ Step(p, "scanlock", "scan")
  /\ UNCHANGED <<fileVars, devVars>>

(* "Refuse to scan while another instance is running." *)
LockExclusive(p) ==
  /\ Step(p, "scanlock", "scan")
  /\ Compatible(p, "EX")
  /\ SetLock(p, "EX")
  /\ UNCHANGED <<name, inodes, lockFd, devVars>>

LockExclusiveRefused(p) ==
  /\ Fail(p, "scanlock", "E_INVALID_ARGS")
  /\ ~Compatible(p, "EX")
  /\ UNCHANGED <<fileVars, devVars>>

Scan(p) ==
  /\ Step(p, "scan", "convert")
  /\ UNCHANGED <<fileVars, devVars>>

(* Converting a lock is not atomic: flock drops the old one first. *)
DropExclusive(p) ==
  /\ Step(p, "convert", "lock")
  /\ SetLock(p, "none")
  /\ UNCHANGED <<name, inodes, lockFd, devVars>>

LockShared(p) ==
  /\ Step(p, "lock", "opendev")
  /\ Compatible(p, "SH")
  /\ SetLock(p, "SH")
  /\ UNCHANGED <<name, inodes, lockFd, devVars>>

LockSharedRefused(p) ==
  /\ Fail(p, "lock", "E_GLOBAL_LOCK")
  /\ ~Compatible(p, "SH")
  /\ UNCHANGED <<fileVars, devVars>>

-----------------------------------------------------------------------------
(***************************************************************************)
(* The device node.                                                        *)
(***************************************************************************)

(* Slip: the new descriptor is not kept, p->fd is still -1. *)
OpenDeviceForgotten(p) ==
  /\ Step(p, "opendev", "devlock")
  /\ UNCHANGED <<fileVars, devVars>>

OpenDevice(p) ==
  /\ Step(p, "opendev", "devlock")
  /\ fds' = fds \cup {p}
  /\ UNCHANGED <<fileVars, devLocked, claimed>>

(* Slip: LOCK_SH on the device node, as on the lock file. *)
LockDeviceShared(p) ==
  /\ Step(p, "devlock", "descriptor")
  /\ devLocked' = devLocked \cup {p}
  /\ UNCHANGED <<fileVars, fds, claimed>>

LockDevice(p) ==
  /\ Step(p, "devlock", "descriptor")
  /\ devLocked \subseteq {p}
  /\ devLocked' = devLocked \cup {p}
  /\ UNCHANGED <<fileVars, fds, claimed>>

(* Slip: flock on the device node without LOCK_NB. *)
LockDeviceWaits(p) ==
  /\ pc[p] = "devlock" /\ ~(devLocked \subseteq {p})
  /\ UNCHANGED vars

LockDeviceRefused(p) ==
  /\ Fail(p, "devlock", "E_DEVICE_LOCK")
  /\ ~(devLocked \subseteq {p})
  /\ UNCHANGED <<fileVars, devVars>>

ReadDescriptor(p) ==
  /\ Step(p, "descriptor", "reset")
  /\ UNCHANGED <<fileVars, devVars>>

Reset(p) ==
  /\ Step(p, "reset", "claim")
  /\ UNCHANGED <<fileVars, devVars>>

(* The kernel lets one open file claim the interface. *)
Claim(p) ==
  /\ Step(p, "claim", "setif")
  /\ claimed \subseteq {p}
  /\ claimed' = claimed \cup {p}
  /\ UNCHANGED <<fileVars, fds, devLocked>>

ClaimRefused(p) ==
  /\ Fail(p, "claim", "E_CLAIM_INTERFACE")
  /\ "claim" \in Failures \/ ~(claimed \subseteq {p})
  /\ UNCHANGED <<fileVars, devVars>>

(* Slip: the last ioctl is taken to succeed. *)
SetInterfaceUnchecked(p) ==
  /\ Step(p, "setif", "use")
  /\ UNCHANGED <<fileVars, devVars>>

SetInterface(p) ==
  /\ Step(p, "setif", "use")
  /\ p \in fds
  /\ UNCHANGED <<fileVars, devVars>>

(* On a descriptor that has been closed (fd is -1) the ioctl always fails. *)
SetInterfaceFails(p) ==
  /\ Fail(p, "setif", "E_SET_INTERFACE")
  /\ "setif" \in Failures \/ p \notin fds
  /\ UNCHANGED <<fileVars, devVars>>

(* The calls that fail for reasons of their own. *)
CallFails(p) ==
  /\ \/ "scan" \in Failures /\ Fail(p, "scan", "E_INVALID_ARGS")
     \/ "opendev" \in Failures /\ Fail(p, "opendev", "E_READ_DEVICE")
     \/ "descriptor" \in Failures /\ Fail(p, "descriptor", "E_READ_DEVICE")
     \/ "foreign" \in Failures /\ Fail(p, "descriptor", "E_NOT_TF5000PVR")
     \/ "reset" \in Failures /\ Fail(p, "reset", "E_RESET_DEVICE")
  /\ UNCHANGED <<fileVars, devVars>>

-----------------------------------------------------------------------------
(***************************************************************************)
(* The way out.                                                            *)
(***************************************************************************)

ReleaseInterface(p) ==
  /\ Step(p, "use", "release")
  /\ claimed' = claimed \ {p}
  /\ UNCHANGED <<fileVars, fds, devLocked>>

DropDevice(p) ==
  /\ fds' = fds \ {p}
  /\ devLocked' = devLocked \ {p}
  /\ claimed' = claimed \ {p}

CloseAfterUse(p) ==
  /\ Step(p, "release", IF p \in Lib THEN "unlink" ELSE "ending")
  /\ DropDevice(p)
  /\ UNCHANGED <<fileVars>>

(* puppy_done removes the name, whoever else relies on the file behind it. *)
Unlink(p) ==
  /\ Step(p, "unlink", "ending")
  /\ name' = 0
  /\ UNCHANGED <<inodes, lockFd, lock, devVars>>

(***************************************************************************)
(* What is still open is closed: by puppy_open the lock file first, by     *)
(* puppy the device first and the lock file when it exits, by the kernel   *)
(* for a process that died in whatever order it likes.                     *)
(***************************************************************************)
CloseLockFile(p) ==
  /\ pc[p] = "ending" /\ lockFd[p] # 0
  /\ error[p] = "crash" \/ p \in Lib \/ p \notin fds
  /\ lockFd' = [lockFd EXCEPT ![p] = 0]
  /\ SetLock(p, "none")
  /\ UNCHANGED <<pc, error, name, inodes, devVars>>

CloseDevice(p) ==
  /\ pc[p] = "ending" /\ p \in fds
  /\ error[p] = "crash" \/ p \notin Lib \/ lockFd[p] = 0
  /\ DropDevice(p)
  /\ UNCHANGED <<pc, error, fileVars>>

(* puppy_open does not return after a claim that failed: it goes on. *)
End(p) ==
  /\ pc[p] = "ending" /\ lockFd[p] = 0 /\ p \notin fds
  /\ pc' = [pc EXCEPT ![p] =
              IF p \in Lib /\ error[p] = "E_CLAIM_INTERFACE" THEN "setif" ELSE "ended"]
  /\ UNCHANGED <<error, fileVars, devVars>>

Crash(p) ==
  /\ "crash" \in Failures
  /\ pc[p] \notin {"start", "ended"}
  /\ Fail(p, pc[p], "crash")
  /\ UNCHANGED <<fileVars, devVars>>

-----------------------------------------------------------------------------
Enter(p) ==
  \/ LockExclusive(p) \/ LockExclusiveRefused(p) \/ Scan(p) \/ DropExclusive(p)
  \/ LockShared(p) \/ LockSharedRefused(p)
  \/ OpenDevice(p) \/ LockDevice(p) \/ LockDeviceRefused(p)
  \/ ReadDescriptor(p) \/ Reset(p) \/ Claim(p) \/ ClaimRefused(p)
  \/ SetInterface(p) \/ SetInterfaceFails(p) \/ CallFails(p)

Leave(p) ==
  \/ CloseAfterUse(p) \/ Unlink(p) \/ CloseLockFile(p) \/ CloseDevice(p) \/ End(p)

Next ==
  \E p \in Procs :
    \/ OpenLockFile(p) \/ OpenLockFileFails(p)
    \/ Enter(p) \/ ReleaseInterface(p) \/ Leave(p) \/ Crash(p)

Spec == Init /\ [][Next]_vars

(***************************************************************************)
(* A running process keeps running.  Nothing says when it is finished with *)
(* the device: a transfer may take any time.                               *)
(***************************************************************************)
FairSpec == Spec /\ \A p \in Procs : WF_vars(Enter(p) \/ Leave(p))

-----------------------------------------------------------------------------
(***************************************************************************)
(* Properties.                                                             *)
(***************************************************************************)
ErrorCodes ==
  {"none", "crash", "E_INVALID_ARGS", "E_READ_DEVICE", "E_NOT_TF5000PVR",
   "E_SET_INTERFACE", "E_CLAIM_INTERFACE", "E_DEVICE_LOCK", "E_LOCK_FILE",
   "E_GLOBAL_LOCK", "E_RESET_DEVICE"}

Places ==
  {"start", "scanlock", "scan", "convert", "lock", "opendev", "devlock",
   "descriptor", "reset", "claim", "setif", "use", "release", "unlink",
   "ending", "ended"}

TypeOK ==
  /\ pc \in [Procs -> Places] /\ error \in [Procs -> ErrorCodes]
  /\ inodes \in Nat /\ name \in 0..inodes
  /\ lockFd \in [Procs -> 0..inodes]
  /\ lock \in [Procs -> {"none", "SH", "EX"}]
  /\ fds \subseteq Procs /\ devLocked \subseteq fds /\ claimed \subseteq devLocked

(***************************************************************************)
(* The device is reset, and its configuration touched, only while nobody   *)
(* else has the interface: no session is cut off by another one starting.  *)
(***************************************************************************)
ResetSafe ==
  \A p \in Procs : pc[p] \in {"descriptor", "reset", "claim"} => claimed \subseteq {p}

(***************************************************************************)
(* A process exchanges packets with the device only when it alone has it   *)
(* locked and claimed and its open reported no error.  In libpuppy.c this  *)
(* hangs on the SETINTERFACE that follows a failed CLAIMINTERFACE (a       *)
(* return is missing at line 230) failing on the closed descriptor.        *)
(***************************************************************************)
UseOwned ==
  \A p \in Procs :
    pc[p] = "use" => devLocked = {p} /\ claimed = {p} /\ error[p] = "none"

(***************************************************************************)
(* puppy.c:1222, "Refuse to scan while another instance is running": while *)
(* a process scans, no other process is between its shared lock and the    *)
(* end of its session.                                                     *)
(***************************************************************************)
InSession(p) ==
  pc[p] \in {"opendev", "devlock", "descriptor", "reset", "claim", "setif", "use", "release"}

ScanAlone ==
  \A p, q \in Procs : p # q /\ pc[p] \in {"scan", "convert"} => ~InSession(q)

(***************************************************************************)
(* What the lock still guarantees when libpuppy's clients unlink its file: *)
(* no process is in session under the lock file that a scan has locked.    *)
(***************************************************************************)
ScanExcludesSharers ==
  \A p, q \in Procs :
    p # q /\ pc[p] \in {"scan", "convert"} /\ lockFd[p] = lockFd[q] => ~InSession(q)

(***************************************************************************)
(* Processes that race for the two locks, each with LOCK_NB, never all     *)
(* turn each other away: when all have ended, at least one of them had a   *)
(* session without error or failed for a reason of its own.  (A scan that  *)
(* fails has the exit code of one that is refused, so that scans are taken *)
(* to succeed.)                                                            *)
(***************************************************************************)
TurnedAway(p) == error[p] \in {"E_INVALID_ARGS", "E_GLOBAL_LOCK", "E_DEVICE_LOCK"}

NotAllRefused ==
  "scan" \notin Failures /\ (\A p \in Procs : pc[p] \in {"start", "ended"})
    => \/ \A p \in Procs : pc[p] = "start"
       \/ \E p \in Procs : pc[p] = "ended" /\ ~TurnedAway(p)

(***************************************************************************)
(* Nobody waits for another process, however long that one's transfer      *)
(* takes: whoever starts is soon using the device or turned away.          *)
(***************************************************************************)
NeverWaits ==
  \A p \in Procs : pc[p] \in {"scanlock", "lock"} ~> pc[p] \in {"use", "ended"}

==============================================================================
