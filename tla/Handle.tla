------------------------------- MODULE Handle -------------------------------
(***************************************************************************)
(* One handle (puppy_t of libpuppy.c) and a caller that uses all of the    *)
(* library on it: fetches (FileGet), stores (FilePut), commands and        *)
(* listings (Commands), one after the other and in any order.  The pipes   *)
(* of the three parts are the same two endpoints.  They are kept apart     *)
(* here, which is sound as long as an operation begins with nothing of     *)
(* another one under way: HandleInStep says that it does.                  *)
(*                                                                         *)
(* The caller reads puppy_status after a command, as libpuppy.h asks.      *)
(***************************************************************************)
EXTENDS Naturals, Sequences

CONSTANTS
  Faults,     \* of the kinds "refuse" and "local": the link itself is sound
  Blocks,     \* the data packets of the file that is fetched
  Sizes,      \* the sizes of the local files that are stored
  Cmds,       \* the commands the caller uses
  Entries,    \* the DATA_HDD_DIR packets of a listing
  MaxCalls    \* bound on the operations, of all three kinds together

VARIABLES
  gToDev, gToHost, gPc, gCalls, gState, gDst, gTorn, gModtime, gMtime, gResult,
  gRest, gTainted, gInSync, gDev, gSent

getVars == <<gToDev, gToHost, gPc, gCalls, gState, gDst, gTorn, gModtime, gMtime,
             gResult, gRest, gTainted, gInSync, gDev, gSent>>

VARIABLES
  pToDev, pToHost, pPc, pCalls, pState, pFileSize, pActual, pPos, pByteCount,
  pResult, pInSync, pDev, pStored, pWhole

putVars == <<pToDev, pToHost, pPc, pCalls, pState, pFileSize, pActual, pPos,
             pByteCount, pResult, pInSync, pDev, pStored, pWhole>>

VARIABLES
  cToDev, cToHost, cPc, cCalls, cCmd, cError, cChecked, cResult, cListing, cCut,
  cTainted, cInSync, cDev, cServing, cSent, cDone

cmdVars == <<cToDev, cToHost, cPc, cCalls, cCmd, cError, cChecked, cResult, cListing,
             cCut, cTainted, cInSync, cDev, cServing, cSent, cDone>>

Get == INSTANCE FileGet WITH
  N <- Blocks, Reuse <- TRUE, Program <- "libpuppy", DataLike <- "always",
  toDev <- gToDev, toHost <- gToHost, pc <- gPc, calls <- gCalls,
  state <- gState, dst <- gDst, torn <- gTorn, modtime <- gModtime,
  mtime <- gMtime, result <- gResult, rest <- gRest, tainted <- gTainted,
  inSync <- gInSync, dev <- gDev, sent <- gSent

Put == INSTANCE FilePut WITH
  FileSizes <- Sizes, LaterSizes <- {}, ShortReads <- {}, Reuse <- TRUE,
  toDev <- pToDev, toHost <- pToHost, pc <- pPc, calls <- pCalls,
  state <- pState, fileSize <- pFileSize, actual <- pActual, pos <- pPos,
  byteCount <- pByteCount, result <- pResult, inSync <- pInSync, dev <- pDev,
  stored <- pStored, whole <- pWhole

Cmd == INSTANCE Commands WITH
  N <- Entries, ReadsStatus <- TRUE, Program <- "libpuppy",
  toDev <- cToDev, toHost <- cToHost, pc <- cPc, calls <- cCalls,
  cmd <- cCmd, error <- cError, checked <- cChecked, result <- cResult,
  listing <- cListing, cut <- cCut, tainted <- cTainted, inSync <- cInSync,
  dev <- cDev, serving <- cServing, sent <- cSent, done <- cDone

ASSUME HandleAssumption ==
  /\ Faults \subseteq {"refuse", "local"}
  /\ Sizes \subseteq Nat
  /\ Cmds \subseteq Cmd!AllCmds
  /\ {Blocks, Entries, MaxCalls} \subseteq Nat

vars == <<getVars, putVars, cmdVars>>

Init == Get!Init /\ Put!Init /\ Cmd!Init

(* The caller is a single thread: while one operation runs no other begins. *)
Idle == gPc = "idle" /\ pPc = "idle" /\ cPc = "idle"

MayBegin == Idle /\ gCalls + pCalls + cCalls < MaxCalls

BeginFetch == MayBegin /\ (Get!Call \/ Get!CallCannotOpen \/ Get!CallPathTooLong)

BeginStore == MayBegin /\ (Put!Call \/ Put!CallRefused)

BeginCommand == MayBegin /\ (Cmd!Call \/ Cmd!CallDir \/ Cmd!CallPathTooLong)

Fetch == (BeginFetch \/ Get!Host \/ Get!Device) /\ UNCHANGED <<putVars, cmdVars>>

Store == (BeginStore \/ Put!Host \/ Put!Device) /\ UNCHANGED <<getVars, cmdVars>>

Command ==
  /\ BeginCommand \/ (Idle /\ Cmd!ReadStatus) \/ Cmd!Host \/ Cmd!Device
  /\ UNCHANGED <<getVars, putVars>>

Next == Fetch \/ Store \/ Command

Spec == Init /\ [][Next]_vars

(* As in the three parts: reads return, the device deals with what reaches *)
(* it, and nobody has to call.                                             *)
FairSpec == Spec /\ Get!Fairness /\ Put!Fairness /\ Cmd!Fairness

-----------------------------------------------------------------------------
(***************************************************************************)
(* Between two operations, however the last one ended, nothing is left in  *)
(* the endpoints that the next one could read, and nothing that the device *)
(* could still answer: whatever was refused, every packet the host sent    *)
(* has had its answer read.  A refused fetch or command sends a CANCEL and *)
(* reads the answer to that; a refused store sends none.                   *)
(***************************************************************************)
HandleInStep ==
  /\ Idle => Get!Quiet /\ Put!Quiet
  /\ Cmd!StaysInStep

(* The parts' own promises, made for callers that mix their operations. *)
WholeCopy == Get!WholeCopy

WholePut == Put!WholePut

==============================================================================
