---------------------------- MODULE Handle_proofs ----------------------------
(***************************************************************************)
(* The proof that operations of all kinds can share a handle: each kind    *)
(* leaves the link quiet behind it (FileGet_proofs, FilePut_proofs and     *)
(* Commands_proofs), and a step of the handle is a step of one kind, or    *)
(* none, for each of them.                                                 *)
(***************************************************************************)
EXTENDS Handle, TLAPS

GetProofs == INSTANCE FileGet_proofs WITH
  N <- Blocks, Reuse <- TRUE, Program <- "libpuppy", DataLike <- "always",
  toDev <- gToDev, toHost <- gToHost, pc <- gPc, calls <- gCalls,
  state <- gState, dst <- gDst, torn <- gTorn, modtime <- gModtime,
  mtime <- gMtime, result <- gResult, rest <- gRest, tainted <- gTainted,
  inSync <- gInSync, dev <- gDev, sent <- gSent

PutProofs == INSTANCE FilePut_proofs WITH
  FileSizes <- Sizes, LaterSizes <- {}, ShortReads <- {}, Reuse <- TRUE,
  toDev <- pToDev, toHost <- pToHost, pc <- pPc, calls <- pCalls,
  state <- pState, fileSize <- pFileSize, actual <- pActual, pos <- pPos,
  byteCount <- pByteCount, result <- pResult, inSync <- pInSync, dev <- pDev,
  stored <- pStored, whole <- pWhole

CmdProofs == INSTANCE Commands_proofs WITH
  N <- Entries, ReadsStatus <- TRUE, Program <- "libpuppy",
  toDev <- cToDev, toHost <- cToHost, pc <- cPc, calls <- cCalls,
  cmd <- cCmd, error <- cError, checked <- cChecked, result <- cResult,
  listing <- cListing, cut <- cCut, tainted <- cTainted, inSync <- cInSync,
  dev <- cDev, serving <- cServing, sent <- cSent, done <- cDone

-----------------------------------------------------------------------------
(***************************************************************************)
(* What the handle does is what its parts do.                              *)
(***************************************************************************)
LEMMA StepOfParts ==
  ASSUME [Next]_vars
  PROVE  /\ [Get!Next]_Get!vars
         /\ [Put!Next]_Put!vars
         /\ [Cmd!Next]_Cmd!vars
<1>1. UNCHANGED getVars => UNCHANGED Get!vars
  BY DEF getVars, Get!vars, Get!hostVars, Get!pipeVars, Get!devVars
<1>2. UNCHANGED putVars => UNCHANGED Put!vars
  BY DEF putVars, Put!vars, Put!hostVars, Put!pipeVars, Put!devVars
<1>3. UNCHANGED cmdVars => UNCHANGED Cmd!vars
  BY DEF cmdVars, Cmd!vars, Cmd!hostVars, Cmd!pipeVars, Cmd!devVars
<1>4. CASE UNCHANGED vars
  BY <1>1, <1>2, <1>3, <1>4 DEF vars
<1>5. CASE Fetch
  BY <1>2, <1>3, <1>5 DEF Fetch, BeginFetch, Get!Next
<1>6. CASE Store
  BY <1>1, <1>3, <1>6 DEF Store, BeginStore, Put!Next
<1>7. CASE Command
  BY <1>1, <1>2, <1>7 DEF Command, BeginCommand, Cmd!Next
<1> QED
  BY <1>4, <1>5, <1>6, <1>7 DEF Next

(***************************************************************************)
(* The parts as Handle names them and as the proofs name them are the same *)
(* formulas.                                                               *)
(***************************************************************************)
LEMMA SameGet ==
  /\ Get!Init <=> GetProofs!Init
  /\ Get!Quiet <=> GetProofs!Quiet
  /\ [Get!Next]_Get!vars <=> [GetProofs!Next]_GetProofs!vars
<1> USE DEF
      Get!vars, Get!hostVars, Get!pipeVars, Get!devVars, Get!Quiet, Get!Packet,
      Get!Transmit, Get!EarlyAck, Get!Receive, Get!Reception, Get!Return,
      Get!ReadMayFail, Get!DevTake, Get!DevSay, Get!EnterCall, Get!MayCall,
      Get!FullSize, Get!Rests, Get!LooksLikeData, GetProofs!vars, GetProofs!hostVars, GetProofs!pipeVars,
      GetProofs!devVars, GetProofs!Quiet, GetProofs!Packet, GetProofs!Transmit,
      GetProofs!EarlyAck, GetProofs!Receive, GetProofs!Reception, GetProofs!Return,
      GetProofs!ReadMayFail, GetProofs!DevTake, GetProofs!DevSay, GetProofs!EnterCall,
      GetProofs!MayCall, GetProofs!FullSize, GetProofs!Rests, GetProofs!LooksLikeData
<1>1. Get!Init <=> GetProofs!Init
  BY DEF
      Get!Init, GetProofs!Init
<1>2. Get!Quiet <=> GetProofs!Quiet
  OBVIOUS
<1>3. Get!CallCannotOpen <=> GetProofs!CallCannotOpen
  BY DEF
      Get!CallCannotOpen, GetProofs!CallCannotOpen
<1>4. Get!CallPathTooLong <=> GetProofs!CallPathTooLong
  BY DEF
      Get!CallPathTooLong, GetProofs!CallPathTooLong
<1>5. Get!Call <=> GetProofs!Call
  BY DEF
      Get!Call, GetProofs!Call
<1>6. Get!Host <=> GetProofs!Host
  BY DEF
      Get!Host, Get!RecvStart, Get!RecvData, Get!RecvDataCannotWrite,
      Get!RecvUnexpected, Get!RecvEnd, Get!RecvFail, Get!RecvSuccess, Get!RecvUnhandled,
      Get!RecvRestAsData, Get!RecvRunt, Get!ReadFails, GetProofs!Host, GetProofs!RecvStart,
      GetProofs!RecvData, GetProofs!RecvDataCannotWrite, GetProofs!RecvUnexpected,
      GetProofs!RecvEnd, GetProofs!RecvFail, GetProofs!RecvSuccess,
      GetProofs!RecvUnhandled, GetProofs!RecvRestAsData, GetProofs!RecvRunt, GetProofs!ReadFails
<1>7. Get!Device <=> GetProofs!Device
  BY DEF
      Get!Device, Get!DevStart, Get!DevNext, Get!DevClose, Get!DevCancel, Get!DevRefuse,
      GetProofs!Device, GetProofs!DevStart, GetProofs!DevNext, GetProofs!DevClose,
      GetProofs!DevCancel, GetProofs!DevRefuse
<1>8. UNCHANGED Get!vars <=> UNCHANGED GetProofs!vars
  OBVIOUS
<1> HIDE DEF
      Get!vars, Get!hostVars, Get!pipeVars, Get!devVars, Get!Quiet, Get!Packet,
      Get!Transmit, Get!EarlyAck, Get!Receive, Get!Reception, Get!Return,
      Get!ReadMayFail, Get!DevTake, Get!DevSay, Get!EnterCall, Get!MayCall,
      Get!FullSize, Get!Rests, Get!LooksLikeData, GetProofs!vars, GetProofs!hostVars, GetProofs!pipeVars,
      GetProofs!devVars, GetProofs!Quiet, GetProofs!Packet, GetProofs!Transmit,
      GetProofs!EarlyAck, GetProofs!Receive, GetProofs!Reception, GetProofs!Return,
      GetProofs!ReadMayFail, GetProofs!DevTake, GetProofs!DevSay, GetProofs!EnterCall,
      GetProofs!MayCall, GetProofs!FullSize, GetProofs!Rests, GetProofs!LooksLikeData
<1> QED
  BY <1>1, <1>2, <1>3, <1>4, <1>5, <1>6, <1>7, <1>8
     DEF Get!Next, GetProofs!Next

LEMMA SamePut ==
  /\ Put!Init <=> PutProofs!Init
  /\ Put!Quiet <=> PutProofs!Quiet
  /\ [Put!Next]_Put!vars <=> [PutProofs!Next]_PutProofs!vars
<1> USE DEF
      Put!vars, Put!hostVars, Put!pipeVars, Put!devVars, Put!Quiet, Put!Packet,
      Put!Transmit, Put!Reply, Put!Return, Put!ReadMayFail, Put!DevTake, Put!DevSay,
      Put!MayCall, Put!StartPacket, Put!DataPacket, Put!DataLength, Put!Even, Put!Kept,
      Put!Available, Put!Reads, Put!Sends, Put!Leaves, Put!Commands, Put!PayloadSize,
      Put!PACKET_HEAD_SIZE, Put!MAXIMUM_PACKET_SIZE, Put!MAX_WRITE, PutProofs!vars,
      PutProofs!hostVars, PutProofs!pipeVars, PutProofs!devVars, PutProofs!Quiet,
      PutProofs!Packet, PutProofs!Transmit, PutProofs!Reply, PutProofs!Return,
      PutProofs!ReadMayFail, PutProofs!DevTake, PutProofs!DevSay, PutProofs!MayCall,
      PutProofs!StartPacket, PutProofs!DataPacket, PutProofs!DataLength, PutProofs!Even,
      PutProofs!Kept, PutProofs!Available, PutProofs!Reads, PutProofs!Sends, PutProofs!Leaves,
      PutProofs!Commands, PutProofs!PayloadSize, PutProofs!PACKET_HEAD_SIZE,
      PutProofs!MAXIMUM_PACKET_SIZE, PutProofs!MAX_WRITE
<1>1. Put!Init <=> PutProofs!Init
  BY DEF
      Put!Init, PutProofs!Init
<1>2. Put!Quiet <=> PutProofs!Quiet
  OBVIOUS
<1>3. Put!CallRefused <=> PutProofs!CallRefused
  BY DEF
      Put!CallRefused, PutProofs!CallRefused
<1>4. Put!Call <=> PutProofs!Call
  BY DEF
      Put!Call, PutProofs!Call
<1>5. Put!Drift <=> PutProofs!Drift
  BY DEF
      Put!Drift, PutProofs!Drift
<1>6. Put!Host <=> PutProofs!Host
  BY DEF
      Put!Host, Put!SendStart, Put!SendData, Put!SendNothing, Put!SendEnd, Put!Finish,
      Put!RecvFail, Put!RecvDamaged, Put!ReadFails, PutProofs!Host, PutProofs!SendStart,
      PutProofs!SendData, PutProofs!SendNothing, PutProofs!SendEnd, PutProofs!Finish,
      PutProofs!RecvFail, PutProofs!RecvDamaged, PutProofs!ReadFails
<1>7. Put!Device <=> PutProofs!Device
  BY DEF
      Put!Device, Put!DevOpen, Put!DevBegin, Put!DevStore, Put!DevClose, Put!DevRefuse,
      Put!DevDiscard, PutProofs!Device, PutProofs!DevOpen, PutProofs!DevBegin,
      PutProofs!DevStore, PutProofs!DevClose, PutProofs!DevRefuse, PutProofs!DevDiscard
<1>8. UNCHANGED Put!vars <=> UNCHANGED PutProofs!vars
  OBVIOUS
<1> HIDE DEF
      Put!vars, Put!hostVars, Put!pipeVars, Put!devVars, Put!Quiet, Put!Packet,
      Put!Transmit, Put!Reply, Put!Return, Put!ReadMayFail, Put!DevTake, Put!DevSay,
      Put!MayCall, Put!StartPacket, Put!DataPacket, Put!DataLength, Put!Even, Put!Kept,
      Put!Available, Put!Reads, Put!Sends, Put!Leaves, Put!Commands, Put!PayloadSize,
      Put!PACKET_HEAD_SIZE, Put!MAXIMUM_PACKET_SIZE, Put!MAX_WRITE, PutProofs!vars,
      PutProofs!hostVars, PutProofs!pipeVars, PutProofs!devVars, PutProofs!Quiet,
      PutProofs!Packet, PutProofs!Transmit, PutProofs!Reply, PutProofs!Return,
      PutProofs!ReadMayFail, PutProofs!DevTake, PutProofs!DevSay, PutProofs!MayCall,
      PutProofs!StartPacket, PutProofs!DataPacket, PutProofs!DataLength, PutProofs!Even,
      PutProofs!Kept, PutProofs!Available, PutProofs!Reads, PutProofs!Sends, PutProofs!Leaves,
      PutProofs!Commands, PutProofs!PayloadSize, PutProofs!PACKET_HEAD_SIZE,
      PutProofs!MAXIMUM_PACKET_SIZE, PutProofs!MAX_WRITE
<1> QED
  BY <1>1, <1>2, <1>3, <1>4, <1>5, <1>6, <1>7, <1>8
     DEF Put!Next, PutProofs!Next

LEMMA SameCmd ==
  /\ Cmd!Init <=> CmdProofs!Init
  /\ Cmd!StaysInStep <=> CmdProofs!StaysInStep
  /\ [Cmd!Next]_Cmd!vars <=> [CmdProofs!Next]_CmdProofs!vars
<1> USE DEF
      Cmd!vars, Cmd!hostVars, Cmd!pipeVars, Cmd!devVars, Cmd!Quiet, Cmd!Packet,
      Cmd!Transmit, Cmd!Remains, Cmd!PathCmds, Cmd!Enter, Cmd!SendCommand, Cmd!Expected,
      Cmd!Take, Cmd!Return, Cmd!ReadMayFail, Cmd!DevTake, Cmd!DevSay,
      Cmd!DevSendEntries, CmdProofs!vars, CmdProofs!hostVars, CmdProofs!pipeVars,
      CmdProofs!devVars, CmdProofs!Quiet, CmdProofs!Packet, CmdProofs!Transmit,
      CmdProofs!Remains, CmdProofs!PathCmds, CmdProofs!Enter, CmdProofs!SendCommand,
      CmdProofs!Expected, CmdProofs!Take, CmdProofs!Return, CmdProofs!ReadMayFail,
      CmdProofs!DevTake, CmdProofs!DevSay, CmdProofs!DevSendEntries
<1>1. Cmd!Init <=> CmdProofs!Init
  BY DEF
      Cmd!Init, CmdProofs!Init
<1>2. Cmd!StaysInStep <=> CmdProofs!StaysInStep
  BY DEF
      Cmd!StaysInStep, CmdProofs!StaysInStep
<1>3. Cmd!Call <=> CmdProofs!Call
  BY DEF
      Cmd!Call, CmdProofs!Call
<1>4. Cmd!CallDir <=> CmdProofs!CallDir
  BY DEF
      Cmd!CallDir, CmdProofs!CallDir
<1>5. Cmd!CallPathTooLong <=> CmdProofs!CallPathTooLong
  BY DEF
      Cmd!CallPathTooLong, CmdProofs!CallPathTooLong
<1>6. Cmd!ReadStatus <=> CmdProofs!ReadStatus
  BY DEF
      Cmd!ReadStatus, CmdProofs!ReadStatus
<1>7. Cmd!Host <=> CmdProofs!Host
  BY DEF
      Cmd!Host, Cmd!AnswerOK, Cmd!AnswerFail, Cmd!AnswerUnhandled, Cmd!AnswerMissing,
      Cmd!ListData, Cmd!ListDamagedData, Cmd!ListEnd, Cmd!ListRefused, Cmd!ListCut,
      CmdProofs!Host, CmdProofs!AnswerOK, CmdProofs!AnswerFail,
      CmdProofs!AnswerUnhandled, CmdProofs!AnswerMissing, CmdProofs!ListData,
      CmdProofs!ListDamagedData, CmdProofs!ListEnd, CmdProofs!ListRefused,
      CmdProofs!ListCut
<1>8. Cmd!Device <=> CmdProofs!Device
  BY DEF
      Cmd!Device, Cmd!DevObey, Cmd!DevList, Cmd!DevListMore, Cmd!DevIgnore,
      Cmd!DevRefuse, CmdProofs!Device, CmdProofs!DevObey, CmdProofs!DevList,
      CmdProofs!DevListMore, CmdProofs!DevIgnore, CmdProofs!DevRefuse
<1>9. UNCHANGED Cmd!vars <=> UNCHANGED CmdProofs!vars
  OBVIOUS
<1> HIDE DEF
      Cmd!vars, Cmd!hostVars, Cmd!pipeVars, Cmd!devVars, Cmd!Quiet, Cmd!Packet,
      Cmd!Transmit, Cmd!Remains, Cmd!PathCmds, Cmd!Enter, Cmd!SendCommand, Cmd!Expected,
      Cmd!Take, Cmd!Return, Cmd!ReadMayFail, Cmd!DevTake, Cmd!DevSay,
      Cmd!DevSendEntries, CmdProofs!vars, CmdProofs!hostVars, CmdProofs!pipeVars,
      CmdProofs!devVars, CmdProofs!Quiet, CmdProofs!Packet, CmdProofs!Transmit,
      CmdProofs!Remains, CmdProofs!PathCmds, CmdProofs!Enter, CmdProofs!SendCommand,
      CmdProofs!Expected, CmdProofs!Take, CmdProofs!Return, CmdProofs!ReadMayFail,
      CmdProofs!DevTake, CmdProofs!DevSay, CmdProofs!DevSendEntries
<1> QED
  BY <1>1, <1>2, <1>3, <1>4, <1>5, <1>6, <1>7, <1>8, <1>9
     DEF Cmd!Next, CmdProofs!Next

(***************************************************************************)
(* Whatever a caller mixes on one handle, no operation finds anything of   *)
(* an earlier one in the link, as long as the link is sound and the caller *)
(* reads puppy_status.                                                     *)
(***************************************************************************)
THEOREM HandlesStayInStep == Spec => []HandleInStep
<1>1. /\ GetProofs!FileGetAssumption /\ GetProofs!FaultsAssumption
      /\ PutProofs!FilePutAssumption /\ PutProofs!FaultsAssumption
      /\ CmdProofs!CommandsAssumption /\ CmdProofs!FaultsAssumption
  BY HandleAssumption
     DEF GetProofs!FileGetAssumption, GetProofs!FaultsAssumption, GetProofs!FaultKinds,
         PutProofs!FilePutAssumption, PutProofs!FaultsAssumption, PutProofs!FaultKinds,
         CmdProofs!CommandsAssumption, CmdProofs!FaultsAssumption, CmdProofs!FaultKinds,
         Cmd!AllCmds, Cmd!PathCmds, CmdProofs!AllCmds, CmdProofs!PathCmds
<1>2. GetProofs!Spec => [](gPc = "idle" => GetProofs!Quiet)
  BY <1>1, HandleAssumption, GetProofs!QuietBetweenCalls
<1>3. PutProofs!Spec => [](pPc = "idle" => PutProofs!Quiet)
  BY <1>1, HandleAssumption, PutProofs!QuietBetweenCalls
<1>4. CmdProofs!Spec => []CmdProofs!StaysInStep
  BY <1>1, CmdProofs!StatusKeepsStep
<1>5. Init => GetProofs!Init /\ PutProofs!Init /\ CmdProofs!Init
  BY SameGet, SamePut, SameCmd DEF Init
<1>6. [Next]_vars => /\ [GetProofs!Next]_GetProofs!vars
                     /\ [PutProofs!Next]_PutProofs!vars
                     /\ [CmdProofs!Next]_CmdProofs!vars
  BY StepOfParts, SameGet, SamePut, SameCmd
<1>7. /\ gPc = "idle" => GetProofs!Quiet
      /\ pPc = "idle" => PutProofs!Quiet
      /\ CmdProofs!StaysInStep
      => HandleInStep
  BY SameGet, SamePut, SameCmd DEF HandleInStep, Idle
<1> QED
  BY <1>2, <1>3, <1>4, <1>5, <1>6, <1>7, PTL
     DEF Spec, GetProofs!Spec, PutProofs!Spec, CmdProofs!Spec

=============================================================================
