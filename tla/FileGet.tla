------------------------------- MODULE FileGet -------------------------------
(***************************************************************************)
(* Fetching a file from the Topfield: puppy_hdd_file_get of libpuppy.c,    *)
(* and do_hdd_file_get of puppy.c, which differs only in what its "out"    *)
(* label skips.  The host's actions are the iterations of the receive      *)
(* loop; the device's are what the loop takes for granted of the other     *)
(* side.  The caller may call again on the same handle, so that what one   *)
(* call leaves in the pipes is what the next one reads.                    *)
(*                                                                         *)
(* The file on the device is the sequence of blocks 1, 2, ..., N, one per  *)
(* DATA_HDD_FILE_DATA packet; block 0 is one that arrived damaged.         *)
(***************************************************************************)
EXTENDS UsbLink

CONSTANTS
  N,          \* number of data packets the file takes
  MaxCalls,   \* bound on the calls made on one handle
  Reuse,      \* TRUE: the caller calls again whatever the last call returned
  Program,    \* "libpuppy" or "puppy": which of the two sources is modelled
  DataLike    \* bound on where payload may look like a data packet: "always",
              \* or only in a call that is "inStep"

ASSUME FileGetAssumption ==
  /\ N \in Nat
  /\ MaxCalls \in Nat
  /\ Reuse \in BOOLEAN
  /\ Program \in {"libpuppy", "puppy"}
  /\ DataLike \in {"always", "inStep"}

VARIABLES
  pc,         \* "idle" outside a call, "loop" in the receive loop
  calls,      \* calls made so far
  state,      \* the enum START, DATA, ABORT
  dst,        \* whole blocks of the destination file
  torn,       \* part of a further block follows them
  modtime,    \* mod_utime_buf: "epoch", "stamp" of the device's file, "junk"
  mtime,      \* modification time of the destination file
  result,     \* "none" before the first return, "ok" (0), "eproto", "errno"
  rest,       \* the rest of a packet cut short is still to be read
  tainted,    \* (history) a block arrived damaged, or a packet unrecognisable
  inSync,     \* (history) this call started with nothing left over, and has
              \* taken the rest of no packet for a packet
  dev,        \* the device: "idle" or "sending" a file
  sent        \* data packets of the file sent; N+1 once the END packet is

hostVars == <<pc, calls, state, dst, torn, modtime, mtime, result, tainted, inSync>>
pipeVars == <<toDev, toHost, rest>>
devVars  == <<dev, sent>>
vars     == <<hostVars, pipeVars, devVars>>

Commands == {"DATA_HDD_FILE_START", "DATA_HDD_FILE_DATA",
             "DATA_HDD_FILE_END", "SUCCESS", "FAIL"}
Packets  == [cmd : Commands, blk : 0..N]
Requests == {"CMD_HDD_FILE_SEND", "SUCCESS", "CANCEL"}

Packet(cmd) == [cmd |-> cmd, blk |-> 0]

Init ==
  /\ toDev = <<>> /\ toHost = <<>> /\ rest = FALSE
  /\ dev = "idle" /\ sent = 0
  /\ pc = "idle" /\ calls = 0 /\ state = "START"
  /\ dst = <<>> /\ torn = FALSE /\ modtime = "epoch" /\ mtime = "now"
  /\ result = "none" /\ tainted = FALSE /\ inSync = TRUE

-----------------------------------------------------------------------------
(***************************************************************************)
(* The call and its return.                                                *)
(***************************************************************************)

(* The destination holds as many bytes as the device's file. *)
FullSize == Len(dst) = N /\ ~torn

(***************************************************************************)
(* Nothing in the link can still turn into a packet for the host: all that *)
(* may be under way is a SUCCESS that ends the device's transfer.          *)
(***************************************************************************)
Quiet ==
  /\ toHost = <<>> /\ ~rest
  /\ \/ toDev = <<>>
     \/ toDev = <<"SUCCESS">> /\ (dev = "idle" \/ sent = N + 1)

(***************************************************************************)
(* puppy-get, the library's own client, goes on to the next file only      *)
(* after a return of 0 and a destination of the expected size.             *)
(***************************************************************************)
MayCall == Reuse \/ result = "none" \/ (result = "ok" /\ FullSize)

(* Slip: the count r of the last read is returned in place of result. *)
ReturnCount(res, viaGoto) ==
  /\ pc' = "idle" /\ result' = "count"
  /\ mtime' = IF Program = "puppy" /\ viaGoto THEN mtime ELSE modtime

(* Slip: libpuppy.c has its label after utime(), as puppy.c does. *)
ReturnPastUtime(res, viaGoto) ==
  /\ pc' = "idle" /\ result' = res
  /\ mtime' = IF viaGoto THEN mtime ELSE modtime

(***************************************************************************)
(* Leaving the call.  In libpuppy.c the label "out" stands before utime(), *)
(* so every way out sets the file's time; in puppy.c it stands after it,   *)
(* and only a failed read (the loop's own condition) reaches utime().      *)
(***************************************************************************)
Return(res, viaGoto) ==
  /\ pc' = "idle"
  /\ result' = res
  /\ mtime' = IF Program = "puppy" /\ viaGoto THEN mtime ELSE modtime

(* open64(O_TRUNC) fails: errno is returned and no packet is sent. *)
CallCannotOpen ==
  /\ pc = "idle" /\ calls < MaxCalls /\ MayCall
  /\ "local" \in Faults
  /\ calls' = calls + 1
  /\ result' = "errno"
  /\ UNCHANGED <<pc, state, dst, torn, modtime, mtime, tainted, inSync>>
  /\ UNCHANGED <<pipeVars, devVars>>

(* Slip: the destination is opened to append, without O_TRUNC. *)
EnterCallAppending ==
  /\ pc = "idle" /\ calls < MaxCalls /\ MayCall
  /\ calls' = calls + 1
  /\ torn' = FALSE /\ tainted' = FALSE
  /\ inSync' = Quiet
  /\ UNCHANGED <<dst, toHost, rest, devVars>>

(* The destination is truncated before the command is even built. *)
EnterCall ==
  /\ pc = "idle" /\ calls < MaxCalls /\ MayCall
  /\ calls' = calls + 1
  /\ dst' = <<>> /\ torn' = FALSE /\ tainted' = FALSE
  /\ inSync' = Quiet
  /\ UNCHANGED <<toHost, rest, devVars>>

CallPathTooLong ==
  /\ "local" \in Faults
  /\ EnterCall
  /\ modtime' = "epoch"
  /\ pc' = "idle" /\ result' = "eproto"
  /\ mtime' = IF Program = "puppy" THEN "now" ELSE "epoch"
  /\ UNCHANGED <<state, toDev>>

Call ==
  /\ EnterCall
  /\ modtime' = "epoch" /\ mtime' = "now"
  /\ pc' = "loop" /\ state' = "START"
  /\ \E c \in Transmit("CMD_HDD_FILE_SEND") : toDev' = toDev \o c
  /\ UNCHANGED result

-----------------------------------------------------------------------------
(***************************************************************************)
(* get_tf_packet: the next packet of the pipe is taken and, when it is a   *)
(* data packet, acknowledged at once.  A data packet that arrives damaged  *)
(* (intact = FALSE) may leave its rest in the endpoint, which the next     *)
(* read returns as a packet of its own; so may one of a listing.  The      *)
(* others fit in one chunk, and SUCCESS and END are a bare head: they are  *)
(* whole or not recognised.                                                *)
(***************************************************************************)
Rests(cmd) == IF cmd \in {"DATA_HDD_FILE_DATA", "DATA_HDD_DIR"} THEN BOOLEAN ELSE {FALSE}

Receive(cmd, intact) ==
  /\ pc = "loop" /\ ~rest
  /\ toHost # <<>> /\ Head(toHost).cmd = cmd
  /\ toHost' = Tail(toHost)
  /\ rest' \in (IF intact THEN {FALSE} ELSE Rests(cmd))
  /\ UNCHANGED <<calls, inSync, devVars>>

(* Slip: the START handler forgets to ask for the first block. *)
RecvStartUnanswered ==
  \E intact \in Reception :
    /\ Receive("DATA_HDD_FILE_START", intact)
    /\ state = "START"
    /\ modtime' = IF intact THEN "stamp" ELSE "junk"
    /\ state' = "DATA"
    /\ UNCHANGED <<pc, dst, torn, mtime, result, tainted, toDev>>

RecvStart ==
  \E intact \in Reception, a \in Transmit("SUCCESS") :
    /\ Receive("DATA_HDD_FILE_START", intact)
    /\ state = "START"
    /\ modtime' = IF intact THEN "stamp" ELSE "junk"
    /\ toDev' = toDev \o a
    /\ state' = "DATA"
    /\ UNCHANGED <<pc, dst, torn, mtime, result, tainted>>

(* Slip: the DATA handler acknowledges what get_tf_packet acknowledged. *)
RecvDataTwiceAcked ==
  \E intact \in Reception, a, b \in EarlyAck("DATA_HDD_FILE_DATA") :
    /\ Receive("DATA_HDD_FILE_DATA", intact)
    /\ state = "DATA"
    /\ dst' = Append(dst, IF intact THEN Head(toHost).blk ELSE 0)
    /\ tainted' = (tainted \/ ~intact)
    /\ toDev' = toDev \o a \o b
    /\ mtime' = "now"
    /\ UNCHANGED <<pc, state, torn, modtime, result>>

(* A data packet whose payload write() takes in full. *)
RecvData ==
  \E intact \in Reception, a \in EarlyAck("DATA_HDD_FILE_DATA") :
    /\ Receive("DATA_HDD_FILE_DATA", intact)
    /\ state = "DATA"
    /\ dst' = Append(dst, IF intact THEN Head(toHost).blk ELSE 0)
    /\ tainted' = (tainted \/ ~intact)
    /\ toDev' = toDev \o a
    /\ mtime' = "now"
    /\ UNCHANGED <<pc, state, torn, modtime, result>>

(* Slip: a failed write is reported and the transfer goes on. *)
RecvDataWriteIgnored ==
  \E intact \in Reception, a \in EarlyAck("DATA_HDD_FILE_DATA") :
    /\ "disk" \in Faults
    /\ Receive("DATA_HDD_FILE_DATA", intact)
    /\ state = "DATA"
    /\ torn' \in BOOLEAN
    /\ toDev' = toDev \o a
    /\ mtime' = "now"
    /\ UNCHANGED <<pc, state, dst, modtime, result, tainted>>

(* A data packet that was acknowledged and then cannot be stored. *)
RecvDataCannotWrite ==
  \E intact \in Reception, a \in EarlyAck("DATA_HDD_FILE_DATA"),
     c \in Transmit("CANCEL") :
    /\ "disk" \in Faults
    /\ Receive("DATA_HDD_FILE_DATA", intact)
    /\ state = "DATA"
    /\ torn' \in BOOLEAN
    /\ toDev' = toDev \o a \o c
    /\ state' = "ABORT"
    /\ mtime' = "now"
    /\ UNCHANGED <<pc, dst, modtime, result, tainted>>

(* START out of place, or DATA before START or after an abort. *)
RecvUnexpected ==
  \E cmd \in {"DATA_HDD_FILE_START", "DATA_HDD_FILE_DATA"}, intact \in Reception :
    \E a \in EarlyAck(cmd), c \in Transmit("CANCEL") :
      /\ Receive(cmd, intact)
      /\ state # (IF cmd = "DATA_HDD_FILE_START" THEN "START" ELSE "DATA")
      /\ toDev' = toDev \o a \o c
      /\ state' = "ABORT"
      /\ UNCHANGED <<pc, dst, torn, modtime, mtime, result, tainted>>

(* Slip: END is answered with CANCEL, which the device answers in turn. *)
RecvEndCancelled ==
  \E c \in Transmit("CANCEL") :
    /\ Receive("DATA_HDD_FILE_END", TRUE)
    /\ toDev' = toDev \o c
    /\ Return("ok", TRUE)
    /\ UNCHANGED <<state, dst, torn, modtime, tainted>>

(* The END packet ends the call with 0, in whatever state it finds it. *)
RecvEnd ==
  \E a \in Transmit("SUCCESS") :
    /\ Receive("DATA_HDD_FILE_END", TRUE)
    /\ toDev' = toDev \o a
    /\ Return("ok", TRUE)
    /\ UNCHANGED <<state, dst, torn, modtime, tainted>>

(* Slip: the call returns with the answer to its CANCEL unread. *)
RecvFailReturns ==
  \E intact \in Reception, c \in Transmit("CANCEL") :
    /\ Receive("FAIL", intact)
    /\ toDev' = toDev \o c
    /\ state' = "ABORT"
    /\ Return("eproto", TRUE)
    /\ UNCHANGED <<dst, torn, modtime, tainted>>

RecvFail ==
  \E intact \in Reception, c \in Transmit("CANCEL") :
    /\ Receive("FAIL", intact)
    /\ toDev' = toDev \o c
    /\ state' = "ABORT"
    /\ UNCHANGED <<pc, dst, torn, modtime, mtime, result, tainted>>

(* Slip: SUCCESS is taken for the end of the transfer. *)
RecvSuccessAccepted ==
  /\ Receive("SUCCESS", TRUE)
  /\ Return("ok", TRUE)
  /\ UNCHANGED <<state, dst, torn, modtime, tainted, toDev>>

(* SUCCESS is what a cancelled transfer is answered with. *)
RecvSuccess ==
  /\ Receive("SUCCESS", TRUE)
  /\ Return("eproto", TRUE)
  /\ UNCHANGED <<state, dst, torn, modtime, tainted, toDev>>

(***************************************************************************)
(* The default branch prints and waits for the next packet.  It is reached *)
(* by a packet whose command was altered on the way, and by the rest of a  *)
(* packet that was cut short, whose first bytes are payload.               *)
(***************************************************************************)
RecvUnhandled ==
  /\ pc = "loop"
  /\ \/ rest /\ UNCHANGED <<toHost, tainted>>
     \/ /\ ~rest /\ "damage" \in Faults /\ toHost # <<>>
        /\ toHost' = Tail(toHost) /\ tainted' = TRUE
  /\ rest' = FALSE
  /\ UNCHANGED <<pc, calls, state, dst, torn, modtime, mtime, result, inSync>>
  /\ UNCHANGED <<toDev, devVars>>

(***************************************************************************)
(* The payload in the rest of a packet looks like the head of a data       *)
(* packet: it is acknowledged, and its like is written to the destination. *)
(* (Like an altered command, it never passes for another packet.)          *)
(***************************************************************************)
LooksLikeData == DataLike = "always" \/ inSync

RecvRestAsData ==
  \E a \in EarlyAck("DATA_HDD_FILE_DATA"), c \in Transmit("CANCEL") :
    /\ pc = "loop" /\ rest /\ rest' = FALSE /\ LooksLikeData
    /\ tainted' = TRUE /\ inSync' = FALSE
    /\ \/ /\ state = "DATA" /\ UNCHANGED <<state, torn>>
          /\ dst' = Append(dst, 0) /\ mtime' = "now"
          /\ toDev' = toDev \o a
       \/ /\ state = "DATA" /\ "disk" \in Faults
          /\ torn' \in BOOLEAN /\ mtime' = "now"
          /\ toDev' = toDev \o a \o c /\ state' = "ABORT" /\ UNCHANGED dst
       \/ /\ state # "DATA" /\ UNCHANGED <<dst, torn, mtime>>
          /\ toDev' = toDev \o a \o c /\ state' = "ABORT"
    /\ UNCHANGED <<pc, calls, modtime, result, toHost, devVars>>

(***************************************************************************)
(* get_tf_packet gives up on a packet, or on the rest of one: less than a  *)
(* head came out of the pipe, or the length in the head is less than that  *)
(* of a head.  What looks like data has been acknowledged by then, if it   *)
(* is of the second kind.                                                  *)
(***************************************************************************)
RecvRunt ==
  /\ pc = "loop" /\ "damage" \in Faults
  /\ \/ /\ rest /\ rest' = FALSE /\ UNCHANGED toHost
        /\ \/ UNCHANGED toDev
           \/ LooksLikeData /\ \E a \in EarlyAck("DATA_HDD_FILE_DATA") : toDev' = toDev \o a
     \/ /\ ~rest /\ toHost # <<>>
        /\ toHost' = Tail(toHost) /\ rest' \in Rests(Head(toHost).cmd)
        /\ \E a \in {<<>>} \cup EarlyAck(Head(toHost).cmd) : toDev' = toDev \o a
  /\ Return("eproto", FALSE)
  /\ UNCHANGED <<calls, state, dst, torn, modtime, tainted, inSync, devVars>>

(* Slip: a read that failed is tried again. *)
ReadFailsRetried ==
  /\ pc = "loop" /\ ReadMayFail
  /\ UNCHANGED vars

(* get_tf_packet returns -1: nothing came in time, or the read failed. *)
ReadFails ==
  /\ pc = "loop" /\ ReadMayFail
  /\ ~rest \/ "read" \in Faults
  /\ Return("eproto", FALSE)
  /\ UNCHANGED <<calls, state, dst, torn, modtime, tainted, inSync>>
  /\ UNCHANGED <<pipeVars, devVars>>

-----------------------------------------------------------------------------
(***************************************************************************)
(* The device, as the receive loop expects it to behave.                   *)
(***************************************************************************)
DevTake(req) ==
  /\ toDev # <<>> /\ Head(toDev) = req
  /\ toDev' = Tail(toDev)
  /\ UNCHANGED <<hostVars, rest>>

DevSay(packet) == toHost' = Append(toHost, packet)

DevStart ==
  /\ DevTake("CMD_HDD_FILE_SEND")
  /\ DevSay(Packet("DATA_HDD_FILE_START"))
  /\ dev' = "sending" /\ sent' = 0

(* SUCCESS asks for the next packet: a block, or END after the last one. *)
DevNext ==
  /\ DevTake("SUCCESS")
  /\ dev = "sending" /\ sent <= N
  /\ DevSay(IF sent < N THEN [cmd |-> "DATA_HDD_FILE_DATA", blk |-> sent + 1]
                        ELSE Packet("DATA_HDD_FILE_END"))
  /\ sent' = sent + 1
  /\ UNCHANGED dev

(* SUCCESS for END closes the transfer; an idle device ignores SUCCESS. *)
DevClose ==
  /\ DevTake("SUCCESS")
  /\ dev = "idle" \/ sent = N + 1
  /\ dev' = "idle"
  /\ UNCHANGED <<sent, toHost>>

DevCancel ==
  /\ DevTake("CANCEL")
  /\ DevSay(Packet("SUCCESS"))
  /\ dev' = "idle"
  /\ UNCHANGED sent

DevRefuse ==
  /\ "refuse" \in Faults
  /\ \/ DevTake("CMD_HDD_FILE_SEND")
     \/ DevTake("SUCCESS") /\ dev = "sending" /\ sent <= N
  /\ DevSay(Packet("FAIL"))
  /\ dev' = "idle"
  /\ UNCHANGED sent

-----------------------------------------------------------------------------
Host ==
  \/ RecvStart \/ RecvData \/ RecvDataCannotWrite \/ RecvUnexpected
  \/ RecvEnd \/ RecvFail \/ RecvSuccess
  \/ RecvUnhandled \/ RecvRestAsData \/ RecvRunt \/ ReadFails

Device == DevStart \/ DevNext \/ DevClose \/ DevCancel \/ DevRefuse

Next == CallCannotOpen \/ CallPathTooLong \/ Call \/ Host \/ Device

Spec == Init /\ [][Next]_vars

(***************************************************************************)
(* A process in the loop keeps running, and each of its reads returns: the *)
(* kernel bounds it by TF_PROTOCOL_TIMEOUT.  The device is assumed to      *)
(* answer what reaches it.  Nothing obliges a caller to call.              *)
(***************************************************************************)
Fairness == WF_vars(Host) /\ WF_vars(Device)

FairSpec == Spec /\ Fairness

-----------------------------------------------------------------------------
(***************************************************************************)
(* Properties.                                                             *)
(***************************************************************************)

File == [i \in 1..N |-> i]

(* Every variable holds what the code can put in it. *)
LinkTypeOK ==
  /\ toDev \in Seq(Requests) /\ toHost \in Seq(Packets)
  /\ dev \in {"idle", "sending"} /\ sent \in 0..(N + 1)

HostTypeOK ==
  /\ pc \in {"idle", "loop"}
  /\ calls \in 0..MaxCalls
  /\ state \in {"START", "DATA", "ABORT"}
  /\ dst \in Seq(0..N)
  /\ modtime \in {"epoch", "stamp", "junk"}
  /\ mtime \in {"now", "epoch", "stamp", "junk"}
  /\ result \in {"none", "ok", "eproto", "errno"}

FlagsTypeOK == {rest, torn, tainted, inSync} \subseteq BOOLEAN

TypeOK == LinkTypeOK /\ HostTypeOK /\ FlagsTypeOK

Returned(res) == pc = "idle" /\ result = res

(***************************************************************************)
(* Flow control: in a call that began with clean pipes and has not been    *)
(* aborted, one packet at most is under way in the two pipes together (an  *)
(* acknowledgement left by the last call apart), so that the early SUCCESS *)
(* of get_tf_packet never lets the device overrun the host.                *)
(***************************************************************************)
Lockstep ==
  pc = "loop" /\ inSync /\ state # "ABORT" =>
    \/ Len(toHost) + Len(toDev) <= 1
    \/ toDev = <<"SUCCESS", "CMD_HDD_FILE_SEND">> /\ toHost = <<>>

(***************************************************************************)
(* A return of 0 by a call that began with clean pipes and was not aborted *)
(* means that the destination is the device's file, block for block,       *)
(* unless a block arrived damaged.                                         *)
(***************************************************************************)
SuccessfulCopy ==
  Returned("ok") /\ inSync /\ state # "ABORT" /\ ~tainted => dst = File /\ ~torn

(***************************************************************************)
(* What puppy-get relies on: a return of 0 and a destination of the right  *)
(* size are enough, even for a caller that retries on a handle where       *)
(* packets of earlier, failed calls are still coming in, as long as no     *)
(* packet arrives damaged beyond recognition or with damaged payload.      *)
(***************************************************************************)
SizeCheckSuffices == Returned("ok") /\ FullSize /\ ~tainted => dst = File

(***************************************************************************)
(* A call that aborts and still returns 0 (END overtakes the answer to the *)
(* CANCEL) never leaves a destination of full size: the caller can tell.   *)
(***************************************************************************)
AbortDetectable == Returned("ok") /\ inSync /\ state = "ABORT" => ~FullSize

(***************************************************************************)
(* After a clean success nothing is left that a later call could mistake   *)
(* for an answer to its own command.                                       *)
(***************************************************************************)
SuccessLeavesQuiet == Returned("ok") /\ inSync /\ state # "ABORT" => Quiet

(***************************************************************************)
(* libpuppy gives a fetched file the time the device had for it.           *)
(***************************************************************************)
TimestampKept ==
  Program = "libpuppy" /\ Returned("ok") /\ inSync /\ state # "ABORT"
    => mtime \in {"stamp", "junk"}

(***************************************************************************)
(* libpuppy.c:796 says of a failed write "Can't write data - abort         *)
(* transfer": an aborted call should not report success.                   *)
(***************************************************************************)
AbortedNeverSucceeds == Returned("ok") => state # "ABORT"

(* Every call returns, whatever becomes of the packets. *)
CallReturns == pc = "loop" ~> pc = "idle"

(***************************************************************************)
(* With a device that answers in time and a link that loses nothing, every *)
(* call ends in a whole copy, or as a refusal that has been cancelled and  *)
(* the answer to the CANCEL read.                                          *)
(***************************************************************************)
WholeCopy ==
  pc = "loop" ~> \/ Returned("ok") /\ dst = File
                 \/ Returned("eproto") /\ state = "ABORT" /\ Quiet

(***************************************************************************)
(* As long as nothing is damaged and every write succeeds, a caller that   *)
(* goes on only after a success sees what FileCopy promises.               *)
(***************************************************************************)
Phase ==
  IF pc = "loop" THEN "copying"
  ELSE CASE result = "none" -> "none"
         [] result = "ok" -> "succeeded"
         [] OTHER -> "failed"

Abstract == INSTANCE FileCopy WITH phase <- Phase, copy <- dst

FileCopySafety == Abstract!CopySafety

FileCopySpec == Abstract!CopySpec

==============================================================================
