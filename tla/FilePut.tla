------------------------------- MODULE FilePut -------------------------------
(***************************************************************************)
(* Storing a file on the Topfield: puppy_hdd_file_put of libpuppy.c, which *)
(* do_hdd_file_put of puppy.c repeats line by line.  The host sends one    *)
(* packet for each SUCCESS it receives; the numbers are the real ones, in  *)
(* bytes, because what can go wrong here is arithmetic: where a chunk ends *)
(* when its packet would be a multiple of 512 bytes long, which count of   *)
(* bytes passes for a complete send, and when the end of the file is seen  *)
(* while the file on the local disk grows or shrinks.                      *)
(***************************************************************************)
EXTENDS UsbLink, Naturals

CONSTANTS
  FileSizes,  \* sizes the local file may have when the call looks at it
  LaterSizes, \* sizes it may come to have while it is being sent
  ShortReads, \* what a read() that finds more may stop at (fault "disk")
  MaxCalls,   \* bound on the calls made on one handle
  Reuse       \* TRUE: the caller calls again whatever the last call returned

ASSUME FilePutAssumption ==
  /\ FileSizes \subseteq Nat
  /\ LaterSizes \subseteq Nat
  /\ ShortReads \subseteq Nat \ {0}
  /\ MaxCalls \in Nat
  /\ Reuse \in BOOLEAN

PACKET_HEAD_SIZE == 8
MAXIMUM_PACKET_SIZE == 65535
MAX_WRITE == 4096

VARIABLES
  pc,         \* "idle" outside a call, "loop" in the loop on replies
  calls,      \* calls made so far
  state,      \* the enum START, DATA, END, FINISHED
  fileSize,   \* st_size when the call began
  actual,     \* the size of the local file now
  pos,        \* the read offset of src
  byteCount,  \* bytes read and packed so far
  result,     \* "none" before the first return, "ok" (0), "eproto", "errno"
  inSync,     \* (history) this call started with nothing left over
  dev,        \* the device: "idle", "opening" or "storing" a file
  stored,     \* bytes of the file it has, all contiguous
  whole       \* FALSE when it was given a packet that does not continue them

hostVars == <<pc, calls, state, fileSize, actual, pos, byteCount, result, inSync>>
pipeVars == <<toDev, toHost>>
devVars  == <<dev, stored, whole>>
vars     == <<hostVars, pipeVars, devVars>>

-----------------------------------------------------------------------------
(***************************************************************************)
(* Packet lengths.                                                         *)
(***************************************************************************)

(* send_tf_packet sends an even number of bytes: (length + 1) & ~1. *)
Even(n) == 2 * ((n + 1) \div 2)

(* The head, the offset and w bytes of the file. *)
DataLength(w) == PACKET_HEAD_SIZE + 8 + w

PayloadSize == (MAXIMUM_PACKET_SIZE - PACKET_HEAD_SIZE) - 9

(* Slip: the length is tested as it is, before it is made even. *)
KeptOdd(w) == IF w > 4 /\ DataLength(w) % 512 = 0 THEN w - 4 ELSE w

(* How much of the w bytes read is sent: four bytes are put back when the *)
(* packet would otherwise be a multiple of 512 bytes long.                *)
Kept(w) == IF w > 4 /\ Even(DataLength(w)) % 512 = 0 THEN w - 4 ELSE w

(***************************************************************************)
(* The number r of bytes that leave when n should: all of them, or, when a *)
(* USBDEVFS_BULK fails, the whole chunks of MAX_WRITE before it, if any.   *)
(***************************************************************************)
Sends(n) ==
  {n} \cup (IF "send" \in Faults
            THEN {MAX_WRITE * k : k \in 0..((n - 1) \div MAX_WRITE)} ELSE {})

Commands == {"CMD_HDD_FILE_SEND", "DATA_HDD_FILE_START", "DATA_HDD_FILE_DATA",
             "DATA_HDD_FILE_END"}

Packet(cmd, length, off, w) ==
  [cmd |-> cmd, length |-> length, off |-> off, bytes |-> w, complete |-> TRUE]

(* A packet of which nothing leaves never reaches the device. *)
Leaves(packet, r) ==
  IF r = 0 THEN <<>> ELSE <<[packet EXCEPT !.complete = (r = Even(packet.length))]>>

-----------------------------------------------------------------------------
Init ==
  /\ toDev = <<>> /\ toHost = <<>>
  /\ dev = "idle" /\ stored = 0 /\ whole = TRUE
  /\ pc = "idle" /\ calls = 0 /\ state = "START"
  /\ fileSize = 0 /\ actual = 0 /\ pos = 0 /\ byteCount = 0
  /\ result = "none" /\ inSync = TRUE

Quiet == toHost = <<>> /\ toDev = <<>>

MayCall == Reuse \/ result \in {"none", "ok"}

(* Slip: the count r of the last send is returned in place of result. *)
ReturnCount(res) == pc' = "idle" /\ result' = "count"

Return(res) == pc' = "idle" /\ result' = res

(* open64 or fstat64 fails, or the file is empty (-ENODATA), or the path *)
(* does not fit in a packet: nothing is sent.                            *)
CallRefused ==
  /\ pc = "idle" /\ calls < MaxCalls /\ MayCall
  /\ "local" \in Faults
  /\ calls' = calls + 1
  /\ \E res \in {"errno", "eproto"} : Return(res)
  /\ UNCHANGED <<state, fileSize, actual, pos, byteCount, inSync, pipeVars, devVars>>

Call ==
  /\ pc = "idle" /\ calls < MaxCalls /\ MayCall
  /\ calls' = calls + 1
  /\ fileSize' \in FileSizes \ {0} /\ actual' = fileSize'
  /\ pos' = 0 /\ byteCount' = 0
  /\ pc' = "loop" /\ state' = "START"
  /\ inSync' = Quiet
  /\ \E c \in Transmit(Packet("CMD_HDD_FILE_SEND", 16, 0, 0)) : toDev' = toDev \o c
  /\ UNCHANGED <<result, toHost, devVars>>

(* Somebody appends to the file, or truncates it, once in a call. *)
Drift ==
  /\ pc = "loop" /\ actual = fileSize
  /\ actual' \in LaterSizes
  /\ UNCHANGED <<pc, calls, state, fileSize, pos, byteCount, result, inSync>>
  /\ UNCHANGED <<pipeVars, devVars>>

-----------------------------------------------------------------------------
(***************************************************************************)
(* The loop: get_tf_packet, then the branch for the reply and the state.   *)
(***************************************************************************)
Reply(cmd) ==
  /\ pc = "loop"
  /\ toHost # <<>> /\ Head(toHost) = cmd
  /\ toHost' = Tail(toHost)
  /\ UNCHANGED <<calls, fileSize, actual, inSync, devVars>>

StartPacket == Packet("DATA_HDD_FILE_START", PACKET_HEAD_SIZE + 114, 0, 0)

(* Slip: the first answer is met with START and with what follows it. *)
SendStartAndEnd ==
  /\ Reply("SUCCESS") /\ state = "START" /\ state' = "DATA"
  /\ toDev' = toDev \o <<StartPacket, StartPacket>>
  /\ UNCHANGED <<pc, pos, byteCount, result>>

(* A failed send shows r = 0, which the test r < 0 does not catch. *)
SendStart ==
  /\ Reply("SUCCESS") /\ state = "START" /\ state' = "DATA"
  /\ \E p \in Transmit(StartPacket) : toDev' = toDev \o p
  /\ UNCHANGED <<pc, pos, byteCount, result>>

(* What there is for read(src) at the offset: 0 at the end of the file. *)
Available ==
  IF pos >= actual THEN 0
  ELSE IF actual - pos < PayloadSize THEN actual - pos ELSE PayloadSize

(* What read(src) returns, an error apart: all that is asked for, or less. *)
Reads ==
  {Available} \cup (IF "disk" \in Faults THEN {n \in ShortReads : n < Available} ELSE {})

DataPacket(w) == Packet("DATA_HDD_FILE_DATA", DataLength(w), byteCount, w)

(* Slip: byteCount counts what was read, the bytes put back included. *)
SendDataCountedTwice ==
  \E got \in Reads : LET w == Kept(got) IN
  /\ Reply("SUCCESS") /\ state = "DATA"
  /\ Available > 0
  /\ pos' = pos + w /\ byteCount' = byteCount + got
  /\ state' = IF byteCount' >= fileSize THEN "END" ELSE "DATA"
  /\ \E r \in Sends(Even(DataLength(w))) :
       /\ toDev' = toDev \o Leaves(DataPacket(w), r)
       /\ IF r < w THEN Return("eproto") ELSE UNCHANGED <<pc, result>>

(* Slip: the end of the file is only seen beyond it. *)
SendDataPastEnd ==
  \E got \in Reads : LET w == Kept(got) IN
  /\ Reply("SUCCESS") /\ state = "DATA"
  /\ Available > 0
  /\ pos' = pos + w /\ byteCount' = byteCount + w
  /\ state' = IF byteCount' > fileSize THEN "END" ELSE "DATA"
  /\ toDev' = Append(toDev, DataPacket(w))
  /\ UNCHANGED <<pc, result>>

(***************************************************************************)
(* The test r < w compares the bytes that left, head and offset included,  *)
(* with the payload alone: a packet that lost its last 16 bytes or fewer   *)
(* passes for sent, and only the device's silence gives it away.           *)
(***************************************************************************)
SendData ==
  \E got \in Reads : LET w == Kept(got) IN
  /\ Reply("SUCCESS") /\ state = "DATA"
  /\ Available > 0
  /\ pos' = pos + w /\ byteCount' = byteCount + w
  /\ state' = IF byteCount' >= fileSize THEN "END" ELSE "DATA"
  /\ \E r \in Sends(Even(DataLength(w))) :
       /\ toDev' = toDev \o Leaves(DataPacket(w), r)
       /\ IF r < w THEN Return("eproto") ELSE UNCHANGED <<pc, result>>

(***************************************************************************)
(* read() finds nothing (the file has shrunk) or fails: nothing is sent    *)
(* and the loop waits for an answer to it.  An error (w is -1, which also  *)
(* takes one from byteCount, used from then on only for the statistics)    *)
(* counts as the end of the file.                                          *)
(***************************************************************************)
SendNothing ==
  /\ Reply("SUCCESS") /\ state = "DATA"
  /\ \/ Available = 0 /\ state' = "DATA"
     \/ "disk" \in Faults /\ state' = "END"
  /\ UNCHANGED <<pc, pos, byteCount, result, toDev>>

SendEnd ==
  /\ Reply("SUCCESS") /\ state = "END" /\ state' = "FINISHED"
  /\ \E p \in Transmit(Packet("DATA_HDD_FILE_END", PACKET_HEAD_SIZE, 0, 0)) :
       toDev' = toDev \o p
  /\ UNCHANGED <<pc, pos, byteCount, result>>

Finish ==
  /\ Reply("SUCCESS") /\ state = "FINISHED"
  /\ Return("ok")
  /\ UNCHANGED <<state, pos, byteCount, toDev>>

(* No CANCEL is sent: the device is left to forget the transfer. *)
RecvFail ==
  /\ Reply("FAIL")
  /\ Return("eproto")
  /\ UNCHANGED <<state, pos, byteCount, toDev>>

(* An answer that cannot be recognised is skipped, one cut short of its *)
(* head ends the call.                                                  *)
RecvDamaged ==
  /\ pc = "loop"
  /\ "damage" \in Faults /\ toHost # <<>>
  /\ toHost' = Tail(toHost)
  /\ UNCHANGED <<pc, result>> \/ Return("eproto")
  /\ UNCHANGED <<calls, state, fileSize, actual, pos, byteCount, inSync, toDev, devVars>>

(* Slip: a read that failed is tried again. *)
ReadFailsRetried == pc = "loop" /\ ReadMayFail /\ UNCHANGED vars

(* get_tf_packet returns -1: nothing came in time, or the read failed. *)
ReadFails ==
  /\ pc = "loop" /\ ReadMayFail
  /\ Return("eproto")
  /\ UNCHANGED <<calls, state, fileSize, actual, pos, byteCount, inSync, pipeVars, devVars>>

-----------------------------------------------------------------------------
(***************************************************************************)
(* The device, as the loop expects it to behave: it takes a packet that    *)
(* continues its file, and refuses one that it does not expect.            *)
(***************************************************************************)
DevTake(cmd) ==
  /\ toDev # <<>> /\ Head(toDev).cmd = cmd /\ Head(toDev).complete
  /\ toDev' = Tail(toDev)
  /\ UNCHANGED hostVars

DevSay(answer) == toHost' = Append(toHost, answer)

DevOpen ==
  /\ DevTake("CMD_HDD_FILE_SEND")
  /\ DevSay("SUCCESS") /\ dev' = "opening"
  /\ UNCHANGED <<stored, whole>>

DevBegin ==
  /\ DevTake("DATA_HDD_FILE_START") /\ dev = "opening"
  /\ DevSay("SUCCESS") /\ dev' = "storing"
  /\ stored' = 0 /\ whole' = TRUE

DevStore ==
  /\ DevTake("DATA_HDD_FILE_DATA") /\ dev = "storing"
  /\ DevSay("SUCCESS")
  /\ whole' = (whole /\ Head(toDev).off = stored)
  /\ stored' = stored + Head(toDev).bytes
  /\ UNCHANGED dev

DevClose ==
  /\ DevTake("DATA_HDD_FILE_END") /\ dev = "storing"
  /\ DevSay("SUCCESS") /\ dev' = "idle"
  /\ UNCHANGED <<stored, whole>>

(* Out of place, or (fault "refuse") for a reason of the device's own. *)
DevRefuse ==
  /\ \E cmd \in Commands :
       /\ DevTake(cmd)
       /\ \/ "refuse" \in Faults
          \/ cmd = "DATA_HDD_FILE_START" /\ dev # "opening"
          \/ cmd \in {"DATA_HDD_FILE_DATA", "DATA_HDD_FILE_END"} /\ dev # "storing"
  /\ DevSay("FAIL") /\ dev' = "idle"
  /\ UNCHANGED <<stored, whole>>

(* The rest of a packet that lost its end never comes: no answer. *)
DevDiscard ==
  /\ toDev # <<>> /\ ~Head(toDev).complete
  /\ toDev' = Tail(toDev)
  /\ UNCHANGED <<hostVars, toHost, devVars>>

-----------------------------------------------------------------------------
Host ==
  \/ SendStart \/ SendData \/ SendNothing \/ SendEnd \/ Finish
  \/ RecvFail \/ RecvDamaged \/ ReadFails

Device == DevOpen \/ DevBegin \/ DevStore \/ DevClose \/ DevRefuse \/ DevDiscard

Next == CallRefused \/ Call \/ Drift \/ Host \/ Device

Spec == Init /\ [][Next]_vars

(* As in FileGet: reads return within TF_PROTOCOL_TIMEOUT, the device *)
(* deals with what reaches it, and nobody has to call.                *)
Fairness == WF_vars(Host) /\ WF_vars(Device)

FairSpec == Spec /\ Fairness

-----------------------------------------------------------------------------
(***************************************************************************)
(* Properties.                                                             *)
(***************************************************************************)
Packets ==
  [cmd : Commands, length : 0..MAXIMUM_PACKET_SIZE, off : Nat, bytes : Nat,
   complete : BOOLEAN]

LinkTypeOK ==
  /\ toDev \in Seq(Packets) /\ toHost \in Seq({"SUCCESS", "FAIL"})
  /\ dev \in {"idle", "opening", "storing"} /\ stored \in Nat

HostTypeOK ==
  /\ pc \in {"idle", "loop"} /\ calls \in 0..MaxCalls
  /\ state \in {"START", "DATA", "END", "FINISHED"}
  /\ fileSize \in Nat /\ actual \in Nat /\ pos \in Nat /\ byteCount \in Nat
  /\ result \in {"none", "ok", "eproto", "errno"}

FlagsTypeOK == {inSync, whole} \subseteq BOOLEAN

(* Every variable holds what the code can put in it; the length field of *)
(* a packet fits in its 16 bits.                                         *)
TypeOK == LinkTypeOK /\ HostTypeOK /\ FlagsTypeOK

Returned(res) == pc = "idle" /\ result = res

(***************************************************************************)
(* libpuppy.c:629, "prevent the sending of packets that are a multiple of  *)
(* 512 bytes": no data packet makes a transfer whose length is one.        *)
(***************************************************************************)
PacketsAvoid512 ==
  \A i \in 1..Len(toDev) :
    toDev[i].cmd = "DATA_HDD_FILE_DATA" => Even(toDev[i].length) % 512 # 0

(* In a call that began with clean pipes one packet at most is under way: *)
(* every answer is the answer to the last packet sent.                    *)
Lockstep == pc = "loop" /\ inSync => Len(toHost) + Len(toDev) <= 1

(***************************************************************************)
(* A return of 0 by a call that began with clean pipes means that the      *)
(* device has closed a file of contiguous bytes that holds at least what   *)
(* the local file held when the call looked at its size, and exactly that  *)
(* if the file was left alone.  A failed read, a shrinking file, a chunk   *)
(* cut short in the pipe all end in an error.                              *)
(***************************************************************************)
PutComplete ==
  Returned("ok") /\ inSync =>
    /\ dev = "idle" /\ whole
    /\ stored = byteCount /\ stored >= fileSize
    /\ actual = fileSize => stored = fileSize

(* Whatever is lost, late or refused, the call returns. *)
CallReturns == pc = "loop" ~> pc = "idle"

(***************************************************************************)
(* With a device in time and a link that loses nothing, a file nobody      *)
(* touches ends up on the device in full, or the device has refused it and *)
(* waits for nothing more.                                                 *)
(***************************************************************************)
WholePut ==
  pc = "loop" ~> \/ Returned("ok") /\ whole /\ stored = fileSize
                 \/ Returned("eproto") /\ dev = "idle" /\ Quiet

==============================================================================
