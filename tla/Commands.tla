------------------------------- MODULE Commands -------------------------------
(***************************************************************************)
(* The commands that are one request and its answer (puppy_turbo to        *)
(* puppy_hdd_size, puppy_hdd_del to puppy_hdd_mkdir of libpuppy.c), and    *)
(* puppy_hdd_dir, whose answer is a run of packets, on one handle.         *)
(*                                                                         *)
(* Nothing in a packet says which request it answers: the host takes the   *)
(* next one in the pipe.  Here every request and answer carries the number *)
(* of the call it belongs to, which the host never looks at.               *)
(***************************************************************************)
EXTENDS UsbLink, FiniteSets

CONSTANTS
  Cmds,         \* the commands the caller uses
  N,            \* number of DATA_HDD_DIR packets a listing takes
  MaxCalls,     \* bound on the calls made on one handle
  ReadsStatus,  \* TRUE: the caller reads puppy_status after every call
  Program       \* "libpuppy" or "puppy": which of the two sources is modelled

PathCmds == {"CMD_HDD_DEL", "CMD_HDD_RENAME", "CMD_HDD_CREATE_DIR", "CMD_HDD_DIR"}

AllCmds == PathCmds \cup
  {"CANCEL", "CMD_READY", "CMD_RESET", "CMD_TURBO", "CMD_HDD_SIZE"}

ASSUME CommandsAssumption ==
  /\ Cmds \subseteq AllCmds
  /\ N \in Nat
  /\ MaxCalls \in Nat
  /\ ReadsStatus \in BOOLEAN
  /\ Program \in {"libpuppy", "puppy"}

VARIABLES
  pc,         \* "idle" outside a call, "answer" or "listing" within one
  calls,      \* calls made so far
  cmd,        \* the command of the last one
  error,      \* p->error: it outlives the call that set it
  checked,    \* the caller has read puppy_status since the last call
  result,     \* "none" before the first return, "ok", "eproto" or "unhandled"
  listing,    \* the entries decoded by puppy_hdd_dir, one per packet
  cut,        \* (history) the listing ended because a read failed
  tainted,    \* (history) a packet of the listing arrived damaged
  inSync,     \* (history) this call started with empty pipes and p->error 0
  dev,        \* the device: "idle" or "listing"
  serving,    \* the call it lists a directory for
  sent,       \* DATA_HDD_DIR packets of that listing sent
  done        \* the calls whose command it has carried out

hostVars == <<pc, calls, cmd, error, checked, result, listing, cut, tainted, inSync>>
pipeVars == <<toDev, toHost>>
devVars  == <<dev, serving, sent, done>>
vars     == <<hostVars, pipeVars, devVars>>

Init ==
  /\ toDev = <<>> /\ toHost = <<>>
  /\ dev = "idle" /\ serving = 0 /\ sent = 0 /\ done = {}
  /\ pc = "idle" /\ calls = 0 /\ cmd = "CANCEL"
  /\ error = 0 /\ checked = TRUE /\ result = "none"
  /\ listing = <<>> /\ cut = FALSE /\ tainted = FALSE /\ inSync = TRUE

Packet(c, call, entry) == [cmd |-> c, call |-> call, entry |-> entry]

(* What remains in the endpoint of a packet that was cut short. *)
Remains == Packet("remains", 0, 0)

(* Nothing is under way that a later call could take for its answer. *)
Quiet == toHost = <<>> /\ toDev = <<>>

Directory(call) == [i \in 1..N |-> <<call, i>>]

-----------------------------------------------------------------------------
(***************************************************************************)
(* A call of the library: the command is sent, unless its path does not    *)
(* fit in a packet.  usb_bulk_write never returns a negative number, so a  *)
(* command that never left is waited for as if it had.                     *)
(***************************************************************************)
Enter(c) ==
  /\ pc = "idle" /\ calls < MaxCalls
  /\ ReadsStatus => checked
  /\ calls' = calls + 1 /\ cmd' = c /\ checked' = FALSE
  /\ listing' = <<>> /\ cut' = FALSE /\ tainted' = FALSE
  /\ inSync' = (Quiet /\ error = 0)
  /\ UNCHANGED <<toHost, devVars>>

SendCommand(c) == \E p \in Transmit(Packet(c, calls + 1, 0)) : toDev' = toDev \o p

Call ==
  \E c \in Cmds \ {"CMD_HDD_DIR"} :
    /\ Enter(c)
    /\ SendCommand(c)
    /\ pc' = "answer"
    /\ UNCHANGED <<error, result>>

(* The loop of puppy_hdd_dir is not entered while p->error is set: the *)
(* command has been sent all the same and its answer stays in the pipe. *)
CallDir ==
  /\ "CMD_HDD_DIR" \in Cmds
  /\ Enter("CMD_HDD_DIR")
  /\ SendCommand("CMD_HDD_DIR")
  /\ IF error = 0
     THEN pc' = "listing" /\ UNCHANGED result
     ELSE result' = "eproto" /\ UNCHANGED pc
  /\ UNCHANGED error

CallPathTooLong ==
  /\ "local" \in Faults
  /\ \E c \in Cmds \cap PathCmds :
       /\ Enter(c)
       /\ error' = IF c = "CMD_HDD_DIR" /\ Program = "libpuppy" THEN 1 ELSE error
  /\ result' = "eproto"
  /\ UNCHANGED <<pc, toDev>>

(* Slip: the status is read and not reset. *)
ReadStatusKept ==
  /\ pc = "idle" /\ ~checked
  /\ checked' = TRUE
  /\ UNCHANGED <<pc, calls, cmd, error, result, listing, cut, tainted, inSync>>
  /\ UNCHANGED <<pipeVars, devVars>>

(* puppy_status: "reading status will reset it to OK". *)
ReadStatus ==
  /\ pc = "idle" /\ ~checked
  /\ checked' = TRUE /\ error' = 0
  /\ UNCHANGED <<pc, calls, cmd, result, listing, cut, tainted, inSync>>
  /\ UNCHANGED <<pipeVars, devVars>>

-----------------------------------------------------------------------------
(***************************************************************************)
(* The answer to a command.                                                *)
(***************************************************************************)
Expected(c) == IF c = "CMD_HDD_SIZE" THEN "DATA_HDD_SIZE" ELSE "SUCCESS"

(* Slip: r of the read is returned in place of the outcome. *)
ReturnCount(res) == pc' = "idle" /\ result' = "count"

Return(res) == pc' = "idle" /\ result' = res

(* The next packet is taken from the pipe. *)
Take ==
  /\ toHost # <<>>
  /\ toHost' = Tail(toHost)
  /\ UNCHANGED <<calls, cmd, checked, inSync, devVars>>

AnswerOK ==
  /\ pc = "answer" /\ Take
  /\ Head(toHost).cmd = Expected(cmd)
  /\ Return("ok")
  /\ UNCHANGED <<error, listing, cut, tainted, toDev>>

AnswerFail ==
  /\ pc = "answer" /\ Take
  /\ Head(toHost).cmd = "FAIL"
  /\ Return("eproto")
  /\ UNCHANGED <<error, listing, cut, tainted, toDev>>

(* An answer to something else, or one damaged beyond recognition; for *)
(* these puppy_ready has a value of its own, -1.                       *)
AnswerUnhandled ==
  /\ pc = "answer" /\ Take
  /\ \/ Head(toHost).cmd \notin {Expected(cmd), "FAIL"}
     \/ "damage" \in Faults
  /\ Return(IF cmd = "CMD_READY" THEN "unhandled" ELSE "eproto")
  /\ UNCHANGED <<error, listing, cut, tainted, toDev>>

(* Slip: a read that failed is tried again. *)
AnswerMissingRetried == pc = "answer" /\ ReadMayFail /\ UNCHANGED vars

(* Slip: the result of the read is not looked at, and the global reply still *)
(* holds the answer to the command before.                                  *)
AnswerMissingIgnored ==
  /\ pc = "answer" /\ ReadMayFail
  /\ Return("ok")
  /\ UNCHANGED <<calls, cmd, error, checked, listing, cut, tainted, inSync>>
  /\ UNCHANGED <<pipeVars, devVars>>

(* get_tf_packet fails: nothing came, or less than a packet head. *)
AnswerMissing ==
  /\ pc = "answer"
  /\ \/ ReadMayFail /\ UNCHANGED toHost
     \/ "damage" \in Faults /\ toHost # <<>> /\ toHost' = Tail(toHost)
  /\ Return("eproto")
  /\ UNCHANGED <<calls, cmd, error, checked, listing, cut, tainted, inSync>>
  /\ UNCHANGED <<toDev, devVars>>

-----------------------------------------------------------------------------
(***************************************************************************)
(* The loop of puppy_hdd_dir.  Every DATA_HDD_DIR packet is acknowledged   *)
(* after its entries have been decoded, the end of the listing is not.     *)
(***************************************************************************)

ListData ==
  /\ pc = "listing" /\ Take
  /\ Head(toHost).cmd = "DATA_HDD_DIR"
  /\ listing' = Append(listing, <<Head(toHost).call, Head(toHost).entry>>)
  /\ \E a \in Transmit(Packet("SUCCESS", calls, 0)) : toDev' = toDev \o a
  /\ UNCHANGED <<pc, error, result, cut, tainted>>

(* A packet with altered or missing entries is decoded all the same. *)
ListDamagedData ==
  /\ pc = "listing" /\ "damage" \in Faults
  /\ toHost # <<>> /\ Head(toHost).cmd = "DATA_HDD_DIR"
  /\ toHost' \in {Tail(toHost), <<Remains>> \o Tail(toHost)}
  /\ listing' = Append(listing, <<0, 0>>) /\ tainted' = TRUE
  /\ \E a \in Transmit(Packet("SUCCESS", calls, 0)) : toDev' = toDev \o a
  /\ UNCHANGED <<pc, calls, cmd, error, checked, result, cut, inSync, devVars>>

ListEnd ==
  /\ pc = "listing" /\ Take
  /\ Head(toHost).cmd = "DATA_HDD_DIR_END"
  /\ Return("ok")
  /\ UNCHANGED <<error, listing, cut, tainted, toDev>>

(* Slip: the loop ends and p->error is not set. *)
ListRefusedSilently ==
  /\ pc = "listing" /\ Take
  /\ Head(toHost).cmd \notin {"DATA_HDD_DIR", "DATA_HDD_DIR_END"}
  /\ Return("ok")
  /\ UNCHANGED <<error, listing, cut, tainted, toDev>>

(* FAIL, an answer to something else, or one damaged beyond recognition. *)
ListRefused ==
  /\ pc = "listing" /\ Take
  /\ \/ Head(toHost).cmd \notin {"DATA_HDD_DIR", "DATA_HDD_DIR_END"}
     \/ "damage" \in Faults
  /\ Return("eproto")
  /\ error' = IF Program = "libpuppy" THEN 1 ELSE error
  /\ UNCHANGED <<listing, cut, tainted, toDev>>

(***************************************************************************)
(* A read fails: puppy reports it; libpuppy returns the entries it has and *)
(* leaves p->error at 0.                                                   *)
(***************************************************************************)
ListCut ==
  /\ pc = "listing"
  /\ \/ ReadMayFail /\ UNCHANGED toHost
     \/ "damage" \in Faults /\ toHost # <<>> /\ toHost' = Tail(toHost)
  /\ Return(IF Program = "puppy" THEN "eproto" ELSE "ok")
  /\ cut' = TRUE
  /\ UNCHANGED <<calls, cmd, error, checked, listing, tainted, inSync>>
  /\ UNCHANGED <<toDev, devVars>>

-----------------------------------------------------------------------------
(***************************************************************************)
(* The device, as the code takes it to behave: it deals with one packet    *)
(* after the other, and a command ends a listing that was under way.       *)
(***************************************************************************)
DevTake ==
  /\ toDev # <<>>
  /\ toDev' = Tail(toDev)
  /\ UNCHANGED hostVars

DevSay(c, call, entry) == toHost' = Append(toHost, Packet(c, call, entry))

DevObey ==
  /\ DevTake
  /\ Head(toDev).cmd \notin {"SUCCESS", "CMD_HDD_DIR"}
  /\ DevSay(Expected(Head(toDev).cmd), Head(toDev).call, 0)
  /\ done' = done \cup {Head(toDev).call}
  /\ dev' = "idle"
  /\ UNCHANGED <<serving, sent>>

(* The next packet of the listing, and the end of it after the last one. *)
DevSendEntries(call, i) ==
  /\ IF i <= N THEN DevSay("DATA_HDD_DIR", call, i) ELSE DevSay("DATA_HDD_DIR_END", call, 0)
  /\ dev' = IF i <= N THEN "listing" ELSE "idle"
  /\ serving' = call /\ sent' = i

DevList ==
  /\ DevTake
  /\ Head(toDev).cmd = "CMD_HDD_DIR"
  /\ DevSendEntries(Head(toDev).call, 1)
  /\ UNCHANGED done

DevListMore ==
  /\ DevTake
  /\ Head(toDev).cmd = "SUCCESS" /\ dev = "listing"
  /\ DevSendEntries(serving, sent + 1)
  /\ UNCHANGED done

DevIgnore ==
  /\ DevTake
  /\ Head(toDev).cmd = "SUCCESS" /\ dev = "idle"
  /\ UNCHANGED <<toHost, devVars>>

DevRefuse ==
  /\ "refuse" \in Faults
  /\ DevTake
  /\ Head(toDev).cmd # "SUCCESS" \/ dev = "listing"
  /\ DevSay("FAIL", Head(toDev).call, 0)
  /\ dev' = "idle"
  /\ UNCHANGED <<serving, sent, done>>

-----------------------------------------------------------------------------
Host ==
  \/ AnswerOK \/ AnswerFail \/ AnswerUnhandled \/ AnswerMissing
  \/ ListData \/ ListDamagedData \/ ListEnd \/ ListRefused \/ ListCut

Device == DevObey \/ DevList \/ DevListMore \/ DevIgnore \/ DevRefuse

Next == Call \/ CallDir \/ CallPathTooLong \/ ReadStatus \/ Host \/ Device

Spec == Init /\ [][Next]_vars

(* As in FileGet: reads return within TF_PROTOCOL_TIMEOUT, the device *)
(* deals with what reaches it, and nobody has to call.                *)
Fairness == WF_vars(Host) /\ WF_vars(Device)

FairSpec == Spec /\ Fairness

-----------------------------------------------------------------------------
(***************************************************************************)
(* Properties.                                                             *)
(***************************************************************************)
Requests == [cmd : AllCmds \cup {"SUCCESS"}, call : 0..MaxCalls, entry : {0}]

Answers ==
  [cmd : {"SUCCESS", "FAIL", "DATA_HDD_SIZE", "DATA_HDD_DIR", "DATA_HDD_DIR_END", "remains"},
   call : 0..MaxCalls, entry : 0..N]

LinkTypeOK ==
  /\ toDev \in Seq(Requests) /\ toHost \in Seq(Answers)
  /\ dev \in {"idle", "listing"} /\ serving \in 0..MaxCalls
  /\ sent \in 0..(N + 1) /\ (dev = "listing" => sent \in 1..N)
  /\ done \subseteq 0..MaxCalls

HostTypeOK ==
  /\ pc \in {"idle", "answer", "listing"} /\ calls \in 0..MaxCalls
  /\ cmd \in AllCmds /\ error \in {0, 1}
  /\ result \in {"none", "ok", "eproto", "unhandled"}
  /\ listing \in Seq((0..MaxCalls) \X (0..N))

FlagsTypeOK == {checked, cut, tainted, inSync} \subseteq BOOLEAN

(* Every variable holds what the code can put in it. *)
TypeOK == LinkTypeOK /\ HostTypeOK /\ FlagsTypeOK

Returned(res) == pc = "idle" /\ result = res

(***************************************************************************)
(* A command that returns 0 after it was sent over empty pipes has been    *)
(* carried out: del, rename, mkdir, turbo and the others do not report as  *)
(* done what the device refused, never heard of or took for something      *)
(* else.                                                                   *)
(***************************************************************************)
OkMeansDone == Returned("ok") /\ inSync /\ cmd # "CMD_HDD_DIR" => calls \in done

(***************************************************************************)
(* A listing asked for over empty pipes never skips, repeats or mixes      *)
(* entries, however it ends, and when puppy reports success it is whole.   *)
(* From libpuppy it is whole unless a read failed, which the caller cannot *)
(* tell from success.                                                      *)
(***************************************************************************)
ListingFaithful ==
  pc = "idle" /\ inSync /\ ~tainted /\ cmd = "CMD_HDD_DIR" =>
    /\ \A i \in 1..Len(listing) : listing[i] = <<calls, i>>
    /\ result = "ok" /\ (Program = "puppy" \/ ~cut) => Len(listing) = N

(***************************************************************************)
(* With no fault but refusals, a caller that reads puppy_status after each *)
(* call stays in step with the device: every call starts with empty pipes. *)
(* (One that does not read it loses step at the first refused listing: the *)
(* next one is asked for and its answer left in the pipe.)                 *)
(***************************************************************************)
StaysInStep ==
  (Faults \subseteq {"refuse", "local"} /\ ReadsStatus) => (inSync /\ (pc = "idle" => Quiet))

(* Whatever is lost, late, damaged or refused, the call returns. *)
CallReturns == pc # "idle" ~> pc = "idle"

==============================================================================
