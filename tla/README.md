# libpuppy in TLA+

libpuppy talks to a Topfield DVB recorder over USB: it lists directories, fetches
and stores files, and sends a handful of simple commands. It is `puppy.c`, a
command line tool, turned into a library (`libpuppy.c`); the two share
`usb_io.c` and otherwise hold two copies of the same protocol code, which differ
in places. This directory models that code in TLA+, checks the models with TLC
and proves their main properties with TLAPS.

## Inventory

| part | code | state it keeps | operations |
|---|---|---|---|
| packet exchange | `usb_io.c` | none; the two bulk pipes hold packets under way | `get_tf_packet`, `send_tf_packet`, `send_success`, `send_cancel`, `send_cmd_*`, `usb_bulk_read`, `usb_bulk_write` |
| fetch | `puppy_hdd_file_get`, `do_hdd_file_get` | START / DATA / ABORT, the destination file, its time stamp | one loop on received packets |
| store | `puppy_hdd_file_put`, `do_hdd_file_put` | START / DATA / END / FINISHED, read offset, `byteCount` | one loop on answers |
| commands | `puppy_turbo` ... `puppy_hdd_mkdir`, `do_*` | `p->error` | one request, one answer |
| listing | `puppy_hdd_dir`, `do_hdd_dir`, `decode_dir` | `p->error`, the entries so far (`buffer.c`) | one loop on received packets |
| session | `puppy_open`, `puppy_done`, `main`, `findToppy` | lock file, device descriptor, interface claim | open, lock, reset, claim, release, unlink |
| `puppy-get` | `puppy-get.c`, `tools.c` | the local files, and what it removes from the device | loop over a listing: fetch, measure, remove |
| `puppy-dir` | `puppy-dir.c` | the listing in memory | count, sort, print what matches |
| data | `tf_bytes.c`, `crc16.c`, `mjd.c`, `buffer.c` | none, except the buffer | byte order, checksum, dates, growing array |

How they interact: the tools call the library one function at a time on one
handle. Each library call is a conversation with the device over the two pipes,
with a timeout of 11 seconds on each read or write of a chunk. Nothing in a packet
names the request it belongs to, so that whatever one call leaves in the pipes is
read by the next one. Several processes meet at the lock file `/tmp/puppy`, at
the lock on the device node, and at the kernel's claim of the interface.

Where it is hard:

- `get_tf_packet` acknowledges a data packet before its caller has looked at it;
  an abort therefore always races with the next packet.
- A failed send is never seen by the callers, a failed read always ends a call, and
  an answer that is late is taken for the answer to the next command.
- `p->error` outlives the call that set it.
- A store is arithmetic on packet lengths (16 bits, even, never a multiple of 512)
  with a local file that may change underneath.
- The locks are taken without waiting, one of them is converted, and the file
  they live in is unlinked by some of the processes.
- A packet is read in chunks of 4096 bytes, and only a short chunk marks its end.
- `puppy-get -m` deletes what it believes it has copied; it knows sizes only, may be
  killed at any point, and fetches and deletes over the same two pipes.

What makes each part correct: a fetch or store that returns 0 has copied the
file; a command that returns 0 has been carried out; a listing is complete or
reported incomplete; a call always returns; nothing is deleted that has no copy;
what is listed is what is printed, in order; nobody resets or uses a device another
process is using. `PROJECT.json` lists the individual hazards, each at its line, and
which property would notice it going wrong.

## Modules

| module | models | constants |
|---|---|---|
| `UsbLink` | the two pipes as queues, what a send or a read may come to, the kinds of fault | `Faults` |
| `FileGet` | the fetch, in both programs, called again and again on one handle | `N` packets, `MaxCalls`, `Reuse`, `Program`, `DataLike` |
| `FileCopy` | what a fetch promises: the copy grows in order, success only when it is whole | `N` |
| `FilePut` | the store, in bytes | `FileSizes`, `LaterSizes`, `ShortReads`, `MaxCalls`, `Reuse` |
| `Commands` | the simple commands and the listing on one handle | `Cmds`, `N`, `MaxCalls`, `ReadsStatus`, `Program` |
| `Handle` | the three together on one handle, in any order | `Blocks`, `Sizes`, `Cmds`, `Entries`, `MaxCalls` |
| `PuppyGet` | `puppy-get`: a run over a listing, killed and started again | `Files`, `Order`, `Recording`, `Options`, `Leftovers`, `MaxRuns` |
| `FileMove` | what moving files promises: a source goes only after its copy is there | `Files` |
| `PacketCodec` | the bytes of a packet's head, the lengths of the commands' packets | |
| `BulkIO` | the chunk loops of `usb_bulk_read` and `usb_bulk_write`, `get_tf_packet` | `Answers`, `Payloads`, `Requests`, `Links`, `MaxPackets`, `MaxSends` |
| `PacketPipe` | what the others take the inbound pipe for: a queue of packets | |
| `DeviceSession` | processes opening and closing the device | `Procs`, `Lib`, `Scanners`, `Failures` |
| `Mjd` | the device's dates, and the calendar they are checked against | |
| `DirSort` | the comparators of `puppy-dir`, and what `qsort` may make of them | `SignedChars` |
| `PuppyDir` | the growing buffer, the list `puppy_hdd_dir` returns, `puppy-dir` | `Listings`, `InitEls` |
| `MCPuppyGet`, `MCBulkIO`, `MCPuppyDir` | values of the constants for TLC | |
| `*_proofs` | the theorems about the module they are named after | |

How they are put together. `UsbLink` owns `toDev` and `toHost`; `FileGet`,
`FilePut` and `Commands` extend it. `FileGet` instantiates `FileCopy` with
`phase <- Phase, copy <- dst`. `PuppyGet` extends `FileGet` with the loop of
`puppy-get`: a removal is one more exchange over the same pipes, the listing is
what it leaves behind in them. `PuppyGet` instantiates `FileMove`. `Handle`
instantiates `FileGet`, `FilePut` and `Commands`, each with variables of its own, and lets
only one of them run at a time; that their pipes may be kept apart is what
`HandleInStep` shows. `BulkIO` extends `PacketCodec` and instantiates `PacketPipe`:
the queue is the numbers of the packets not yet read, and `rest` says that the
front of the first has been read already, which is the meaning `rest` has in
`FileGet`, and `Remains` in `Commands`. `PuppyDir` extends `DirSort` and uses `Mjd`.

`PuppyGet` keeps for each name what `stat()` can tell of the local file (absent,
short, the size listed, the size the source has grown to), and for the two last
whether it is the source's contents; one fetch at a time runs through
`FileGet`, whose file has no name. That is sound because no packet of an earlier
transfer is under way when a fetch begins (`FetchesStartClean`, which is proved).

State and code. A packet is a record that keeps its command and what a property
needs of its payload: the number of a block (`FileGet`), offset and length
(`FilePut`), the number of the call it belongs to (`Commands`). One action is one
iteration of a receive loop, from `get_tf_packet` to the `break` or `goto` of its
branch, everything sent on the way included. In `DeviceSession` one action is one
system call. Actions of `FileGet` and `FilePut` are named for the branch of the
`switch` they model (`RecvStart`, `RecvData`, `SendEnd`, ...). In `Commands` the
nine command functions, which repeat the same twenty lines, share the four
`Answer*` actions; `cmd` says which of them is running, and their differences
(the answer expected, -1 from `puppy_ready`, no path to be too long) are kept.
The rest of a packet that was cut short is read by `get_tf_packet` as a packet of its
own. In `BulkIO` it begins with one of `Payloads`; in `FileGet` it may be dropped
by the `default` branch, pass for a data packet, which is acknowledged and written,
or be too short to be judged, which ends the call. In `Commands` it waits at the front
of the queue (`Remains`) and is unhandled, or too short. In both, one more read takes all of
it: at most one chunk of a packet fails there.
Variables marked (history) are read by no action of the code; they remember how
a call began or what went wrong in it.

The device is not part of the repository. Its actions (`Dev*`) model what the
code takes for granted: it deals with one packet after the other, SUCCESS asks it
for the next packet, CANCEL is answered with SUCCESS, and it ignores a SUCCESS
it has no use for. Fault "refuse" lets it answer FAIL at any point instead.

Definitions whose comment begins with "Slip" are plausible mistakes in the code
next to them. No action uses them; replacing the definition they belong to by the
slip shows that a property is able to fail.

### Faults

`Faults` selects what the environment may do: "late" answers, failed "read" and
"send" of a packet, "damage" (a packet cut short, unrecognisable or with altered
payload, or with a length less than a head's), "disk" (a local read or write fails or falls short), "local" (a call
fails before anything is sent) and "refuse". `DeviceSession` has `Failures`, the
system calls that may fail, and "crash", the death of a process at any point.

## Runs

| run | module | question |
|---|---|---|
| `get_faulty` | `FileGet` | three fetches of three blocks, every fault, retried whatever came of the last: type correctness, `Lockstep`, `SuccessfulCopy`, `SizeCheckSuffices`, `AbortDetectable`, `SuccessLeavesQuiet`, `TimestampKept`, `CallReturns` |
| `get_copy` | `FileGet` | without damage and disk faults, does a fetch implement `FileCopy`, liveness included? |
| `get_abort` | `FileGet` | violation: does an aborted fetch never return 0? |
| `put_faulty` | `FilePut` | two stores, every fault, a file that changes: `PacketsAvoid512`, `Lockstep`, `PutComplete`, `CallReturns` |
| `commands_faulty` | `Commands` | three commands, every fault of the link: `OkMeansDone`, `ListingFaithful`, `CallReturns` |
| `handle_clean` | `Handle` | three operations of any kind on one handle, a device that may refuse: `HandleInStep`, `WholeCopy`, `WholePut` |
| `session_mixed` | `DeviceSession` | a library client and two scanning `puppy`, failures and deaths: `ResetSafe`, `UseOwned`; a scan and a session never share a lock file (`ScanExcludesSharers`), somebody gets the device (`NotAllRefused`), nobody waits (`NeverWaits`) |
| `session_unlink` | `DeviceSession` | violation: with a library client among three processes, is a scan alone (`ScanAlone`)? |
| `puppy_move` | `PuppyGet` | two runs over two files, every fault but damage, killed anywhere: `NothingLost`, `FetchesStartClean`, `RunEnds`, and does it implement `FileMove`? |
| `bulk_links` | `BulkIO` | three packets in and one out, over the worst link with marked packets and the best one without: `SendCountHonest`, `UnansweredIsWhole`, `CommandsFit`, `EarlyAckAgrees`, `IOReturns`, and does it implement `PacketPipe`? The commands include ones whose paths 16 bits cannot count |
| `bulk_failure` | `BulkIO` | violation: does a failed read always return a negative number? |
| `puppy_dir` | `PuppyDir` | every listing of up to four of nine entries, every order, two patterns; every day of the calendar: `BufferHolds`, `DatesKept`, `ListingShown` |

What they show:

- A fetch that started with empty pipes, was not aborted, met no damaged packet
  and returned 0 is a whole copy. Neither "not aborted" nor "no damage" can be
  dropped: CRC errors are only printed, and an aborted fetch may return 0
  (`get_abort`). The check of the size that `puppy-get` makes after a return of 0
  repairs the second, and remains sufficient on a handle with left-over packets,
  provided none of them was damaged, not even one that was dropped as
  unrecognisable (`SizeCheckSuffices`).
- A store that started with empty pipes and returned 0 is complete. On a handle
  with a stale SUCCESS in the pipe this is not so: the host is one step ahead and
  returns before the END has been answered; the property says so by `inSync`.
- A command that returned 0 after a clean start was carried out. The library's
  listing may be a prefix that looks like success when a read failed; `puppy`
  reports it.
- A caller that does not read `puppy_status` after a refused listing loses step: the
  next `puppy_hdd_dir` sends its command and does not read the answer.
- On a link that loses nothing every operation, a refused one included, leaves the
  pipes clean for an operation of any other kind (`HandleInStep`): a refused fetch
  reads the answer to its CANCEL before it returns, a refused store sends none. A
  late answer, on the other hand, is taken for the next command's, and nothing in the
  code prevents it; `OkMeansDone` and `PutComplete` leave such calls out.
- A command that is refused for its length does not fit in a packet. One that is
  sent has room for its paths exactly if no path length of a rename or mkdir was cut to
  16 bits (`CommandsFit`).
- `puppy-get -m` never removes a file that has no local copy of the listed size,
  and such a copy is the file, whatever was late, lost, refused or killed on the way
  (`FileMoveSpec`, `NothingLost`). Three things are outside the promise, and the
  property names them: a packet damaged on the way, a local file that was there
  at the start with the right size and other contents, and what a recorder appended
  to the source after it was listed.
- As long as the device marks the end of every packet (with a short USB packet),
  the byte stream is the queue of packets all other modules assume
  (`PacketPipeSpec`). If it does not, a device that waits for its answers still
  gets its multiples of 4096 bytes through whole, by way of a timeout; other
  multiples of 512 lose their last chunk (`UnansweredIsWhole`).
- Every entry that arrives is printed once if it matches, in the order asked for
  if no title goes on from another one, titles are ASCII, numbers fit an int and no
  sizes are 2 GB apart (`ListingShown`, `Sortable`). The terminator of the list is never written to the
  copy that is returned: the loop ends because the memory happens to hold a zero
  there, and the property allows the run that goes astray only where it does not.
- The date formulas are exact from 1900-03-01 to 2038-04-22, the last day 16 bits
  can name.
- The lock on the device node protects the reset and the use of the device in
  all combinations. The lock on `/tmp/puppy` protects a scan only as long as no
  process of the library unlinks it (`session_unlink`).

### Findings

- `get_abort`: the handler of END (`libpuppy.c:813-817`) returns 0 in every state;
  `libpuppy.c:796` says of a failed write "Can't write data - abort transfer". If
  the write of the last block fails, the END asked for by the early SUCCESS comes
  before the answer to the CANCEL, and the aborted fetch reports success.
- `bulk_failure`: `usb_io.c:349` says of `get_tf_packet` "Returns a negative number if
  the packet read failed for some reason."; `usb_bulk_read` returns the bytes it
  has, so that the test `r < 0` at line 361 is never true. A read that fails in
  its first chunk is caught by the next test (`r < PACKET_HEAD_SIZE`); one that fails
  later returns the front of the packet as a packet.
- `session_unlink`: `puppy.c:1222` says "Refuse to scan while another instance is
  running."; `puppy_done` (`libpuppy.c:263`) unlinks the file the other instances
  hold their locks on, and a later `puppy` locks a new one and scans.

Noted in passing, and not the subject of a run: the usage text of `puppy-dir` says
that `-n` sorts by name and time and `-N` by name; the code has it the other way
round, and the string given to `getopt` lacks the `N`. The lengths of the paths of
rename and mkdir (`usb_io.c:241-242` and `:268`) are kept in 16 bits, and nothing before
that limits a path: one of 65535 characters or more wraps, passes the test of the
size, and is then copied whole. `CommandsFit` states what the test is worth.

### Bounds

Every bound is a constant. `MaxCalls` is 3 for a fetch and for the commands: one
call that leaves something behind, one that is misled by it, and one that inherits
what the second left. A file of 3 blocks has a first, a middle and a last one;
`get_copy` uses 6 blocks without the faults that multiply
states. The sizes in `put_faulty` and `handle_clean` straddle the end of the first
packet (65518 is its payload), the 512-byte rule (495 to 497, and 66014, whose rest
is 496) and the rule's own lower limit of 4 bytes; a `read()` of a full packet may
also return 33264 bytes, which makes a packet that the rule must shorten, in the middle of the
file; a send may stop at any chunk of 4096 bytes. The later sizes let the file
vanish, stop at such a boundary, or grow beyond one. Three processes are two that
contend for a lock and a third that changes it meanwhile.
`handle_clean` makes three operations: one, one of another kind after it, and one
that inherits from both. In `puppy_move` one of the two files may be growing, and
both may have a namesake; a second run is what meets the first one's partial file;
four fetches are one for each file and run. The lengths in `bulk_links` are a bare
head, one and two chunks, multiples of 512 and 4096 and others; three packets are one
that is cut, one that is read together with it, and one after them. `Payloads` has bytes
that pass for a data packet, bytes that would but for a length of 7, and others;
`Requests` goes up to paths of 131071 characters, the longest word of a command line. In
`get_faulty` the payload may look like a data packet only in a call that is in step
(`DataLike`): after that `inSync` is false, and what such a rest does once more in the
same chain of calls is left to the proofs, which allow it always. In `puppy_dir`
the buffer starts with room for 2 elements instead of 10, so that it grows within
four entries; 128 bytes and a day are the units of size and time, so that the
32-bit results keep their width in TLC's integers. What it takes for granted of the
recorder, that every entry has a name and no two have the same one
(`NamesAssumption`), TLC evaluates on all of its listings. Deadlock checking is off
in all of them: each stops when its bounded number of calls is used up or all
processes have ended.

### Fairness

`Host` is weakly fair: a process in a loop keeps running, and each read returns,
because USBDEVFS_BULK is bounded by TF_PROTOCOL_TIMEOUT (`usb_io.h:74`). `Device` is
weakly fair: the device deals with what reaches it; with "late" its answer may
still come after the host has given up. No call is ever assumed to be made. In
`DeviceSession` a process that opens or closes goes on, and nothing is said about
how long it uses the device. In `PuppyGet` the program's loop is weakly fair as
well; nobody has to start or to kill it. In `BulkIO` the loops are: each ioctl is
bounded by the timeout. `PuppyDir` has no liveness property.

## Proofs

All theorems hold for every value of the constants that the modules' assumptions
allow: any length of file, any number of calls, any set of faults or processes.

`FileGet_proofs`. The invariant says that in a call that started with clean pipes
and has not been aborted one token is under way, and its place (`Opening`,
`Started`, `Requested`, `Delivered`, `Completed`, `Refused`, `Lost`) tells how
much of the file each side has dealt with. Without it `Lockstep` is not inductive:
that only one packet is under way says nothing of which one the device sends
next. From it follow `OnePacketUnderWay`, `CopiesAreWhole` and `SuccessIsQuiet`.
`FetchImplementsFileCopy` shows the safety part of the refinement; it assumes
that "damage" and "disk" are not among the faults and that the caller stops at a
failure, which `get_copy` assumes as well.

That invariant says nothing of a call that began with packets of an earlier one in
the pipes; the second part of `FileGet_proofs` does. Its first invariant is a chain: in the pipe to
the host a data packet follows the block before it, the last one is the last the
device has sent, and the first one comes right after the last block this call has
stored. Hence a file of the full size has all blocks in order, whatever else was read in
between, and `SizesAreEnough` follows. For `AbortsAreDetectable` the first
invariant is extended to aborted calls: the abort comes before the last
block is stored. Together with it goes what the host knows of the START
(`TimestampsAreKept`). A third part is about a sound link, one on which nothing is
lost, late or damaged (`Faults` within "refuse" and "local"): the token is then under
way in every call, so that no call ends with anything in the pipes
(`QuietBetweenCalls`).

`FilePut_proofs`. The invariant pairs the place of the one packet with the counts on
both sides (`InStep`, `Stored`) and with what is known of every data packet queued
(`SafeQueue`). The lemma `KeptAvoids512` is the arithmetic of the 512-byte rule: a
packet shortened by four bytes is no longer a multiple of 512, and one that is
not shortened was none, for whatever `read()` returns. `NoMultipleOf512` is `PacketsAvoid512`; `PutsAreComplete` is
`PutComplete`. `QuietBetweenCalls` says of stores what it says of fetches. A store sends
no CANCEL (`libpuppy.c:695-699`): refused or failed, it returns when the answer to its last packet has
been read, or when there is none to come because nothing was sent. A store that fails because
the local file shrank leaves the device in the middle of the transfer.

`Commands_proofs`. As in `FileGet`, with the number of the call in each packet.
`OkIsNoLie` and `ListingsAreFaithful` follow, for `puppy` as well,
which the runs leave out (it makes one call only); `StatusKeepsStep` needs in addition
that the pipes are empty between calls and that `p->error` is clear once the
status has been read.

`DeviceSession_proofs`. `ResetsAreSafe` and `UsersOwn` rest on: who is past the
lock of the device node is in `devLocked`, which has at most one element, and only
members of it claim. `ScansExcludeSharers` holds with the library's unlink as well: shared and
exclusive locks on one file exclude each other. With `Lib = {}` all lock
files are one file, and `ScansAreAlone` follows. `SomeoneGetsIn`
(`NotAllRefused`) needs to know who turned whom away. A lock is held by somebody: that
of the device node by a process that nobody turns away any more, an exclusive one by
a process that has not been turned away, a shared one by such a process or by one that
found the device node locked, and then there is the holder of that. Hence, as soon
as one process has started, there is always one that has not been turned away.

`Handle_proofs` (`HandlesStayInStep`) puts the parts' theorems together: it instantiates
their proof modules as `Handle` instantiates the modules, and shows that a
step of the handle is a step or a stutter of each part, so that each part's theorem
holds of its own variables. The parts' assumptions follow from `HandleAssumption`,
which says that the link is sound. Nothing of the protocols is proved a second time.

`PuppyGet_proofs` builds on the chain. `SourcesLeaveCopies` (that `puppy-get` implements
`FileMove`) and `NothingIsLost` rest on this: a request to remove a source may be
under way, or overdue, only while the local file has the size listed, and such a file is
neither fetched nor listed again once its source is gone. `FetchesAreAlone` counts what
is in the pipes: there is one transfer at a time, one request for it at most, and its
END is the last packet of it; a fetch that does not bring an END ends the program. The
three hold for every set of faults, "damage" included, which the run leaves out; it
damages the packets of a fetch and those left over from the listing, while the entries
that were decoded are taken to be as the device sent them.

`BulkIO_proofs`. While `usb_bulk_write` is in its loop, what was counted has left, and
is a number of whole chunks short of the length (`CountsAreHonest`).
`CommandsFitTheirPackets` is the arithmetic of the lengths kept in 16 bits, for paths
of every length that a word of the command line can have: cutting a length only makes
it smaller, so that a refused command never fitted; the sums that are tested are
ints and do not wrap; and once a length has been cut the packet lacks
65535 bytes or more (`PathLengthCut`, `SizeIsNeeded`).
For reads, the invariant `ReadInv` says that the stream is in the order of sending and only
its first packet has been touched; that the read either continues inside that packet or
has the last one it took to its end; and that chunks begin at multiples of 4096. With
`HeadRoundTrip`, which follows the eight bytes of a head through both byte orders,
`EarlyAcksAgree` follows. `UnansweredAreWhole` adds `WaitInv`, for a device that
waits: a read that has taken all there is and goes on has found no mark.
`LoopsMakeAPipe` is the refinement of `PacketPipe`, for any packets and any link;
it adds `FrameInv`: if every packet is marked, a read takes parts of one packet
only. Each step of the loops is then shown to be one of the queue's or none.

`PuppyDir_proofs`. `BufferKeepsEntries` (`BufferHolds`) rests on how much of the
listing has been decoded and on the elements behind it, to which nothing has been
written; `AstrayOnJunk`, that `main` reads past the copy only for a terminator that
was never copied, follows from the latter.
`DatesAreKept` (`DatesKept`) is arithmetic, for every day from MJD 15079
(1900-03-01) to 65535: `YearOfDay` and `MonthOfDay` bound what the two quotients leave
over, `DaysBeforeMonths` sums the calendar's months, and `DateOfDay` puts them together.
The casts truncate toward zero (`Quotient`), which
for these days is the floor. That the C code's floating point gives the same quotients is
not proved.

`ListingsAreShown` (`ListingShown`) goes in two steps. First the comparators. A name is
made of a title, a number and an extension (`NamesAssumption`), and `extract_parts` finds
title and number again unless the title has a dash or plus in it (`Parsed`, by where
`strrchr` stops). The first difference of two titles then decides (`TitlesCompared`);
there is one if neither goes on from the other, and of three titles the order is
transitive (`TitlesFollow`). With characters in ASCII, which `char` keeps whether it is
signed or not, and numbers, sizes and differences of times that fit an int,
the comparator's sign says which entry comes before (`ComparatorSays`), so
that it does not contradict itself (`SortableIsConsistent`) and `qsort` sorts. What
the digits say is the same term on both sides (`Decimal`), and `atoi` keeps it if it fits an int.
Then `main`, by the invariant `ListingInv`: until it sorts, the copy's
elements are the entries in the order of arrival, and as every entry has a name and what
is behind them has none, it counts all of them; after that there is a permutation of
the places, in the order asked for, by which the copy's elements are the entries; and
the lines printed are at places that increase, all matching, with no matching place
left out up to `shown`. That names differ leads from a line back to its entry.
`MatchesPrintedOnce` is what that gives without any supposition on the times; for the
order `ListingsAreShown` supposes of them what `DatesAreKept` does, where the order is
by time.

Model-checked only: liveness (`CallReturns`, `WholeCopy`, `WholePut`, `NeverWaits`,
`RunEnds`, `IOReturns`, the liveness of `FileCopySpec`), which TLAPS does not reach.

## Not modelled

`PROJECT.json` gives the reason for each part. In short: formatting, statistics and
argument parsing; the checksum, a mismatch of which only prints a warning; USB
descriptors beyond "fails" and "not a Topfield"; the path of the device (two nodes
of one device are not excluded from each other by `flock`).

Left out of the modules that stand for a part: an altered command or the rest of a packet
never passes for another protocol packet than a data packet, and in `Commands` not for
that either; the entries of a listing
reach `puppy-get` undamaged; what `strcpy` does with a path whose length was cut; floating
point in `mjd.c`; a pointer into the growing buffer kept across `buffer_add`.

## Plan

1. The packet exchange, fetch, store, commands, sessions, `puppy-get`, `puppy-dir`,
   dates and byte order: done.
2. Proofs: every safety invariant that a run checks, and the steps of the
   three refinements: done.
3. `Handle` with the faults of the link: what a late answer to one kind of operation
   does to another. The pipes must then be one for all three.
