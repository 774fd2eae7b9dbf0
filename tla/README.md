# nfsdump in TLA+

A verification project for nfsdump, a passive tracer of NFS traffic.  The
program captures packets, finds the RPC messages in them, matches replies with
calls, and prints one record per message; scripts around it rotate, compress and
anonymize the logs, and the programs under `pathtree/` rebuild path names from
them.  The modules beside this file are translations of the C, Perl and
JavaScript sources; the text of the program's documents is used only to know
what the program is meant to do.

Line references are to `src/nfsdump2/` unless they name another directory.

## 1. Inventory

| Component | State it keeps | Operations | What makes it correct |
| --- | --- | --- | --- |
| XID table, `nfsrecord.c` 57-65, 110-115, 925-1022 | `xidHashTable`, `xidHashElemCnt`, the cull index | `hashInsertXid` (with its cull loop), `hashLookupXid` | a reply meets the newest call of its key; entries live in the bucket their key hashes to; the count is exact; the cull neither fails its assertion nor follows a freed pointer nor keeps garbage for ever |
| TCP reassembly, `tcp_reassembly.c`, `nfsrecord.c` 298-377 | `tcpHashTable`, `tcpHashElemCnt`, the cull index, malloc'ed buffers | `tcpInsert` (with its cull loop), `tcpLookup`, the TCP branch of the loop of `processPacket` | a reassembled message is a contiguous run of the stream; a buffer has one owner; copies stay in their buffer |
| RPC loop, `nfsrecord.c` 139-558 | the locals of `processPacket` (`consumed`, `tot_len`, `h_len`, `reassemblyBuffer`, `print_it`) | one iteration per RPC message of a packet | it ends, goes from message to message, frees its buffer on each return |
| Packet and RPC headers, `nfsrecord.c` 176-275, 647-911 | none | `getEtherHeader`, `getIpHeader`, `getTcpHeader`, `getUdpHeader`, `getRpcHeader`, `get_auth` | the loop starts at the payload, the decoder at the procedure's data |
| Decoders, `nfs_v3.c`, `nfs_v2.c` | the counters `v3statsBlock`, `v2statsBlock` | `nfs_v3_print_call`, `nfs_v3_print_resp`, `nfs_v2_print_call`, `nfs_v2_print_resp` | a whole message is read to its end, a cut one is reported as SHORT PACKET, the counters add up |
| Interval logging, `nfsdump.c` 85-107, 412-511, 534-662 | `Interval`, `EndOfLife`, `OutFile`, `cur_logname`, the counters, the files | the loop of `main`, `updateOutFile`, `printSummary`, `cleanup` | no record is lost, a published log is final and in order, a summary belongs to its log |
| iphdump, `iphdump.c`, `iprecord.c` | the options, the user's rights, the signal settings, the open files | `main`, `updateOutFile`, `printSummary`, `cleanup`; `processPacket` with `getEtherHeader`, `getIpHeader`, `printPacketHeader` | the files a user names are opened as that user; printed lines reach the output; under nohup(1) it goes on; it ends when it was told to; it sees the packets that nfsdump sees |
| Log scripts, `scripts/nfs-logger.pl`, `nfs-zipper.pl`, `nfs-anon.pl` | the directory of logs | start nfsdump; compress, anonymize, remove | each log ends compressed and anonymized, whole, once |
| Anonymizer, `scripts/anonymize.pl` | maps and counters in files | map a name, an address, an id | the same value always gets the same image, two values never the same one |
| Path reconstruction, `pathtree/` | pending calls and the pause flags of the `Parser`, the relations of `fullpath`, the table of the service, extents | `processCall`, `processReply`, `cleanup`, `pause`, `resume`; `constructPath`; the service; merge | an operation is a call with its reply; a relation and a path were true once; every row is read, once, in order |
| XDR definitions, `nfs_prot.x` | none | | the layouts that the decoders are compared with |
| Portability code, `setsignal.c`, `util.c`, `missing/` | none | | `setsignal` and `read_infile` are part of a run of iphdump |
| Management scripts | none | | not modelled |

How they interact: libpcap calls `packetPrinter`, which calls `processPacket`
with one frame.  `processPacket` owns the tables of calls and of fragments,
walks over the messages of the frame (or of one message put together from
several frames), and calls a decoder for each, which writes to the current
`OutFile` and counts.  The loop of `main` returns from libpcap every
`PACKET_POLL_CNT` packets, looks at the clock, and hands the file and the
counters of a finished interval over by renaming the one and printing the
others.  The scripts see nothing of nfsdump but the names of its files.

The program has one thread.  What is hard in it is not the interleaving of its
own instructions but the order of its inputs (segments and messages lost, late,
repeated, cut anywhere; clocks that go back), state kept from packet to packet
in tables that are culled as a side effect of insertions, unsigned arithmetic
over lengths read from packets, several ways to end at any point, and the
processes that share the directory of logs.

## 2. The modules

| Module | Models | Kind |
| --- | --- | --- |
| `HashChain` | the chains of both hash tables: push at the head, first match, unlink | operators |
| `XidTable` | the XID table and its two users in `processPacket` | state machine |
| `CallMatching` | what the XID table promises, without buckets or cull | abstract specification |
| `MCXidTable` | values for TLC | |
| `CommonProofs` | lemmas on chains, on the places of a key's entries, and on unsigned arithmetic of any width | proofs |
| `XidTableProofs` | the theorems on the table, and that it implements `CallMatching` | proofs |
| `TcpReassembly` | the fragment table and the TCP branch | state machine |
| `MCTcpReassembly` | values for TLC | |
| `TcpReassemblyProofs` | the theorems on fragments and their buffers | proofs |
| `RpcLoop` | the arithmetic and the exits of the loop of `processPacket` | state machine |
| `RpcLoopProofs` | the theorems on the loop | proofs |
| `IntervalLog` | the interval loop, over several runs of the program in one directory | state machine |
| `IphDump` | one run of iphdump, from its options to its end | state machine |
| `MCIphDump` | values for TLC | |
| `Headers` | everything in front of the procedure's data: Ethernet, IP, TCP or UDP, RPC | state machine |
| `IpRecord` | the packets of iphdump, over the frames of `Headers` | state machine |
| `IphDumpProofs` | the theorems on `IphDump` (rights, signals, descriptors, printed lines) and on `Headers` and `IpRecord`, whose functions iphdump shares | proofs |
| `Words` | the words of a message and the functions that print parts of it | operators |
| `NfsV2`, `NfsV3` | the layouts of the messages, and what the decoders read of each | operators |
| `Decoders` | `printRecord`: message after message, with the counters of bytes | state machine |
| `MCDecoders` | values for TLC | |
| `DecodersProofs` | the theorems on what the decoders print, mark and count | proofs |
| `LogScripts` | `nfs-zipper.pl`, `nfs-anon.pl` and the maps of `anonymize.pl` over one directory | state machine |
| `MCLogScripts` | values for TLC | |
| `LogScriptsProofs` | the theorems on logs and codes | proofs |
| `Names` | how a name is printed, and read back by the programs of `pathtree/` | operators |
| `NfsTrace` | the server's tree, its clients, and the log that nfsdump prints of them | state machine |
| `PathTree` | `fhparent.js`, `fullpath.cc`, `fullpath-svc.cc` and `operations.js` over such a log | state machine |
| `MCPathTree` | values for TLC | |
| `LogProofs` | the theorems on `IntervalLog` (the logs of all runs) and on `PathTree` (what is read of a log) | proofs |

`TcpReassembly` and `XidTable` share `HashChain`; `Decoders` extends `NfsV2` and
`NfsV3`, which extend `Words`; `IpRecord` extends `Headers`, and `PathTree` extends
`NfsTrace`, which extends `Names`.  The modules meet at the interfaces of the C
functions: `Headers` ends where `RpcLoop` begins (a header length and a
direction, which `RpcLoop` leaves arbitrary), `RpcLoop` ends where `Decoders`
begins (a payload of which so many words were captured, also arbitrary there),
`LogScripts` begins where `IntervalLog` ends, with the rename that makes a log
appear under its name, and the lines of `NfsTrace` are those that the decoders
print, reduced to the fields that `pathtree/` reads.

### XidTable

A chain is a sequence, newest first; `xidHashTable[b]` is the list of bucket
`b`.  Inserting a call (`Call`) pushes it and enters the cull loop: `cursor` is
the position of the C variable `curr`, 0 outside of the loop.  Each iteration is
a step (`CullOld`, `CullYoung`), the end of the loop another (`CullDone`).  As
the code runs in one thread, nothing else is enabled while `cursor # 0`; the
iterations are separate steps so that the properties see the table inside the
loop, where the saved pointer `next` matters (`NextSurvives`).  The cull does not remove `curr`
but what `hashLookupXid` returns for the key of `curr`, the newest entry of that
key: after that removal everything behind it moves one place to the front,
and that is why `cursor` stays where it is.  `then = now - MAX_AGE` is computed
modulo `WORD`.  `Clock` sets the timestamp of the next packet, forward or
`MaxBack` back.  `Reply` is in two actions, for a reply that is found and one
that is not.

`CallMatching` is the abstract specification: per key the calls still waiting,
newest first, with no buckets and no cull; its `Forget` may drop a call only if
some call of the key is expired.  The refinement mapping (`Pending`) takes for
`pending[k]` the entries of the chain of `HASH(k)` that have key `k`, in their order:
`EntriesOf` numbers the places of these entries (`PlacesOf`, `Nth`), and is a definition
without recursion so that it can be reasoned about.

### TcpReassembly

A byte is its position in a stream, so that a buffer shows what was copied to
where.  A frame may be cut by the snaplen (`net.snaplens`), but the lengths of the copies
(`nfsrecord.c:341`, 358) are those of the IP header: what is then copied from behind the captured
bytes is `Uncaptured` with the position it takes the place of (`Position` of it).  The stream of a connection is a sequence of record marks and bodies; the
network cuts it anywhere (unless `net.aligned`), and loses, repeats and reorders
segments (unless `net.lossless`, which also says that frames are captured whole).  `MarkAt` says where the marks are.  A segment of an
aligned stream has no bytes or at least those of a record mark: with fewer,
`tcpPayloadLength` (`nfsrecord.c:328`) would wrap.  On a lossless network the clock goes
on only as far as no message has a gap of more than `MAX_AGE` seconds, for the cull
drops a fragment that is older.  `memory` gives the content of each buffer that
malloc returned.  A packet is processed message by message: `SoleSegment` (the
message is whole in this segment), `TooLarge` and `FirstSegment` (returns -11
and -12), `NextSegment` (-13), `LastSegment` (the message is complete, the
buffer replaces the packet).  The cull loop of `tcpInsert` is a step per
iteration, as in `XidTable`.

### RpcLoop

The loop over the messages of one packet in unsigned arithmetic modulo `WORD`,
the lengths in words of four bytes.  The content of the packet is a
nondeterministic choice in each iteration: the record mark, the length of the
RPC header that `getRpcHeader` computes, call or reply, status, the outcome of
both lookups.  `print_it` is a local variable that the code assigns on some of
the paths only; where it does not, the model chooses.

### IntervalLog

Time is cut into slots of `Secs`; the records are numbered in the order of
capture, so that a file is a set of numbers and "order" is that of the names of
the files.  The program is started again and again in the same directory
(`Start`), with any of the options `Counts` (-c) and `LifeTimes` (-L), and ends by
itself or, if the behaviour is `disturbed`, also by a signal (`Stop`, any point) or in
a crash that loses what stdio had not written (`Crash`).  Nothing makes a run wait for the next
slot: with -L the program ends in the middle of one and renames its last file, and a run
started in the rest of the slot replaces that log and its records.  `reopened` is the log
that a run may replace so, `replaced` those that were, and the properties say that no
other log is touched.  The runs follow one another; two loggers at the same time are not
modelled (section 6).  `updateOutFile` is two steps, one for each of its halves, since
the clock is read in each (`gettimeofday` in `main`, `time` in `updateOutFile`)
and the clock moves between them.

### Headers

A frame is a record of what makes a difference to the code: its link layer, the
half-words and bytes that are tested, the lengths of IP and TCP options, and the
RPC message as words.  Each header
is a step (`EtherHeader`, `IpHeader`, `TcpHeader`, `UdpHeader`, `OtherTransport`, then
`RpcCall`, `RpcReply` or `BadRpcHeader`), and `Drop` is what they do with a frame that is
not theirs.  The lengths are computed as the
code computes them, in bytes, with the three ways of rounding up to words
(`nfsrecord.c:811`, 826, 892); what the headers should be is written down
apart, from the layouts, and the two are compared.  For jumbo frames of 802.3
the code compares the length in the header with `len - 22`, although that length
counts eight of these bytes: the case is there in the model as in the code, and no
frame built from the layout reaches it.  Calls with another credential than AUTH_UNIX are dropped, as in the code.
`HeadersAssumption` has the ranges of the fields of real frames: a type is above 1500 (below,
it would be a length), a version has four bits, an IP or TCP header at most ten words of
options.  The lengths of names, verifiers, groups, bodies and cuts are any numbers.

### IpRecord

iphdump has functions of its own for the headers, with the same names as those of
nfsdump and other tests.  Both programs get the same frame: first nfsdump, in the
actions of `Headers`, then iphdump (`packetPrinter`), and `SameFrames` compares
what they made of it.  A line is abstracted to its letter, the place of the
transport header from which the ports are read, and, of an echo request, the
number of bytes that are printed from behind the end of the capture
(`iprecord.c` copies 16 of them without a look at the length).

### IphDump

`pc` is the next step of `main`.  Start-up has an action per system call that can
fail or that changes what a signal does: a savefile is opened after `setuid`, a
device before it; `SigHup` sets the handler and `RestoreHup` takes it back if
nohup(1) had SIGHUP ignored.  The loop is that of `IntervalLog` in another
abstraction: of the clock there are only `over` (the interval has ended) and
`dead` (so has the life), both set by the environment, and of the files their
number of descriptors, since `printSummary` opens a file and neither writes nor
closes it.  `-N` goes through `atoi` into an `unsigned`, so that -1 is a great
number of intervals and only 0 is refused.  `pcap_loop` returns at the end of a
savefile as it does after its count of packets.  A signal (`Hangup`, `Terminate`)
may come in front of any step: its default action drops what stdio has, the handler
`cleanup` calls exit, and behind `pcap_close`, where the handler would use a freed
capture, either may happen.  `opened`, `hupAt` and `termAt` are ghosts.

### Names, NfsTrace, PathTree

A name is a sequence of characters, and what is printed of it a sequence of
symbols that are characters or digests: a digest is the name it was made from, as
if SHA-1 had no collisions.  `print_string` escapes (with RAWNAMES) or hashes the
segments; `csvField` is what the CSV parser of the scripts leaves of it; `Fields`
what `operator>>` reads behind `csv.stringify` and `tr ',' '\t'`; `csvRow` is the parser that
reads the service's answers, with what it makes of a quote at any place.

`NfsTrace` is the environment: a server with a tree, clients with one operation
under way each and the same XIDs, lines that are lost, calls and replies that come
twice, pauses.  The log it makes is of the kind that nfsdump prints; a reply without
a handle has the word `ftype` in the handle's place, as in `nfs_v3.c`.  The tree's
history (`ever`, `paths`) is a ghost which the properties compare with.

`PathTree` reads the log twice.  First `fhparent.js` (`ReadFhParent`), row by row with
the `Parser`'s `calls` and `nextCleanup`, into the pipe to `fullpath.cc`, which takes
three fields at a time (`parseInput`) and then walks from each handle to the top
(`WriteResults`; stage "overflow" if there is a handle whose walk has no end).  Then
`operations.js`, with node's events one by one: rows become readable in pieces
(`Readable`), the loop of `readCsv` reads them (`ReadRow`) until one has to ask the
service and pauses the `Parser`, the answer (`Answer`) schedules `Resume` for the next
tick, and the end of the log (`Finish`) may come while the `Parser` is paused.
The service sends the fields it has of a handle as a line (`Fullpath`, `serveSocket`), and the
callback gets what `processResult` finds in the row that `csvRow` makes of it.  A line with
a quote may have no row: then there is no answer, and the `Parser` stays paused.
A failed create or mkdir asks for the word "len" which is where the handle would be, and
gets it back without a path.
An event waits until the loop has ended (`reading`).

### Words, NfsV2, NfsV3, Decoders

A message is a sequence of words with the names under which they should be
printed.  The layouts (`Args3`, `Res3`, `Args2`, `Res2`) are from `nfs_prot.x`, for a
variant that says which optional parts are there; the decoders (`print_call3` to
`print_resp2`) are from the C functions and know nothing of the names: they walk
over the words with a pointer, look at flags and lengths, and give labels.
The two are independent, so that a wrong step shows as a word under the wrong
label.  `actual` is where the capture ends, anywhere in the message or one word
behind it; the words behind it are `junk`, which the decoders can see, since some
of their tests let them read one word too many.  The calls of version 3 are decoded by
the generated XDR routines, as a whole; only WRITE goes field by field, and
`Write3` follows what an XDR routine has consumed when it fails.  The
uninitialised `count` is a choice from `Garbage`.  `CutMarked` says what the absence of the
mark SHORT PACKET is worth: every named field that was captured is on the line.  Two
exceptions are in its formula because they are in the code: the listing of a READDIR
or READDIRPLUS reply (`Listing`), and a call of WRITE cut in its handle.

### LogScripts

The instances of `nfs-zipper.pl` and `nfs-anon.pl` are processes over one
directory.  For each log there are up to three files, `txt`, `gz` and `anon`; the
name of the anonymized file is the same whether it is made from the one or the
other.  Each command of a script that another process could see is a step: the
list of files (`Start`), the test of the output (`CheckOut`), the tie of the maps
(`OpenMaps`), the children that open input and output, in either order (`OpenIn`,
`OpenOut`), a line (`Anonymize`), the end of the streams (`CloseStreams`), untie
(`CloseMaps`), `Unlink`.  Without `$DoAnonymization` gzip replaces a log in two steps
(`GzipStart`, `GzipFinish`).  A tied map keeps its changes until it is untied; of a
run that is killed the map's file has all changes or none (a database that is
written in part is not modelled).  `Kill` ends a script with its children between
any two steps, and `DiskFull` is a gzip that fails at the end, which the scripts do
not look at.  Two variables keep what the properties have to exempt: `disturbed`,
the logs on two lists at once or with an output cut off by a kill or a full disk,
and `split`, whether codes were lost with a killed run or given out by two runs at
once.  In all of these cases the code really does lose records or use a code twice:
the properties say that there are no others.  A killed gzip is not among them: it leaves a
partial `.txt.gz` beside its `.txt`, and as `nfs-anon.pl` lists the `.txt` first,
the partial file is skipped.

A log is the sequence of the values of one field.  The maps of hosts, uids, gids
and words are the same code with other constants; the map of fileids is not
modelled, since `closeMapFiles` never unties it, and what a second tie in the same
run sees of it depends on the database library.  New codes are printed in
hexadecimal and the unmapped values are decimal strings, so that a map with 292217
users would come to the code "60001" of an unmapped one; `ScriptsAssumption`
says that no code which the values of a field can take is an unmapped value.

## 3. The runs

| Run | Shows |
| --- | --- |
| `xid_table` | the chains and the count of the XID table, that each iteration of the cull goes on with just the entries that were behind the one it looked at, the refinement of `CallMatching`, that a call can be answered for `MAX_AGE`, and that garbage is collected |
| `xid_only_garbage` | (violation) the cull frees a call that is not expired |
| `tcp_reassembly` | the fragment table under loss, repetition, reordering, padding, garbage and frames cut by the snaplen: what is put together is in its place; on streams captured whole every message arrives |
| `tcp_pipelined` | (violation) several messages in a segment: wrong bytes |
| `rpc_loop` | the arithmetic of the loop, its termination and its buffer |
| `interval_log` | runs ended in every way: no record lost but in a crash, no log touched but by a run that began in its slot, summaries and logs agree, and, undisturbed, every record reaches a named log |
| `headers` | what nfsdump records of untagged frames is exactly the IPv4 traffic of NFS and MOUNT in TCP or UDP, first fragments only, and of frames with a VLAN tag what by chance has the right length; the payload is found at its place, and iphdump sees the same packets |
| `decoders` | every procedure, cut after every word: names, completeness, the mark of short packets, the byte counters |
| `decoders_cut` | (violation) a reply cut in its first attributes ends the program |
| `iphdump` | a run with any options, signals at any point, savefiles that end early and a limit on open files: rights, descriptors, printed lines, nohup, and that it ends |
| `log_scripts` | scripts that overlap, are killed and find the disk full: which logs are kept, that the codes of all runs agree, and that originals are deleted in the end |
| `pathtree` | two clients on a changing tree, lines lost and repeated, pauses: the relations and paths were true, and every operation of a client is written, once and in order |

Bounds, and why they are enough:

* `xid_table`: two buckets and three keys, two of which share a bucket, are the
  least with both a collision and a bucket to go round to; chains of at most two
  entries before a push (`MaxChain`), so that the cull loop has chains of three,
  with duplicates of a key in front of and behind another key; `MAX_AGE` 1 and
  timestamps 1..3 give young, just not expired and expired entries; the clock may
  go back by one.  `WORD` is 8, and the time never below `MAX_AGE` but in the
  proofs, which have any.
* `tcp_reassembly`: a stream of two messages of different lengths, cut into segments of up to
  three bytes, sequence numbers modulo 16 that wrap inside of the stream, three
  buffers (the most in use at a time), frames with a padding byte, record
  lengths read from the middle of a message, and times 0 to 3 with `MAX_AGE` 1, so that a
  fragment is young, just not expired and expired, and `now - MAX_AGE` wraps.  The same with
  a snaplen that takes the last byte of the longest segments, of a message that begins, goes on or is whole.
  Then two such streams interleaved, without loss.  5.3 million states.
* `rpc_loop`: a word of 32 values and packets of up to eight words, so that every
  sum can wrap; the iteration counter is capped at 2, "any later one".
* `interval_log`: slots of two seconds and six seconds of time, at most three
  records and two runs: three intervals, a restart inside of one, with and without a
  log of it, a crash with records both written and not written.
* `headers`: one value on each side of every test (a type, a version, a protocol,
  a program), options and names with and without a rest modulo four, bodies of
  no, one and many words, and captures that end in each header.
* `decoders`: every procedure with every combination of optional parts; a handle
  of one word and one of two, names of no and of two words, none to two entries
  of a directory; a megabyte of four bytes, so that two counts of 3 carry and
  one of 9 carries twice; two messages, the least for a counter to go on from.
* `log_scripts`: one instance of each script, two logs that have one user in
  common, another one in the second, and an unmapped one in the first; `$DoAnonymization` is off, as in
  `host.tmplt`, and is turned on at any moment; one kill or full disk, at any
  moment, and any number of runs.
* `iphdump`: -c with none and three, -N with -1, 0 and 1, each with every other
  option on and off; a greatest `unsigned` of 7, so that -1 is seven intervals, and eight
  descriptors, which is one more than start-up needs and fewer than seven summaries
  leave open; two packets to a poll, savefiles of none and of three packets (empty,
  and ending in the middle of a poll); two printed lines, one in the buffer and one
  written.
* `pathtree`: one directory below the root and one file, two names; two operations
  besides the mounts, the least for an operation to find the tree changed or to
  overlap another; one fault of any kind; pauses on both sides of `callLifetime`;
  the second client only looks up, so that its XIDs collide with those of the
  first.  Four worlds: an empty and a deep tree with digests, names that need an escape
  or look like an escaped one, and a name with a comma, whose lines the properties say nothing
  of (`Aligned`, `Legible`; both OperationsExact and AllRead fail there).  `operations.js` is followed over logs of up
  to six rows without faults (`MaxReplay`, `MaxReplayFaults`): the `Parser` is the one of
  `fhparent.js`, and what is new is the order of node's events; the theorem is for any value of both.

Fairness: `xid_table` assumes weak fairness of the cull loop's steps, since the C
code runs through it without waiting; nothing is assumed of the packets, and the
property has "if calls keep coming" in its formula.  `rpc_loop` assumes
weak fairness of `Process`, the statements of the function.  `interval_log`
assumes it of the program, of the clock and of the arrival of packets, which is
what the comment at `nfsdump.c:424` does ("assumes that packets are frequent"):
without packets the loop stays in `pcap_loop`.  `log_scripts` assumes it of the
start of each script, which is cron's part, and of the steps of a script that was
started; nothing is assumed of nfsdump, of the edit, of kills and full disks.
`iphdump` assumes it of `main`, of the two clocks and of packets (the same comment, at
`iphdump.c:423`); signals and errors may come or not.  `pathtree` assumes it of
`operations.js` as a whole, node's event loop: rows that are there are read, the service
answers, if a row can be made of its line.  Nothing is assumed of the trace.

Deadlock checking is off in the TCP, interval, header, decoder, iphdump and pathtree
runs, where time, records or messages come to their bound, or the program has ended, and
the model may stop.

## 4. The proofs

The theorems hold for every value of the constants that satisfies the assumption
named in the component's module.  Each rests on an inductive invariant `IInv` of its
own; the properties of the runs are seldom inductive, and what is added to them is
the reason why the code is right.

* `XidTableProofs` (with what `CommonProofs` says of `FirstMatch` and `Unlink`, for any
  type of entry).  `IInv`: every chain is a sequence of entries, each
  entry is in the bucket its key hashes to, `xidHashElemCnt` is the sum of the
  lengths.  The assertion of the cull loop (`CullAssertHolds`) and what the loop has
  ahead of it (`NextPointerValid`) need the second part: the loop walks `CullIndex` but looks
  up and removes in `HASH(key)`, and only that part makes the two one chain.  What is removed is then at
  `curr` or before it, and a removal there moves all that is behind by one (`BehindGap`).  So
  does the exact count (`CounterExact`).  `FreshCallsKept` is an action property: a
  key whose calls are all younger than `MAX_AGE` loses none of them to a cull; the number of waiting
  calls of the other keys does not change, by an injection of their places before
  and after the removal.
* `TableImplementsMatching` (in `XidTableProofs`): the table implements `CallMatching`, step by
  step.  What has to be shown is what a push and a removal do to the entries of each
  key.  `Numbers(h, n, S)` says that `h` numbers the places `S` from 1 to `n` in their
  order; there is only one such numbering, and `Nth` is it.  After a push the numbering
  is the old one moved by one behind a new first place; after the removal of the first match of
  a key it is the old one without its first place, and moved to the front in the part of the
  chain behind the gap; for another key the numbering of the same entries goes through the same
  change of places.  So a push is `See`, a removal is `Answer` of a reply
  or `Forget` of the cull, for which `OlderThan` holds of the entry the loop is at, and all
  the rest of the cull loop is a stutter.
* `TcpReassemblyProofs`.  `IInv`: fragments are in their buckets, no two places of
  the table have the same buffer, each buffer in use belongs to a fragment and is
  as long as the message it is for, of which there is still something missing, and
  `tcpHashElemCnt` is the number of buffers in use.  With distinct buffers, freeing
  that of the fragment found takes exactly one place and one buffer away
  (`ReleaseKept`); `CopiesInBounds` follows from "something missing" and the test
  of `nfsrecord.c:354` alone, whatever the sequence numbers and record marks say;
  `BuffersHaveOneOwner` counts places and buffers by a bijection.
  Three more theorems are about the bytes, on aligned streams: no segment has
  a record mark but at its start, without which they are false (the run `tcp_pipelined`).
  `BuffersExact` adds to `IInv` that only the first message of a packet can be a fragment's
  (`Frame`) and that what a buffer has so far is in the places of its sequence numbers
  (`Content`, `InPlace`), although a mark may have been read from the middle of a message; if no frame is
  cut by the snaplen (`CapturedWhole`), it is the bytes themselves.
  `MessagesContiguous` also needs streams of less than 4 GB (`StreamEnd < WORD`): in a longer one
  two bytes have the same sequence number, and the code cannot tell them apart.
  `EveryMessageDelivered` is for networks that lose nothing (`Faithful` says what that is for the
  frames, the clock and the lengths): the invariant `Whole` follows each stream from its last
  captured byte, which is at a mark with no fragment left or in a body with exactly one
  fragment, which waits for just that sequence number, has all the bytes so far and is not old.
  Streams do not disturb one another, as their fragments have other keys and buffers.
* `RpcLoopProofs` (with the lemmas of `CommonProofs` on remainders: adding to an unsigned word from which the
  carry was dropped is as if it had not been).  `IInv` adds that a reassembled message
  is alone in its buffer, and what `h_len` and `consumed` are during the first
  message.  The length in between may wrap, and does; `NextAtMessageEnd` says that the
  sum is right all the same.  `BufferAlwaysFreed` and `FirstStatusRight` are for
  every return and every content of a packet.
* `LogProofs`, first part, for any number of runs, records and options and any end of a
  run, under the hypothesis `Regular`: the clock is not set back, `time` and
  `gettimeofday` agree, no change to winter time, and a temporary name of its own for
  each nfsdump.  Without any one of these a
  log can be replaced within a run or a temporary file be lost, so it is a hypothesis of the theorems and not an
  assumption of the module.  `IInv`: all logs are of slots that are over and before the slot of the
  open file, but for that of the slot in which the run began (`LogsNamed`), which the two separate looks at the clock establish together by
  a lemma on rounding (`Slots`); the counters are those of the open file, and its records
  are younger than those of all logs (`Contents`).  From it: `RecordsKept`,
  `SummariesAgree`, `NamesInOrder`, `NothingLeftOver`, and the action property
  `LogsStayFinal`.
* `IphDumpProofs`, first part.  `RunInv` says for each place in `main` which rights the process has,
  what SIGHUP does, how many descriptors can be open, and that nothing is printed
  before the loop.  `DescriptorsCounted` is the one that needs most: a failed
  `fopen` of a log is due to the summaries left open and to nothing else, so the places
  between the close of a log and the open of the next have bounds of their own.
  `FilesOpenedAsUser`, `NoLineLost` and `HangupWindow` follow by place.
* `IphDumpProofs`, second part, for frames and messages of any length.  The first lemmas find the
  half-words of a frame and the words of a message through the concatenations that build
  them (`HalfWords`, `CallWords`, `ReplyWords`).  `HeadersInv` has a part for each stage, which
  says how far `consumed` has come in the frame that was sent, and that nothing is
  dropped that is `Wanted`.  It needs one thing that no property mentions: a frame of which the link header
  was mistaken (an 802.3 frame of more than 1500 bytes, or a type that is that of a VLAN tag) goes on to the IP header,
  and only the version found there, in bytes that are another field, drops it (`EtherRight`).
  From it follow `RecordsRight` and `PayloadFound`; a rejected reply is dropped because the length
  computed from its reason (848) is never shorter than the message (`ReplyHeader`).
  `SameFramesSeen` takes iphdump's functions through the same words.
* `DecodersProofs`, for handles, names, directories and counts of any size, every procedure of both
  versions, any optional parts, any values behind the captured words and any cut.  The layouts and the
  decoders are two independent descriptions, and the proof brings them together part by part:
  `At(k, part, b)` says that a part stands at word k of the message, and `Walked(w, k, c, b)`
  that a walk has come past the words before k, if those up to c were captured; else it is lost behind the
  captured words or has failed (`Came`), and in each case what it printed has its own name, and is
  all that was captured unless it failed (`Said`).
  One lemma for each function of the C code takes a walk from one end of its part to the other;
  the entries of a listing are copies of one part (`CopiesParts`).
  From them `Shown` says of each procedure's walk what the
  properties say, and `Messages` that what is decoded is one of the layouts: `DecodersInvariant`,
  and with it `FieldsRight`, `WholePrinted` and `CutMarked`.  A WRITE call goes on after a failure and is
  not such a walk; `Stepped` and `Bounded` say field by field how far it has come, and that it may
  print a wrong offset and count, which the property leaves out as the code does not guard it.
  `CountsTheBytes` is about `BytesExact`: in a message with a count exactly one word has its
  name (`Only`), and if the walk printed it, what is added is its value (`Prints`); the
  carry (648-650) keeps bytes + `MEG` * megabytes (`CarryCounts`), for any number of carries, and
  `BytesInv` leaves open what a message without its count adds, until `exact` is false.
* `LogProofs`, second part, for logs of any length, any loss and repetition of lines, any pauses,
  any number of clients and any `callLifetime`: `OperationsWritten` says that `operations.js`
  has written just what the log says when it closes its connection (`OperationsExact`).  The property
  looks at the whole log, for the last call before a reply; the program has only `calls` and
  `nextCleanup`.  `Remembers` is what connects the two: after p rows `calls` has
  under its key each call that is `Pending`, and no other, which needs that time does not go back
  in the log (`IsLog`), since the cleanup is left out for a call older than the last one
  (`Cleaned`).  So a reply finds a call if and only if it is `Paired`, with the last one that has its key
  (`LastCall`).  `Writes`: what is written is the `Output` of the rows read, except that of a row
  whose answer is not there; `Replay`: until the answer and the tick behind it, the `Parser` is
  paused, so that no second query can overtake the first, and the end that came
  meanwhile is noticed by the loop that `Resume` starts.  The property joins the rows with
  `FlattenSeq`, whose recursion is followed by a least number at which it would fail
  (`Least`, `Counting`, `FlattenMore`).  It supposes (`Legible`) that the lines the service has to send
  are read as they were written, which is so of any line without a quote; that names without a comma
  make only such lines is checked by TLC (`PathsTrue`).  Liveness (`AllRead`) is TLC's.
* `LogScriptsProofs`, for any number of scripts, logs, values, kills and full disks.  `Control` says what
  a script has open at each place of its program.  `Coding`: as long as `split` is false at most one
  script has the map, its map goes on from the file's without a gap in the codes, and all caches and all logs
  written agree with it; from that `CodesAgree`, with the codes counted by the values that have one, so
  that the assumption on the unmapped values can be used.  `Keeping`: on a script's list no file is
  twice and compressed logs come last, logs on two lists are disturbed, and of a log that
  is not, one of the three files is whole, at every place of every program; from that `NoLogLost`.

Types: `TypeOK` of `XidTable`, `RpcLoop`, `IntervalLog`, `IphDump` and `LogScripts`, `Types` in the
`IInv` of `TcpReassemblyProofs` and `Given` in `HeadersInv`, are proved, and not checked in a run.

Model-checked only: liveness, which the prover does not handle; and of path reconstruction
`RelationsExact` and `PathsTrue`, which read names character by character and follow a walk of
any length through the relations.

## 5. What the code does otherwise than its comments say

Runs of kind "violation":

* `xid_only_garbage`: the cull looks the expired entry up by its key and frees
  the newest entry of that key.  After a retransmission this may be a call of the
  same second, while the expired one stays.
* `tcp_pipelined`: `seq` (`nfsrecord.c:318`) and the length of the payload (326-329)
  are those of the segment, not of the message in it: a message that begins
  behind another in a segment is put together wrongly.
* `decoders_cut`: `print_wcc_data3` reads through the pointer that
  `print_pre_op_attr3` returned, which is NULL if the capture ended there
  (`nfs_v3.c:1664`-1666).

Seen while modelling, with no run of their own.  In nfsdump: a message put together from
frames that the snaplen cut (1500 by default, 400 in `INSTALL`) has in it what libpcap had behind the captured bytes, and the decoders
are told that they were captured (`nfsrecord.c:341`, 358, 361; the comment at 560-568 says "actual_len is the number of bytes
actually snarfed"); `print_it` is used without having been
assigned for calls and for accepted replies (300, 508), and a rejected reply is
printed after all if its call is unknown (435, 469); the status of the second reply
of a packet is read from the first (479); the captured length passed to the decoders wraps
for a reply cut off in its status (491); a retransmitted call gets a second entry
(947-951 says there is only one); the type of a frame with a VLAN tag is read from the
length of the IP packet (673), so that the frame is dropped unless that length is 2048; a log's name is its local time
to the minute, so that the hour that comes twice in autumn overwrites its logs
(`nfsdump.c:570`-585); a run that starts in the slot in which `-L` ended another
replaces the log of that slot (`nfsdump.c:546`); the end by `-c` leaves the last interval in the
temporary file (`nfsdump.c:435`, 442); if `time()` lags behind
`gettimeofday()` the next interval may get the name of the one before
(`nfsdump.c:438`, 565); a rejected reply alone in its packet is never recorded; a
word behind the captured ones may be printed (`nfs_v3.c:1301`); a WRITE call cut in
its handle prints the handle's bytes as offset and count (`nfs_v3.c:241`-247); a
cut READDIR listing is left out without a mark (`nfs_v3.c:767`); replies of version 2
that are a status only print an "nfsstat" from the word behind them (`nfs_v2.c:358`);
`count` is added to the bytes even if it was not read (`nfs_v3.c:647`); a path segment
of no characters has its first one read (`print_path_segment`).

In iphdump: each interval leaves the file of its summary open (`iphdump.c:625`), so that a
long run ends in a failed assertion (596); under nohup(1) a hangup between the two
calls of `setsignal` ends the program (391); a signal behind `pcap_close` makes `cleanup`
use the freed capture (478, 494).

In the scripts: new codes of the anonymizer are hexadecimal and the unmapped values decimal,
in one namespace (`scripts/anonymize.pl:359`), and the map of fileids is not untied (741).

In `pathtree/`: a reply without a handle gives a relation of a handle "ftype"
(`fhparent.js:57`); the entries of a listing behind one without a handle are not seen (47);
`constructPath` does not return if the relations have a circle (`fullpath.cc:96`), which a lookup
of "." or "..", or the rename of a directory, can make; a name with a comma, possible with RAWNAMES, shifts the
fields that `fullpath.cc` reads, and the quotes around it come apart (`fullpath.cc:3`): of the line
`d,","` the service's client makes a row without a path, so that the operation is left out, and of `r,",d` none,
so that `operations.js` waits for ever (`fullpath.func.js:8`, 97-103); a failed create or mkdir makes `operations.js`
ask the service for the word "len=..." (`operations.js:104`); the calls are cleaned up at each call, not "every
cleanupInterval" (`nfsdump.func.js:49`).


## 6. Not modelled, and why

* The text of the records (formatting, wording), the counters of calls per procedure and
  the text of the summaries: no state depends on them.
* The parsing of options of nfsdump and its start-up (`nfsdump.c` 299-418): the same
  code as that of iphdump, where it is modelled.  Its capture without intervals, likewise.
* Two loggers at the same time, as `nfs-logger.pl` has them for the grace period of its cron job: each
  has its own temporary file, and both rename theirs to the name of the same slot, so that the log
  of an interval in which both run is the one of the later rename.  `scripts/INSTALL` warns of it ("the data
  can be scrambled if you have two loggers running at the same time").
* libpcap, its filter, and the generated XDR routines: libraries here, modelled only as
  far as the code sees their results.
* The portability code taken over from tcpdump and autoconf (`gmt2local.c`, `missing/`, the
  rest of `util.c`): substitutes for library functions, without state.
* In the anonymizer, `anonymizeWORD`, which takes a name apart at its dots and puts it together
  again, and the map of fileids, whose content at a second tie depends on the database library.
* In `pathtree/`, `rwmerge.js`; the numbers (sizes, offsets) in the rows of `operations.js`;
  `fullpath.js`, which is `fullpath.cc` in another language; replies to create with neither handle nor
  attributes.
* The management shell scripts, which are pipelines without state, and
  `nfs-transporter.pl`, which has an unterminated quote at line 55 and does not compile.

## 7. What could come next

1. Of `PathTree`, that a relation was true once (`RelationsExact`), from the history of the tree;
   it needs that `csvField` and `Fields` undo what `print_string` does, for names of any length.
2. `anonymizeWORD`: different names should have different images (`split` drops empty parts at
   the end of a name, so that names that end in dots need a look).
3. `rwmerge.js`: the merged extents are those of the reads and writes.
