------------------------------ MODULE ProxyLoop ------------------------------
(***************************************************************************)
(* The connection loop of one proxied client (proxy.rs, connection.rs, the *)
(* send and receive halves of virtwl_channel.rs, the clipboard pumps of    *)
(* data_device.rs).  Two peers write byte streams with descriptors; the    *)
(* loop reads whatever a transport returns, dispatches at most MaxBatch    *)
(* complete frames of one direction, writes the result to the other peer   *)
(* and what the handlers queued for the sender back to it, and only then   *)
(* looks at either stream again.                                           *)
(*                                                                         *)
(* What a handler does to a message is its kind; which descriptors the     *)
(* message gets is decided by the position in the descriptor stream, as in *)
(* the code.  Sizes are bytes.                                             *)
(***************************************************************************)
EXTENDS Integers, Sequences, FiniteSets, SequencesExt

CONSTANTS
  Messages,     \* Messages[d]: records [kind, op, len, fd] the source of d may send
  MaxBatch,     \* MAX_MESSAGES_PER_BATCH
  SendMaxFds,   \* VIRTWL_SEND_MAX_ALLOCS
  QMax,         \* items a peer's socket holds before writes block
  MaxSent,      \* bound: MaxSent[d] messages are sent in direction d
  MaxTotal,     \* bound: messages sent in a behaviour
  Whole         \* TRUE: a receive ends at a message boundary; FALSE: anywhere

\* A message owns at most one descriptor, and a clipboard transfer is a request of the client
\* (wl_data_offer.receive, on_receive).
ASSUME MessagesAssumption ==
  /\ \A d \in {"c2h", "h2c"} : \A m \in Messages[d] : m.fd \in {0, 1}
  /\ \A m \in Messages["h2c"] : m.kind \notin {"receive", "rejectedreceive"}

ASSUME BoundsAssumption ==
  /\ {MaxBatch, SendMaxFds, QMax, MaxTotal} \subseteq Nat \ {0}
  /\ MaxSent \in [{"c2h", "h2c"} -> Nat]
  /\ Whole \in BOOLEAN

VARIABLES
  sent,     \* sent[d]: what the source of d has written
  taken,    \* taken[d]: how many of them are wholly in, or through, read_buf
  part,     \* part[d]: bytes of the next one in read_buf
  done,     \* done[d]: how many have been drained from read_buf
  fdsIn,    \* fdsIn[d]: descriptors of the first fdsIn[d] messages have arrived
  rfds,     \* rfds[d]: read_fds
  amb,      \* amb[d]: ambiguous_untracked_fd
  pc,       \* "loop", "batch", "forward", "reverse", "closed"
  dir,      \* direction handle_msgs works on
  prefer,   \* the preferred direction (prefer_host)
  off,      \* messages of the batch handled so far
  fdoff,    \* descriptors they consumed
  out,      \* out_buffer and out_fds: items for the other peer
  rev,      \* items queued for the sending peer
  pos,      \* items of the current send already written
  ok,       \* success of handle_msgs
  fatal,    \* fatal_protocol_error
  pumps,    \* clipboard pump tasks still running
  held,     \* descriptors the process has open
  twice,    \* a descriptor was closed that the process no longer owned
  got,      \* got[d]: items handed to the target of d
  unread,   \* unread[d]: how many of them it has not read yet
  gone      \* peers that closed their connection, by the direction they write

streamVars == <<sent, taken, part, fdsIn>>
batchVars == <<off, fdoff, out, rev, pos, ok, fatal>>
peerVars == <<got, unread, gone>>
vars == <<sent, taken, part, done, fdsIn, rfds, amb, pc, dir, prefer, off, fdoff,
          out, rev, pos, ok, fatal, pumps, held, twice, got, unread, gone>>

Dirs == {"c2h", "h2c"}
Other(d) == IF d = "c2h" THEN "h2c" ELSE "c2h"

\* A descriptor is named after the message that owns it: its own ("msg"), the
\* duplicate of a clipboard pipe queued for the host ("pipe"), and the pair
\* a pump task owns ("pump").
Fd(d, k, what) == <<d, k, what>>

FdsOf(items) == UNION {Range(items[i].fds) : i \in DOMAIN items}

Item(d, k, fds) == [from |-> d, k |-> k, fds |-> fds]

\* The item a message of each kind is meant to produce, for RelayChannels.
OwnFds(d, k, m) == IF m.fd = 1 THEN <<Fd(d, k, "msg")>> ELSE <<>>

Outputs(d, k, m) ==
  CASE m.kind \in {"forward", "acked"} -> {Item(d, k, OwnFds(d, k, m))}
    [] m.kind = "receive" -> {Item(d, k, <<Fd(d, k, "pipe")>>)}
    [] OTHER -> {}

Answers(d, k, m) ==
  IF m.kind \in {"acked", "fatal"} THEN {Item(d, k, <<>>)} ELSE {}

Init ==
  /\ sent = [d \in Dirs |-> <<>>]
  /\ taken = [d \in Dirs |-> 0]
  /\ part = [d \in Dirs |-> 0]
  /\ done = [d \in Dirs |-> 0]
  /\ fdsIn = [d \in Dirs |-> 0]
  /\ rfds = [d \in Dirs |-> <<>>]
  /\ amb = [d \in Dirs |-> FALSE]
  /\ pc = "loop" /\ dir = "c2h" /\ prefer = "h2c"
  /\ off = 0 /\ fdoff = 0 /\ out = <<>> /\ rev = <<>> /\ pos = 0
  /\ ok = TRUE /\ fatal = FALSE
  /\ pumps = {} /\ held = {} /\ twice = FALSE
  /\ got = [d \in Dirs |-> <<>>]
  /\ unread = [d \in Dirs |-> 0]
  /\ gone = {}

-----------------------------------------------------------------------------
(* Peers (the guest client and the compositor).                            *)

\* The loop looks at what a peer did only where it reads or writes a transport,
\* so a step of a peer in between is taken to happen at the next such point.

\* Bound: nothing is written behind a message that ends the session.
Ended(d) == sent[d] # <<>> /\ Last(sent[d]).kind \in
             {"fatal", "badctl", "badtxn", "badlen", "unknown", "error", "rejectedreceive"}

PeerSend(d, m) ==
  /\ pc = "loop"
  /\ d \notin gone
  /\ ~Ended(d)
  /\ Len(sent[d]) < MaxSent[d]
  /\ Len(sent["c2h"]) + Len(sent["h2c"]) < MaxTotal
  /\ sent' = [sent EXCEPT ![d] = Append(@, m)]
  /\ UNCHANGED <<taken, part, done, fdsIn, rfds, amb, pc, dir, prefer, batchVars,
                 pumps, held, twice, peerVars>>

PeerRead(d) ==
  /\ pc \in {"forward", "reverse"}
  /\ unread[d] = QMax
  /\ unread' = [unread EXCEPT ![d] = @ - 1]
  /\ UNCHANGED <<streamVars, done, rfds, amb, pc, dir, prefer, batchVars, pumps,
                 held, twice, got, gone>>

PeerClose(d) ==
  /\ pc \in {"loop", "forward", "reverse"}
  /\ d \notin gone
  /\ gone' = gone \cup {d}
  /\ UNCHANGED <<streamVars, done, rfds, amb, pc, dir, prefer, batchVars, pumps,
                 held, twice, got, unread>>

-----------------------------------------------------------------------------
(* Receiving.                                                              *)

\* The transport has bytes for direction d, or its end of file.
Pending(d) == taken[d] < Len(sent[d])
AtEof(d) == d \in gone /\ ~Pending(d)

\* One recvmsg or VIRTWL_IOCTL_RECV: some more bytes, and the descriptors of
\* every message begun, possibly with those of messages written behind them.
Received(d, n, p, f) ==
  /\ Pending(d)
  /\ n \in taken[d]..Len(sent[d])
  /\ n = taken[d] => p > part[d]
  /\ p > 0 => n < Len(sent[d]) /\ p < sent[d][n + 1].len
  /\ Whole => p = 0
  /\ f \in {IF p > 0 THEN n + 1 ELSE n, Len(sent[d])}
  /\ f >= fdsIn[d]
  /\ taken' = [taken EXCEPT ![d] = n]
  /\ part' = [part EXCEPT ![d] = p]
  /\ fdsIn' = [fdsIn EXCEPT ![d] = f]
  /\ LET arrived == FlattenSeq([i \in 1..(f - fdsIn[d]) |->
                      OwnFds(d, fdsIn[d] + i, sent[d][fdsIn[d] + i])])
     IN /\ rfds' = [rfds EXCEPT ![d] = @ \o arrived]
        /\ held' = held \cup Range(arrived)
  /\ UNCHANGED sent

\* Ancillary data that cannot be decoded (a truncated or malformed control
\* buffer of the client socket, a VirtWL transaction that is too long or whose
\* descriptor array has holes): the descriptors it installed are closed on the
\* spot and the receive fails.
BadControl(m) == m.kind = "badctl"
BadTransaction(m) == m.kind = "badtxn"

Malformed(d, n, p) ==
  \E k \in (taken[d] + 1)..(IF p > 0 THEN n + 1 ELSE n) :
    IF d = "c2h" THEN BadControl(sent[d][k]) ELSE BadTransaction(sent[d][k])

Cuts == {0, 4, 8}

\* The length has_complete_message reads: bytes 4 and 5 of the header, which on
\* the little-endian build hold the opcode.
PeekedLength(m) == m.op

\* Mutant: frames left behind by a full batch wait for more input.
ReadyUnseen(d, n, p) == FALSE

\* read_buf of d holds the frames up to the n-th and p bytes of the next one.
Ready(d, n, p) ==
  LET first == sent[d][done[d] + 1]
      bytes == FoldLeft(LAMBDA a, m : a + m.len, p, SubSeq(sent[d], done[d] + 1, n))
      length == PeekedLength(first)
  IN /\ bytes >= 8
     /\ length < 8 \/ length % 4 # 0 \/ length <= bytes

has_complete_message(d) == Ready(d, taken[d], part[d])

-----------------------------------------------------------------------------
(* Teardown: what run does after the loop and the destructors that follow. *)

\* An early return closes the output descriptors that the connection does not
\* own, stop_clipboard_pumps aborts the tasks, dropping the connections closes
\* read_fds, dropping the context closes what the handlers left queued.  fresh is
\* the set of clipboard requests the rejected message had queued.
PumpFds(ks) == {Fd("c2h", k, "pump") : k \in ks}

EarlyReturnFds == FdsOf(out) \ Range(rfds[dir])
ConnectionFds == Range(rfds["c2h"]) \cup Range(rfds["h2c"])
\* Mutant: a context dropped with descriptors still queued leaks them.
ContextFdsForgotten(fresh) == FdsOf(rev)

ContextFds(fresh) == FdsOf(rev) \cup {Fd("c2h", k, "pipe") : k \in fresh}

Teardown(fresh) ==
  LET all == held \cup {Fd("c2h", k, "pipe") : k \in fresh}
      closed == EarlyReturnFds \cup ConnectionFds \cup ContextFds(fresh)
  IN /\ pc' = "closed"
     /\ pumps' = {}
     /\ held' = (all \ closed) \ PumpFds(pumps)
     /\ twice' = (twice \/ ~(closed \subseteq all))
     /\ rfds' = [d \in Dirs |-> <<>>]
     /\ out' = <<>> /\ rev' = <<>>
     /\ UNCHANGED <<done, amb, dir, prefer, off, fdoff, pos, ok, fatal, peerVars>>

-----------------------------------------------------------------------------
(* The loop of run.                                                        *)

\* What waits for direction d: a frame in read_buf or bytes in the transport.
Waiting(d) == done[d] < Len(sent[d])

Begin(d) ==
  /\ pc' = "batch"
  /\ dir' = d
  /\ off' = 0 /\ fdoff' = 0 /\ out' = <<>> /\ rev' = <<>> /\ pos' = 0 /\ ok' = TRUE
  /\ UNCHANGED <<done, amb, prefer, fatal, pumps, twice, peerVars>>

\* next_buffered_direction finds a frame of the preferred direction.
DispatchPreferred ==
  /\ pc = "loop"
  /\ has_complete_message(prefer)
  /\ Begin(prefer)
  /\ UNCHANGED <<streamVars, rfds, held>>

\* It finds one of the other direction only: one non-blocking receive from the
\* preferred transport decides.
Probe ==
  /\ pc = "loop"
  /\ ~has_complete_message(prefer)
  /\ has_complete_message(Other(prefer))
  /\ ~AtEof(prefer)
  /\ \/ /\ ~Pending(prefer)
        /\ Begin(Other(prefer))
        /\ UNCHANGED <<streamVars, rfds, held>>
     \/ \E n, f \in 0..Len(sent[prefer]), p \in Cuts :
          /\ Received(prefer, n, p, f)
          /\ ~Malformed(prefer, n, p)
          /\ IF Ready(prefer, n, p)
             THEN Begin(prefer)
             ELSE Begin(Other(prefer))

\* Neither: tokio::select! takes whichever transport is readable.
Select(d) ==
  /\ pc = "loop"
  /\ \A e \in Dirs : ~has_complete_message(e)
  /\ \E n, f \in 0..Len(sent[d]), p \in Cuts :
       Received(d, n, p, f) /\ ~Malformed(d, n, p)
  /\ Begin(d)

\* End of file or a failed receive, in the probe or in the select.
Disconnect(d) ==
  /\ pc = "loop"
  /\ ~has_complete_message(d)
  /\ has_complete_message(Other(d)) => prefer = d
  /\ \/ AtEof(d)
     \/ Pending(d) /\ \E n \in (taken[d] + 1)..Len(sent[d]) : Malformed(d, n, 0)
  /\ Teardown({})
  /\ UNCHANGED <<sent, taken, part, fdsIn>>

-----------------------------------------------------------------------------
(* handle_msgs: one step per frame, then the two sends.                    *)

K == done[dir] + off + 1
M == sent[dir][K]

HeaderIn == K <= taken[dir] \/ (K = taken[dir] + 1 /\ part[dir] >= 8)
FrameIn == K <= taken[dir]
InvalidLength == M.kind = "badlen"

\* The loop over read_buf ends: no header, no complete frame, a fatal error was
\* reported, or the batch is full.
BatchFull == off >= MaxBatch

EndOfBatch ==
  \/ ~HeaderIn
  \/ HeaderIn /\ ~FrameIn /\ ~InvalidLength
  \/ off > 0 /\ (fatal \/ BatchFull)

\* Early returns: an invalid length, a frame after an untracked one that may
\* own the queued descriptors, a request from an unknown object, a message the
\* dispatcher rejects or that leaves payload behind.
\* Mutant: the frame after an untracked one takes the next descriptors anyway.
AmbiguityIgnored == FALSE

AmbiguousFd == amb[dir]

Rejected ==
  \/ InvalidLength
  \/ /\ FrameIn
     /\ AmbiguousFd \/ M.kind \in {"unknown", "error", "rejectedreceive"}

RejectMsg ==
  /\ pc = "batch" /\ ~EndOfBatch /\ Rejected
  /\ Teardown(IF M.kind = "rejectedreceive" /\ ~AmbiguousFd THEN {K} ELSE {})
  /\ UNCHANGED streamVars

\* The descriptors the frame gets: the next ones of the stream.
TakenFds == SubSeq(rfds[dir], fdoff + 1, fdoff + M.fd)

\* A message of an object the table does not know is dropped without knowing
\* how many descriptors it owns.
Untracked ==
  /\ amb' = [amb EXCEPT ![dir] = @ \/ fdoff < Len(rfds[dir])]
  /\ UNCHANGED <<fdoff, out, rev, fatal, pumps, held>>

\* wl_data_offer.receive over VirtWL: the host gets the duplicate of a new pipe,
\* a pump task owns the pipe and a duplicate of the client's descriptor.  A
\* request whose pipe or duplicate cannot be made is "consumed": nothing is
\* queued and what was opened is closed again.
Receive ==
  /\ out' = Append(out, Item(dir, K, <<Fd(dir, K, "pipe")>>))
  /\ pumps' = pumps \cup {K}
  /\ held' = held \cup {Fd(dir, K, "pipe"), Fd(dir, K, "pump")}

Dispatched ==
  /\ fdoff' = fdoff + M.fd
  /\ UNCHANGED amb
  /\ \/ /\ M.kind \in {"forward", "acked"}
        /\ out' = Append(out, Item(dir, K, TakenFds))
        /\ rev' = IF M.kind = "acked" THEN Append(rev, Item(dir, K, <<>>)) ELSE rev
        /\ UNCHANGED <<fatal, pumps, held>>
     \/ /\ M.kind = "consumed"
        /\ UNCHANGED <<out, rev, fatal, pumps, held>>
     \/ /\ M.kind = "receive"
        /\ Receive
        /\ UNCHANGED <<rev, fatal>>
     \/ /\ M.kind = "fatal"
        /\ fatal' = TRUE
        /\ rev' = Append(rev, Item(dir, K, <<>>))
        /\ UNCHANGED <<out, pumps, held>>

HandleMsg ==
  /\ pc = "batch" /\ ~EndOfBatch /\ ~Rejected
  /\ off' = off + 1
  /\ IF M.kind = "untracked" THEN Untracked ELSE Dispatched
  /\ UNCHANGED <<streamVars, done, rfds, pc, dir, prefer, pos, ok, twice, peerVars>>

FinishBatch ==
  /\ pc = "batch" /\ EndOfBatch
  /\ pc' = "forward"
  /\ UNCHANGED <<streamVars, done, rfds, amb, dir, prefer, batchVars, pumps, held,
                 twice, peerVars>>

\* A send of items in direction e: it fails when the peer is gone or, towards
\* the host, when the batch carries more descriptors than one transaction
\* takes; it blocks while the peer's queue is full.
SendFails(e, items) ==
  \/ Other(e) \in gone
  \/ e = "c2h" /\ Cardinality(FdsOf(items)) > SendMaxFds

SendItem(e, items) ==
  /\ pos < Len(items)
  /\ ~SendFails(e, items)
  /\ unread[e] < QMax
  /\ got' = [got EXCEPT ![e] = Append(@, items[pos + 1])]
  /\ unread' = [unread EXCEPT ![e] = @ + 1]
  /\ pos' = pos + 1
  /\ UNCHANGED <<streamVars, done, rfds, amb, pc, dir, prefer, off, fdoff, out, rev,
                 ok, fatal, pumps, held, twice, gone>>

SendForward == pc = "forward" /\ SendItem(dir, out)

SendReverse == pc = "reverse" /\ SendItem(Other(dir), rev)

\* The forward send ends, by completion or by an error that does not stop the
\* reverse one.
ForwardEnds ==
  /\ pc = "forward"
  /\ \/ pos = Len(out) /\ UNCHANGED ok
     \/ pos < Len(out) /\ SendFails(dir, out) /\ ok' = FALSE
  /\ pc' = "reverse"
  /\ pos' = 0
  /\ UNCHANGED <<streamVars, done, rfds, amb, dir, prefer, off, fdoff, out, rev,
                 fatal, pumps, held, twice, peerVars>>

\* The descriptors this batch closes: written ones and consumed ones, once each.
BatchFds == FdsOf(out) \cup FdsOf(rev) \cup Range(SubSeq(rfds[dir], 1, fdoff))

\* Mutant: host input is preferred whatever was dispatched last.
AlwaysPreferHost == "h2c"

\* prefer_host after a batch: the direction that did not have it.
NextPreference == Other(dir)

\* The reverse send ends; everything the batch used is closed and drained, and
\* the loop goes on unless a send failed or the session is over.
ReverseEnds ==
  /\ pc = "reverse"
  /\ pos = Len(rev) \/ SendFails(Other(dir), rev)
  /\ LET good == ok /\ pos = Len(rev) /\ ~fatal
         kept == [rfds EXCEPT ![dir] = SubSeq(@, fdoff + 1, Len(@))]
         left == held \ BatchFds
         conns == Range(kept["c2h"]) \cup Range(kept["h2c"])
     IN /\ twice' = (twice \/ ~(BatchFds \subseteq held))
        /\ pc' = IF good THEN "loop" ELSE "closed"
        /\ rfds' = IF good THEN kept ELSE [d \in Dirs |-> <<>>]
        /\ pumps' = IF good THEN pumps ELSE {}
        /\ held' = IF good THEN left
                   ELSE (left \ conns) \ PumpFds(pumps)
  /\ done' = [done EXCEPT ![dir] = @ + off]
  /\ prefer' = NextPreference
  /\ off' = 0 /\ fdoff' = 0 /\ out' = <<>> /\ rev' = <<>> /\ pos' = 0 /\ ok' = TRUE
  /\ UNCHANGED <<streamVars, amb, dir, fatal, peerVars>>

\* A clipboard transfer reaches its end of file or an error: the task drops the
\* descriptors it owns.  reap_clipboard_pumps only forgets the handle.
PumpEnds(k) ==
  /\ pc = "loop"
  /\ k \in pumps
  /\ pumps' = pumps \ {k}
  /\ held' = held \ {Fd("c2h", k, "pump")}
  /\ UNCHANGED <<streamVars, done, rfds, amb, pc, dir, prefer, batchVars, twice,
                 peerVars>>

Proxy ==
  \/ DispatchPreferred \/ Probe \/ \E d \in Dirs : Select(d) \/ Disconnect(d)
  \/ RejectMsg \/ HandleMsg \/ FinishBatch
  \/ SendForward \/ ForwardEnds \/ SendReverse \/ ReverseEnds

Next ==
  \/ Proxy
  \/ \E d \in Dirs :
       \/ \E m \in Messages[d] : PeerSend(d, m)
       \/ PeerRead(d)
       \/ PeerClose(d)
  \/ \E k \in pumps : PumpEnds(k)

\* The task of a connection runs while it can; select! picks a ready branch at
\* random, so neither transport is passed over for ever; peers drain their
\* sockets.
Fairness ==
  /\ WF_vars(Proxy)
  /\ \A d \in Dirs : SF_vars(Select(d)) /\ WF_vars(PeerRead(d))

Spec == Init /\ [][Next]_vars /\ Fairness

-----------------------------------------------------------------------------
(* Properties.                                                             *)

\* The connection refines the abstract pair of FIFO channels: whatever the cuts,
\* batches, probes, replies and blocked sends, a peer gets the items of the
\* other peer's messages in order, once, with their own descriptors.
Channels == INSTANCE RelayChannels WITH open <- (pc # "closed")
RelaysInOrder == Channels!Spec

\* Every descriptor the process opened for this connection is closed exactly
\* once: between batches it owns those still in read_fds and those of running
\* pumps, and after teardown none.
DescriptorsAccounted ==
  /\ ~twice
  /\ pc = "loop" => held = ConnectionFds \cup PumpFds(pumps)
  /\ pc = "closed" => held = {}

\* Fairness between the directions: after a batch of one direction the next
\* buffered batch is not of the same one while the other has input waiting, be
\* it in read_buf or still in the transport.
OneBatchOfDelay ==
  [][pc = "loop" /\ pc' = "batch" /\ dir' = dir
       /\ (\E d \in Dirs : has_complete_message(d))
     => ~Waiting(Other(dir))]_vars

\* Every message a peer has sent is eventually dispatched, unless the connection
\* ends: again and again nothing waits.  No wait of the loop is a deadlock, no
\* buffered frame and no readable transport is forgotten.
EverySentMessageHandled ==
  []<>(pc = "closed" \/ \A d \in Dirs : ~Waiting(d))
==============================================================================
