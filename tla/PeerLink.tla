------------------------------ MODULE PeerLink ------------------------------
(***************************************************************************)
(* One connection between two nodes after the handshake, in time: reading  *)
(* frames with an idle timeout, the keepalive, and sending through a       *)
(* bounded queue with a deadline (_PeerConnection.send and _run, and       *)
(* read_frame of p2p_protocol.py).                                         *)
(*                                                                         *)
(* Each end has the task that reads frames and handles them, and relays    *)
(* that other tasks send.  A frame is written as two pieces, its prefix    *)
(* and its payload, which read_frame awaits one after the other.  What one *)
(* end has written and the other not yet read fills the transport and      *)
(* socket buffers; above HighWater pieces drain waits.                     *)
(*                                                                         *)
(* Time passes in ticks, and only when no timer is due and the event loops *)
(* have nothing to do; a written piece is there after at most MaxDelay.    *)
(* The ticks are not counted: every age in the state is bounded.           *)
(***************************************************************************)
EXTENDS Integers, Sequences, FiniteSets

CONSTANTS
  a, b,               \* the two ends
  IdleTimeout,        \* IDLE_TIMEOUT_SECONDS
  WriteTimeout,       \* write_timeout_seconds
  MaxPendingSends,    \* max_pending_sends_per_peer
  HighWater,          \* pieces the buffers hold before drain waits
  ResponseBlocks,     \* frames in the response to GET_BLOCKS
  MaxDelay,           \* ticks a piece may be on its way
  MayFreeze,          \* the ends whose process may stop running
  MaxRelays,          \* bound: relays started, at both ends together
  MaxRequests         \* bound: GET_BLOCKS sent by each end

ASSUME PeerLinkAssumption ==
  /\ a # b /\ MayFreeze \subseteq {a, b}
  /\ {IdleTimeout, WriteTimeout, MaxPendingSends, ResponseBlocks} \subseteq Nat \ {0}
  /\ {HighWater, MaxDelay, MaxRelays, MaxRequests} \subseteq Nat

Ends == {a, b}
Peer(e) == IF e = a THEN b ELSE a

NoPing == 0          \* _pending_ping is None

Frame(type, nonce) == [type |-> type, nonce |-> nonce]
Ping(n)   == Frame("PING", n)
Pong(n)   == Frame("PONG", n)
GetBlocks == Frame("GET_BLOCKS", NoPing)
Data      == Frame("BLOCK", NoPing)       \* or a TRANSACTION, SYNC_COMPLETE, REJECT

VARIABLES
  state,     \* end -> "open", or why it has closed the connection
  mode,      \* end -> its task awaits a "read" or a "send"
  part,      \* end -> the part of a frame the task reads next
  idle,      \* end -> how long it has been waiting for that part
  todo,      \* end -> the frames its handler has still to send
  queue,     \* end -> the sends in progress, in the order of the lock
  written,   \* end -> whether the first of them has been written
  ping,      \* end -> _pending_ping
  lastNonce, \* end -> the nonce of its last PING
  pipe,      \* end -> the pieces it has written and the peer not read
  frozen,    \* the ends that no longer run
  relays, requests

taskVars == <<mode, part, idle, todo, ping, lastNonce>>
sendVars == <<queue, written>>
countVars == <<relays, requests>>
vars == <<state, taskVars, sendVars, pipe, frozen, countVars>>

Init ==
  /\ state = [e \in Ends |-> "open"]
  /\ mode = [e \in Ends |-> "read"]
  /\ part = [e \in Ends |-> "prefix"]
  /\ idle = [e \in Ends |-> 0]
  /\ todo = [e \in Ends |-> <<>>]
  /\ queue = [e \in Ends |-> <<>>]
  /\ written = [e \in Ends |-> FALSE]
  /\ ping = [e \in Ends |-> NoPing]
  /\ lastNonce = [e \in Ends |-> NoPing]
  /\ pipe = [e \in Ends |-> <<>>]
  /\ frozen = {}
  /\ relays = 0 /\ requests = [e \in Ends |-> 0]

Runs(e) == state[e] = "open" /\ e \notin frozen

(* close, for the given reason: the sends in progress fail and the task ends;
   what has been written is still flushed. *)
Close(e, why) ==
  /\ state' = [state EXCEPT ![e] = why]
  /\ queue' = [queue EXCEPT ![e] = <<>>]
  /\ written' = [written EXCEPT ![e] = FALSE]
  /\ todo' = [todo EXCEPT ![e] = <<>>]
  /\ mode' = [mode EXCEPT ![e] = "read"]
  /\ part' = [part EXCEPT ![e] = "prefix"]
  /\ idle' = [idle EXCEPT ![e] = 0]
  /\ UNCHANGED <<ping, lastNonce>>

-----------------------------------------------------------------------------
(* send *)

(* The send enters the queue with its deadline running, or fails at the bound:
   a task that cannot send ends, and a relay closes the connection. *)
StartSend(e, frame, by) ==
  IF Len(queue[e]) >= MaxPendingSends
    THEN Close(e, "full")
    ELSE /\ queue' = [queue EXCEPT ![e] = Append(@, [frame |-> frame, by |-> by, age |-> 0])]
         /\ UNCHANGED <<state, taskVars, written>>

(* _broadcast from another task. *)
Relay(e) ==
  /\ Runs(e) /\ relays < MaxRelays
  /\ relays' = relays + 1
  /\ StartSend(e, Data, "relay")
  /\ UNCHANGED <<pipe, frozen, requests>>

Sending(e) == \E i \in DOMAIN queue[e] : queue[e][i].by = "task"

(* The handler sends its next frame, or is done and the task reads on. *)
TaskSends(e) ==
  /\ Runs(e) /\ mode[e] = "send" /\ ~Sending(e) /\ todo[e] # <<>>
  /\ StartSend(e, Head(todo[e]), "task")
  /\ UNCHANGED <<pipe, frozen, countVars>>

TaskReadsOn(e) ==
  /\ Runs(e) /\ mode[e] = "send" /\ ~Sending(e) /\ todo[e] = <<>>
  /\ mode' = [mode EXCEPT ![e] = "read"]
  /\ idle' = [idle EXCEPT ![e] = 0]
  /\ UNCHANGED <<state, part, todo, ping, lastNonce, sendVars, pipe, frozen, countVars>>

(* The first send has the lock and writes its frame. *)
Write(e) ==
  /\ Runs(e) /\ queue[e] # <<>> /\ ~written[e]
  /\ LET frame == Head(queue[e]).frame
         Piece(p) == [part |-> p, frame |-> frame, age |-> 0]
     IN  pipe' = [pipe EXCEPT ![e] = @ \o <<Piece("prefix"), Piece("payload")>>]
  /\ written' = [written EXCEPT ![e] = TRUE]
  /\ UNCHANGED <<state, taskVars, queue, frozen, countVars>>

(* drain returns: the lock goes to the next send. *)
Drained(e) ==
  /\ Runs(e) /\ written[e] /\ Len(pipe[e]) <= HighWater
  /\ queue' = [queue EXCEPT ![e] = Tail(@)]
  /\ written' = [written EXCEPT ![e] = FALSE]
  /\ todo' = IF Head(queue[e]).by = "task" THEN [todo EXCEPT ![e] = Tail(@)] ELSE todo
  /\ UNCHANGED <<state, mode, part, idle, ping, lastNonce, pipe, frozen, countVars>>

Overdue(e) == \E i \in DOMAIN queue[e] : queue[e][i].age >= WriteTimeout

(* asyncio.timeout over the lock, the write and the drain.  (Without a deadline
   two ends that only write wait for each other for ever.) *)
NeverTimesOut(e) == FALSE /\ UNCHANGED vars

SendTimeout(e) ==
  /\ Runs(e) /\ Overdue(e)
  /\ Close(e, "write")
  /\ UNCHANGED <<pipe, frozen, countVars>>

-----------------------------------------------------------------------------
(* _run and read_frame *)

Reads(e, p) ==
  Runs(e) /\ mode[e] = "read" /\ part[e] = p /\ pipe[Peer(e)] # <<>>

Next1(e) == Head(pipe[Peer(e)])
Consume(e) == pipe' = [pipe EXCEPT ![Peer(e)] = Tail(@)]

(* The prefix.  Where a payload comes instead the magic is wrong, and the peer
   pays twenty points. *)
ReadPrefix(e) ==
  /\ Reads(e, "prefix") /\ Consume(e)
  /\ IF Next1(e).part = "prefix"
       THEN /\ part' = [part EXCEPT ![e] = "payload"]
            /\ idle' = [idle EXCEPT ![e] = 0]
            /\ UNCHANGED <<state, mode, todo, ping, lastNonce, sendVars>>
       ELSE Close(e, "protocol")
  /\ UNCHANGED <<frozen, countVars>>

(* _handle_frame goes on to send these. *)
Answer(e, frames) ==
  /\ mode' = [mode EXCEPT ![e] = "send"]
  /\ todo' = [todo EXCEPT ![e] = frames]
  /\ UNCHANGED <<state, ping, lastNonce, sendVars>>

(* The payload, and the handler of its frame up to its first send. *)
HandlePing(e) ==
  /\ Reads(e, "payload") /\ Next1(e).frame.type = "PING" /\ Consume(e)
  /\ part' = [part EXCEPT ![e] = "prefix"] /\ idle' = [idle EXCEPT ![e] = 0]
  /\ Answer(e, <<Pong(Next1(e).frame.nonce)>>)
  /\ UNCHANGED <<frozen, countVars>>

HandleGetBlocks(e) ==
  /\ Reads(e, "payload") /\ Next1(e).frame.type = "GET_BLOCKS" /\ Consume(e)
  /\ part' = [part EXCEPT ![e] = "prefix"] /\ idle' = [idle EXCEPT ![e] = 0]
  /\ Answer(e, [i \in 1..ResponseBlocks |-> Data])
  /\ UNCHANGED <<frozen, countVars>>

(* A PONG that is not the expected one is a protocol error.  (A task that
   forgets to clear the nonce takes the next quiet minute for a dead peer.) *)
HandlePongKeep(e) ==
  /\ Reads(e, "payload") /\ Next1(e).frame.type = "PONG" /\ Consume(e)
  /\ part' = [part EXCEPT ![e] = "prefix"] /\ idle' = [idle EXCEPT ![e] = 0]
  /\ UNCHANGED <<state, mode, todo, ping, lastNonce, sendVars, frozen, countVars>>

HandlePong(e) ==
  /\ Reads(e, "payload") /\ Next1(e).frame.type = "PONG" /\ Consume(e)
  /\ IF Next1(e).frame.nonce = ping[e]
       THEN /\ part' = [part EXCEPT ![e] = "prefix"]
            /\ idle' = [idle EXCEPT ![e] = 0]
            /\ ping' = [ping EXCEPT ![e] = NoPing]
            /\ UNCHANGED <<state, mode, todo, lastNonce, sendVars>>
       ELSE Close(e, "protocol")
  /\ UNCHANGED <<frozen, countVars>>

(* Any other frame: it is stored, or it makes the node ask for blocks. *)
HandleData(e) ==
  /\ Reads(e, "payload") /\ Next1(e).frame.type = "BLOCK" /\ Consume(e)
  /\ part' = [part EXCEPT ![e] = "prefix"] /\ idle' = [idle EXCEPT ![e] = 0]
  /\ \/ UNCHANGED <<state, mode, todo, ping, lastNonce, sendVars, requests>>
     \/ /\ requests[e] < MaxRequests
        /\ requests' = [requests EXCEPT ![e] = @ + 1]
        /\ Answer(e, <<GetBlocks>>)
  /\ UNCHANGED <<frozen, relays>>

Quiet(e) == Runs(e) /\ mode[e] = "read" /\ idle[e] >= IdleTimeout

(* A PING is under way and nothing at all has come since.  (A _run that only
   sends another one never misses a dead peer.) *)
PingUnansweredIgnored(e) ==
  /\ Quiet(e) /\ ping[e] # NoPing
  /\ idle' = [idle EXCEPT ![e] = 0]
  /\ UNCHANGED <<state, mode, part, todo, ping, lastNonce, sendVars, pipe, frozen, countVars>>

PingUnanswered(e) ==
  /\ Quiet(e) /\ ping[e] # NoPing
  /\ Close(e, "ping")
  /\ UNCHANGED <<pipe, frozen, countVars>>

(* The idle timeout sends a PING with a new nonce.  read_frame is entered anew
   afterwards, so a prefix already read is lost. *)
SendPing(e) ==
  /\ Quiet(e) /\ ping[e] = NoPing
  /\ LET new == IF lastNonce[e] = 1 THEN 2 ELSE 1 IN
     /\ ping' = [ping EXCEPT ![e] = new]
     /\ lastNonce' = [lastNonce EXCEPT ![e] = new]
     /\ todo' = [todo EXCEPT ![e] = <<Ping(new)>>]
  /\ mode' = [mode EXCEPT ![e] = "send"]
  /\ part' = [part EXCEPT ![e] = "prefix"]
  /\ idle' = [idle EXCEPT ![e] = 0]
  /\ UNCHANGED <<state, sendVars, pipe, frozen, countVars>>

(* The peer has closed: a read finds the end of the stream, a write an error. *)
PeerGone(e) ==
  /\ Runs(e) /\ state[Peer(e)] # "open"
  /\ Close(e, "eof")
  /\ UNCHANGED <<pipe, frozen, countVars>>

Freeze(e) ==
  /\ e \in MayFreeze /\ Runs(e)
  /\ frozen' = frozen \cup {e}
  /\ UNCHANGED <<state, taskVars, sendVars, pipe, countVars>>

-----------------------------------------------------------------------------
(* Time *)

(* What does not wait for time to pass: the event loop's ready callbacks, the
   timers that are due, and the pieces that must have come by now. *)
Urgent(e) ==
  /\ Runs(e)
  /\ \/ mode[e] = "send" /\ ~Sending(e)
     \/ queue[e] # <<>> /\ ~written[e]
     \/ written[e] /\ Len(pipe[e]) <= HighWater
     \/ Overdue(e) \/ Quiet(e) \/ state[Peer(e)] # "open"
     \/ mode[e] = "read" /\ pipe[Peer(e)] # <<>> /\ Next1(e).age >= MaxDelay

Tick ==
  /\ \A e \in Ends : ~Urgent(e)
  /\ idle' = [e \in Ends |->
                IF Runs(e) /\ mode[e] = "read" THEN idle[e] + 1 ELSE idle[e]]
  /\ queue' = [e \in Ends |-> [i \in DOMAIN queue[e] |->
                IF Runs(e) THEN [queue[e][i] EXCEPT !.age = @ + 1] ELSE queue[e][i]]]
  /\ pipe' = [e \in Ends |-> [i \in DOMAIN pipe[e] |->
                [pipe[e][i] EXCEPT !.age = IF @ < MaxDelay THEN @ + 1 ELSE @]]]
  /\ UNCHANGED <<state, mode, part, todo, written, ping, lastNonce, frozen, countVars>>

EndStep(e) ==
  \/ TaskSends(e) \/ TaskReadsOn(e) \/ Write(e) \/ Drained(e) \/ SendTimeout(e)
  \/ ReadPrefix(e)
  \/ HandlePing(e) \/ HandlePong(e) \/ HandleGetBlocks(e) \/ HandleData(e)
  \/ SendPing(e) \/ PingUnanswered(e) \/ PeerGone(e)

Next == Tick \/ \E e \in Ends : EndStep(e) \/ Relay(e) \/ Freeze(e)

(* A live process runs what is ready, and time passes. *)
Spec ==
  /\ Init /\ [][Next]_vars
  /\ \A e \in Ends : WF_vars(EndStep(e))
  /\ WF_vars(Tick)

-----------------------------------------------------------------------------
Frames == {GetBlocks, Data} \cup {Ping(n) : n \in {1, 2}} \cup {Pong(n) : n \in {1, 2}}

TypeOK ==
  /\ state \in [Ends -> {"open", "full", "write", "protocol", "ping", "eof"}]
  /\ mode \in [Ends -> {"read", "send"}] /\ part \in [Ends -> {"prefix", "payload"}]
  /\ idle \in [Ends -> 0..IdleTimeout]
  /\ ping \in [Ends -> {NoPing, 1, 2}] /\ lastNonce \in [Ends -> {NoPing, 1, 2}]
  /\ written \in [Ends -> BOOLEAN]
  /\ frozen \subseteq MayFreeze
  /\ \A e \in Ends :
       /\ todo[e] \in Seq(Frames) /\ Len(queue[e]) <= MaxPendingSends
       /\ \A i \in DOMAIN queue[e] :
            /\ queue[e][i].frame \in Frames /\ queue[e][i].by \in {"task", "relay"}
            /\ queue[e][i].age \in 0..WriteTimeout
       /\ \A i \in DOMAIN pipe[e] :
            pipe[e][i].frame \in Frames /\ pipe[e][i].age \in 0..MaxDelay

(* On a line that carries a PING there and its PONG back within the idle
   timeout, a running peer is never given up as dead, nor charged for a broken
   stream, however long its responses and however its PONG queues behind them
   (docs/protocol.md: "the matching PONG proves liveness"). *)
LivePeerKept ==
  \A e \in Ends : Peer(e) \notin frozen => state[e] \notin {"ping", "protocol"}

(* A peer that stops running is noticed: by the keepalive that it does not
   answer, or by a send that it does not read ("A missing or mismatched answer
   closes the connection"). *)
DeadPeerNoticed ==
  \A e \in Ends : Peer(e) \in frozen ~> (state[e] # "open" \/ e \in frozen)

(* No handler stays in a send: also when both ends write long responses and
   read nothing, the write deadline ends it. *)
HandlersReturn ==
  \A e \in Ends : mode[e] = "send" ~> (mode[e] = "read" \/ e \in frozen)
=============================================================================
