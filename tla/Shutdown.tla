------------------------------ MODULE Shutdown -----------------------------
(***************************************************************************)
(* The life of `ourcoin node start` (cli.py's run_network_node) and its    *)
(* end: the main coroutine opens the storage, starts the peer server,      *)
(* dials its peers one after the other and waits; Ctrl+C cancels it, and   *)
(* it closes the peer service and then the storage.                        *)
(*                                                                         *)
(* Every node is a process with one event loop: the main coroutine and one *)
(* task per connection.  A link has two ends as in PeerAdmission.  The     *)
(* server is asyncio's, of the Python the project requires (3.13):         *)
(* Server.wait_closed returns once the listening sockets and every         *)
(* transport the server has accepted are closed.                           *)
(***************************************************************************)
EXTENDS Integers, Sequences

CONSTANTS
  Nodes,
  Links,
  Dialer, Acceptor,   \* link -> node
  PeerEndpoints,      \* node -> the links it is told to dial, in order
  MayFreeze,          \* the nodes whose process may stop responding
  MaxFrames           \* bound: frames handled in a behaviour

ASSUME ShutdownAssumption ==
  /\ {Dialer, Acceptor} \subseteq [Links -> Nodes]
  /\ PeerEndpoints \in [Nodes -> Seq(Links)]
  /\ \A n \in Nodes : \A i \in DOMAIN PeerEndpoints[n] : Dialer[PeerEndpoints[n][i]] = n
  /\ MayFreeze \subseteq Nodes /\ MaxFrames \in Nat

Ends     == Links \X {"out", "in"}
Peer(e)  == <<e[1], IF e[2] = "out" THEN "in" ELSE "out">>
Owner(e) == IF e[2] = "out" THEN Dialer[e[1]] ELSE Acceptor[e[1]]

VARIABLES
  main,        \* node -> where its main coroutine is (see ShutdownTypeOK)
  todo,        \* node -> the links it has still to dial
  server,      \* node -> "none", "listening" or "closed"
  storage,     \* node -> whether the SQLite connection is open
  sock,        \* end -> its transport: "none", "open", "closing" or "closed"
  unsent,      \* the ends with written data that a frozen peer does not read
  task,        \* end -> its task (see ShutdownTypeOK)
  connections, \* the ends in their owner's _connections
  cancelled,   \* the ends whose task close has cancelled
  frozen,      \* the nodes whose process no longer runs
  frames

shutdownVars == <<main, todo, server, storage, sock, unsent, task, connections,
          cancelled, frozen, frames>>
endVars == <<sock, unsent, task, connections, cancelled>>

ShutdownInit ==
  /\ main = [n \in Nodes |-> "starting"]
  /\ todo = PeerEndpoints
  /\ server = [n \in Nodes |-> "none"]
  /\ storage = [n \in Nodes |-> "open"]
  /\ sock = [e \in Ends |-> "none"]
  /\ task = [e \in Ends |-> "none"]
  /\ unsent = {} /\ connections = {} /\ cancelled = {} /\ frozen = {}
  /\ frames = 0

Runs(n) == n \notin frozen /\ main[n] # "exited"

-----------------------------------------------------------------------------
(* run_network_node until it stops. *)

(* A close that does not await the server. *)
BeginCloseHasty(n) ==
  /\ main' = [main EXCEPT ![n] = "closing"]
  /\ server' = [server EXCEPT ![n] = IF @ = "listening" THEN "closed" ELSE @]

(* The finally block is entered: P2PNode.close takes the server off its field
   and closes it; without a server there is nothing to wait for. *)
BeginClose(n) ==
  /\ main' = [main EXCEPT ![n] = IF server[n] = "listening" THEN "waitServer" ELSE "closing"]
  /\ server' = [server EXCEPT ![n] = IF @ = "listening" THEN "closed" ELSE @]

(* P2PNode.start, which may fail to bind. *)
Start(n) ==
  /\ main[n] = "starting" /\ Runs(n)
  /\ \/ /\ main' = [main EXCEPT ![n] = "connecting"]
        /\ server' = [server EXCEPT ![n] = "listening"]
     \/ BeginClose(n)
  /\ UNCHANGED <<todo, storage, endVars, frozen, frames>>

(* connect: the dial is refused when nobody listens, and the error ends the
   program; else both ends have a transport and the dialer's is registered. *)
Dial(n) ==
  /\ main[n] = "connecting" /\ todo[n] # <<>> /\ Runs(n)
  /\ LET l == Head(todo[n]) IN
     /\ task[<<l, "out">>] = "none"
     /\ IF server[Acceptor[l]] = "listening"
          THEN /\ sock' = [sock EXCEPT ![<<l, "out">>] = "open", ![<<l, "in">>] = "open"]
               /\ task' = [task EXCEPT ![<<l, "out">>] = "running", ![<<l, "in">>] = "accepted"]
               /\ connections' = connections \cup {<<l, "out">>}
               /\ UNCHANGED <<main, server>>
          ELSE BeginClose(n) /\ UNCHANGED <<sock, task, connections>>
  /\ UNCHANGED <<todo, storage, unsent, cancelled, frozen, frames>>

Dialled(n) == <<Head(todo[n]), "out">>

Connecting(n) ==
  main[n] = "connecting" /\ todo[n] # <<>> /\ task[Dialled(n)] # "none" /\ Runs(n)

(* connect returns: both ends have said HELLO. *)
ConnectReturns(n) ==
  /\ Connecting(n)
  /\ Dialled(n) \in connections /\ task[Peer(Dialled(n))] \in {"running", "handling"}
  /\ todo' = [todo EXCEPT ![n] = Tail(@)]
  /\ UNCHANGED <<main, server, storage, endVars, frozen, frames>>

(* connect raises: the connection was closed before the handshake was over. *)
ConnectFails(n) ==
  /\ Connecting(n) /\ Dialled(n) \notin connections
  /\ BeginClose(n)
  /\ UNCHANGED <<todo, storage, endVars, frozen, frames>>

Serve(n) ==
  /\ main[n] = "connecting" /\ todo[n] = <<>> /\ Runs(n)
  /\ main' = [main EXCEPT ![n] = "serving"]
  /\ UNCHANGED <<todo, server, storage, endVars, frozen, frames>>

(* Ctrl+C: asyncio.run cancels the main coroutine wherever it waits. *)
Stop(n) ==
  /\ main[n] \in {"starting", "connecting", "serving"} /\ Runs(n)
  /\ BeginClose(n)
  /\ UNCHANGED <<todo, storage, endVars, frozen, frames>>

-----------------------------------------------------------------------------
(* The rest of P2PNode.close, and LocalNode.close. *)

Mine(n) == {e \in connections : Owner(e) = n}

(* _close_stream_writer begins for the ends of S. *)
CloseSockets(S) ==
  sock' = [e \in Ends |-> IF e \in S /\ sock[e] = "open" THEN "closing" ELSE sock[e]]

(* asyncio's Server.wait_closed: no accepted transport of n is left. *)
ServerClosed(n) ==
  \A l \in Links : Acceptor[l] = n => sock[<<l, "in">>] \in {"none", "closed"}

WaitServer(n) ==
  /\ main[n] = "waitServer" /\ ServerClosed(n) /\ Runs(n)
  /\ main' = [main EXCEPT ![n] = "closing"]
  /\ UNCHANGED <<todo, server, storage, endVars, frozen, frames>>

(* The snapshot of the connections is taken, and all of them are closed. *)
CloseConnections(n) ==
  /\ main[n] = "closing" /\ Runs(n)
  /\ CloseSockets(Mine(n))
  /\ connections' = connections \ Mine(n)
  /\ cancelled' = cancelled \cup Mine(n)
  /\ main' = [main EXCEPT ![n] = "closingStreams"]
  /\ UNCHANGED <<todo, server, storage, unsent, task, frozen, frames>>

Snapshot(n) == {e \in cancelled : Owner(e) = n}

(* Every stream of the snapshot is closed, or its five seconds are over; then
   the tasks are cancelled. *)
StreamsClosed(n) ==
  /\ main[n] = "closingStreams" /\ Runs(n)
  /\ main' = [main EXCEPT ![n] = "cancelling"]
  /\ UNCHANGED <<todo, server, storage, endVars, frozen, frames>>

(* All cancelled tasks have ended: P2PNode.close returns, LocalNode.close
   closes the storage and the process exits, closing what sockets are left. *)
Exit(n) ==
  /\ main[n] = "cancelling" /\ Runs(n)
  /\ \A e \in Snapshot(n) : task[e] = "done"
  /\ main' = [main EXCEPT ![n] = "exited"]
  /\ storage' = [storage EXCEPT ![n] = "closed"]
  /\ sock' = [e \in Ends |-> IF Owner(e) = n /\ sock[e] # "none" THEN "closed" ELSE sock[e]]
  /\ UNCHANGED <<todo, server, unsent, task, connections, cancelled, frozen, frames>>

-----------------------------------------------------------------------------
(* The task of a connection. *)

(* _accept: the connection is registered and its task started. *)
AcceptPeer(e) ==
  /\ task[e] = "accepted" /\ Runs(Owner(e))
  /\ task' = [task EXCEPT ![e] = "running"]
  /\ connections' = connections \cup {e}
  /\ UNCHANGED <<main, todo, server, storage, sock, unsent, cancelled, frozen, frames>>

(* A frame has come, perhaps before the end of the stream: the task will handle
   it, closed or not meanwhile. *)
TakeFrame(e) ==
  /\ task[e] = "running" /\ e \in connections /\ Runs(Owner(e))
  /\ task[Peer(e)] \notin {"none", "accepted"}
  /\ frames < MaxFrames /\ frames' = frames + 1
  /\ task' = [task EXCEPT ![e] = "handling"]
  /\ UNCHANGED <<main, todo, server, storage, sock, unsent, connections, cancelled, frozen>>

(* _handle_frame, which may submit a block and so use the storage, and which ends
   when its relays to the other connections are sent or have failed. *)
HandleFrame(e) ==
  /\ task[e] = "handling" /\ Runs(Owner(e))
  /\ task' = [task EXCEPT ![e] = "running"]
  /\ UNCHANGED <<main, todo, server, storage, sock, unsent, connections, cancelled, frozen, frames>>

(* A reader that has stopped reading leaves data in the transport. *)
Stuff(e) ==
  /\ sock[e] = "open" /\ Runs(Owner(e)) /\ Owner(Peer(e)) \in frozen
  /\ e \notin unsent /\ unsent' = unsent \cup {e}
  /\ UNCHANGED <<main, todo, server, storage, sock, task, connections, cancelled, frozen, frames>>

(* A relay to e fails: the queue is full, the write deadline has passed or the
   stream is lost.  The task that handles the relayed frame closes the connection
   of e, whose own task may be reading or have a frame in hand itself. *)
SendFails(e) ==
  /\ e \in connections /\ Runs(Owner(e))
  /\ task[Peer(e)] \notin {"none", "accepted"}
  /\ \E x \in Ends \ {e} : Owner(x) = Owner(e) /\ task[x] = "handling"
  /\ connections' = connections \ {e}
  /\ CloseSockets({e})
  /\ UNCHANGED <<main, todo, server, storage, unsent, task, cancelled, frozen, frames>>

(* The task meets the end of the stream, or an idle peer that does not answer
   for too long: it closes the connection and waits for the stream, at most
   five seconds.  (A task that does not mind the end of the stream.) *)
Gone(e) ==
  \/ sock[e] # "open" \/ sock[Peer(e)] # "open"
  \/ Owner(Peer(e)) \in frozen

NoticeOwnCloseOnly(e) ==
  /\ task[e] = "running" /\ sock[e] # "open" /\ Runs(Owner(e))
  /\ task' = [task EXCEPT ![e] = "ending"]
  /\ connections' = connections \ {e}
  /\ CloseSockets({e})
  /\ UNCHANGED <<main, todo, server, storage, unsent, cancelled, frozen, frames>>

Notice(e) ==
  /\ task[e] = "running" /\ Gone(e) /\ Runs(Owner(e))
  /\ task' = [task EXCEPT ![e] = "ending"]
  /\ connections' = connections \ {e}
  /\ CloseSockets({e})
  /\ UNCHANGED <<main, todo, server, storage, unsent, cancelled, frozen, frames>>

EndTask(e) ==
  /\ task[e] = "ending" /\ Runs(Owner(e))
  /\ task' = [task EXCEPT ![e] = "done"]
  /\ UNCHANGED <<main, todo, server, storage, sock, unsent, connections, cancelled, frozen, frames>>

(* CancelledError reaches a task of the snapshot: its finally finds the
   connection closed. *)
CancelTask(e) ==
  /\ e \in cancelled /\ main[Owner(e)] = "cancelling" /\ Runs(Owner(e))
  /\ task[e] \notin {"none", "done"}
  /\ task' = [task EXCEPT ![e] = "done"]
  /\ UNCHANGED <<main, todo, server, storage, sock, unsent, connections, cancelled, frozen, frames>>

(* A closing transport is gone once its data is written or its peer is. *)
ConnectionLost(e) ==
  /\ sock[e] = "closing" /\ Runs(Owner(e))
  /\ e \notin unsent \/ sock[Peer(e)] = "closed"
  /\ sock' = [sock EXCEPT ![e] = "closed"]
  /\ UNCHANGED <<main, todo, server, storage, unsent, task, connections, cancelled, frozen, frames>>

(* The peer resets the stream: the transport goes before the task knows. *)
Reset(e) ==
  /\ sock[e] = "open" /\ sock[Peer(e)] = "closed" /\ Runs(Owner(e))
  /\ task[e] # "accepted"
  /\ sock' = [sock EXCEPT ![e] = "closed"]
  /\ UNCHANGED <<main, todo, server, storage, unsent, task, connections, cancelled, frozen, frames>>

Freeze(n) ==
  /\ n \in MayFreeze /\ Runs(n)
  /\ frozen' = frozen \cup {n}
  /\ UNCHANGED <<main, todo, server, storage, endVars, frames>>

MainStep(n) ==
  \/ Start(n) \/ Dial(n) \/ ConnectReturns(n) \/ ConnectFails(n) \/ Serve(n)
  \/ WaitServer(n) \/ CloseConnections(n) \/ StreamsClosed(n) \/ Exit(n)

TaskStep(e) ==
  AcceptPeer(e) \/ HandleFrame(e) \/ Notice(e) \/ EndTask(e) \/ CancelTask(e)

Proceed ==
  \/ \E n \in Nodes : MainStep(n)
  \/ \E e \in Ends : TaskStep(e) \/ ConnectionLost(e)

ShutdownNext ==
  \/ Proceed
  \/ \E n \in Nodes : Stop(n) \/ Freeze(n)
  \/ \E e \in Ends : TakeFrame(e) \/ Stuff(e) \/ SendFails(e) \/ Reset(e)

(* The event loop of a live process runs what is ready, timers fire and the
   kernel closes sockets; nobody has to press Ctrl+C or to send a frame.  Every
   coroutine and socket takes finitely many steps, so fairness to all of them
   together starves none. *)
ShutdownSpec == ShutdownInit /\ [][ShutdownNext]_shutdownVars /\ WF_shutdownVars(Proceed)

-----------------------------------------------------------------------------
ShutdownTypeOK ==
  /\ main \in [Nodes -> {"starting", "connecting", "serving", "waitServer",
                         "closing", "closingStreams", "cancelling", "exited"}]
  /\ todo \in [Nodes -> Seq(Links)]
  /\ server \in [Nodes -> {"none", "listening", "closed"}]
  /\ storage \in [Nodes -> {"open", "closed"}]
  /\ sock \in [Ends -> {"none", "open", "closing", "closed"}]
  /\ unsent \subseteq Ends
  /\ task \in [Ends -> {"none", "accepted", "running", "handling", "ending", "done"}]
  /\ connections \subseteq {e \in Ends : task[e] \in {"running", "handling"}}
  /\ cancelled \subseteq Ends /\ frozen \subseteq MayFreeze
  /\ frames \in 0..MaxFrames

(* While a task that close waits for may still submit a block, the storage is
   open: no interleaving of Ctrl+C with accepts, frames, failed relays and closing
   peers lets a connection be registered or served after it (run_network_node
   closes the peers before SQLite).  close does not wait for a task whose
   connection a failed relay closed while it had a frame in hand: it is in no
   snapshot, and its block, if it has not been submitted by then, meets a closed
   storage. *)
MayUseStorage(e) ==
  \/ task[e] \in {"accepted", "handling"}
  \/ task[e] = "running" /\ e \in connections

Abandoned(e) == task[e] = "handling" /\ e \notin connections \cup cancelled

StorageOutlivesPeers ==
  \A e \in Ends : MayUseStorage(e) => storage[Owner(e)] = "open" \/ Abandoned(e)

Stopping(n) ==
  main[n] \in {"waitServer", "closing", "closingStreams", "cancelling", "exited"}

AllStopping == \A n \in Nodes : n \in frozen \/ Stopping(n)
AllExited   == \A n \in Nodes : n \in frozen \/ main[n] = "exited"

(* A peer that does not read cannot keep a node from exiting (docs/protocol.md:
   "a non-reading peer cannot indefinitely stall relay or node exit").  It can:
   WaitServer has no deadline, and a transport the server has accepted is not
   closed while there is data the peer does not read. *)
NoPeerStallsExit == AllStopping ~> AllExited

(* What the code does guarantee when all nodes are stopped, those apart that
   hang: all exit, but for one that waits for its server while an accepted
   connection holds data its peer does not read (P2PNode.close).  Nodes wait for
   those that dialled them, so this is about dials without a cycle. *)
Unread(n) ==
  /\ n \notin frozen /\ main[n] = "waitServer"
  /\ \E e \in unsent : e[2] = "in" /\ Owner(e) = n

ExitUnlessUnread == AllStopping ~> (AllExited \/ \E n \in Nodes : Unread(n))
=============================================================================
