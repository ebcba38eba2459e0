------------------------------ MODULE WireProofs -----------------------------
(***************************************************************************)
(* What is proved of a connection between two peers: that the watchdogs    *)
(* let one live, and that the bytes of a payload and its values are one    *)
(* another's.                                                              *)
(***************************************************************************)
EXTENDS PeerLink, Reader, FiniteSetTheorems, WellFoundedInduction, TLAPS

(***************************************************************************)
(* One connection, for any timeouts, queue bounds, buffer sizes, lengths   *)
(* of a response, relays and ends that freeze.  A running peer is not      *)
(* given up because the wait for a PONG ends by what is already on its     *)
(* way: either piece of the PING or of its answer, with its age.           *)
(***************************************************************************)
(* A frame goes out and its answer comes back before the idle timeout. *)
LineIsFast == 2 * MaxDelay < IdleTimeout

Reasons == {"open", "full", "write", "protocol", "ping", "eof"}
Pieces  == [part : {"prefix", "payload"}, frame : Frames, age : 0..MaxDelay]
Sends   == [frame : Frames, by : {"task", "relay"}, age : 0..WriteTimeout]

LinkTyped ==
  /\ state \in [Ends -> Reasons]
  /\ mode \in [Ends -> {"read", "send"}] /\ part \in [Ends -> {"prefix", "payload"}]
  /\ idle \in [Ends -> 0..IdleTimeout]
  /\ ping \in [Ends -> {NoPing, 1, 2}] /\ lastNonce \in [Ends -> {NoPing, 1, 2}]
  /\ written \in [Ends -> BOOLEAN]
  /\ frozen \subseteq MayFreeze
  /\ todo \in [Ends -> Seq(Frames)] /\ queue \in [Ends -> Seq(Sends)]
  /\ pipe \in [Ends -> Seq(Pieces)]
  /\ \A e \in Ends : Len(queue[e]) <= MaxPendingSends

(* The task of an end has one send in the queue, of the frame it is at, or none;
   the relays send nothing but data. *)
OneSendOfTask(e) ==
  /\ mode[e] = "read" => todo[e] = <<>> /\ ~Sending(e)
  /\ mode[e] = "send" => part[e] = "prefix"
  /\ state[e] # "open" => mode[e] = "read" /\ queue[e] = <<>>
  /\ written[e] => queue[e] # <<>>
  /\ \A i \in DOMAIN queue[e] :
       /\ queue[e][i].by = "relay" => queue[e][i].frame = Data
       /\ queue[e][i].by = "task" =>
            /\ todo[e] # <<>> /\ queue[e][i].frame = Head(todo[e])
            /\ \A j \in DOMAIN queue[e] : queue[e][j].by = "task" => i = j

OldestFirst(e) ==
  \A i, j \in DOMAIN pipe[e] : i < j => pipe[e][i].age >= pipe[e][j].age

(* A stream of whole frames, but for a prefix that has been read when p is
   "payload". *)
Alternates(s, p) ==
  /\ s # <<>> => s[1].part = p /\ s[Len(s)].part = "payload"
  /\ \A i \in DOMAIN s : i # 1 => s[i].part # s[i - 1].part

(* What comes next to an open end is the part that it expects, and in the middle
   of a frame it has not waited longer than the rest of the frame. *)
Aligned(e) ==
  state[e] = "open" =>
    /\ Alternates(pipe[Peer(e)], part[e])
    /\ part[e] = "payload" => /\ pipe[Peer(e)] # <<>>
                             /\ idle[e] <= pipe[Peer(e)][1].age

-----------------------------------------------------------------------------
(* Constants, the two ends, frames and sequences. *)
LEMMA ConstantFacts ==
  /\ IdleTimeout \in Nat /\ IdleTimeout >= 1 /\ WriteTimeout \in Nat /\ WriteTimeout >= 1
  /\ MaxPendingSends \in Nat /\ MaxPendingSends >= 1
  /\ ResponseBlocks \in Nat /\ ResponseBlocks >= 1
  /\ HighWater \in Nat /\ MaxDelay \in Nat
BY PeerLinkAssumption DEF PeerLinkAssumption

LEMMA PeerFacts ==
  ASSUME NEW e \in Ends
  PROVE  /\ Peer(e) \in Ends /\ Peer(e) # e /\ Peer(Peer(e)) = e
         /\ \A x \in Ends : x = e \/ x = Peer(e)
BY PeerLinkAssumption DEF PeerLinkAssumption, Ends, Peer

LEMMA FrameFacts ==
  /\ Data \in Frames /\ GetBlocks \in Frames
  /\ \A n \in {1, 2} : Ping(n) \in Frames /\ Pong(n) \in Frames
  /\ \A n \in {1, 2} : Ping(n) # Data /\ Pong(n) # Data
  /\ \A n \in {1, 2} : Ping(n) # GetBlocks /\ Pong(n) # GetBlocks
  /\ \A m, n \in {1, 2} : Ping(n) # Pong(m)
  /\ \A m, n \in {1, 2} : m # n => Ping(n) # Ping(m) /\ Pong(n) # Pong(m)
  /\ \A n \in {1, 2} : Ping(n).type = "PING" /\ Pong(n).type = "PONG"
  /\ Data.type = "BLOCK" /\ GetBlocks.type = "GET_BLOCKS"
BY DEF Frames, Data, GetBlocks, Ping, Pong, Frame, NoPing

LEMMA FrameCases ==
  ASSUME NEW f \in Frames
  PROVE  /\ f.type \in {"PING", "PONG", "GET_BLOCKS", "BLOCK"}
         /\ f.type = "PING" => f.nonce \in {1, 2} /\ f = Ping(f.nonce)
         /\ f.type = "PONG" => f.nonce \in {1, 2} /\ f = Pong(f.nonce)
         /\ f.type = "GET_BLOCKS" => f = GetBlocks
         /\ f.type = "BLOCK" => f = Data
BY DEF Frames, Data, GetBlocks, Ping, Pong, Frame, NoPing

LEMMA MapIsSeq ==
  ASSUME NEW S, NEW n \in Nat, NEW f \in [1..n -> S]
  PROVE  f \in Seq(S) /\ Len(f) = n
OBVIOUS

LEMMA NoDomain ==
  ASSUME NEW S, NEW s \in Seq(S), DOMAIN s = DOMAIN <<>>
  PROVE  s = <<>>
<1>1. Len(s) \in Nat /\ DOMAIN s = 1..Len(s) /\ 1 \notin DOMAIN s
  OBVIOUS
<1>2. Len(s) = 0
  BY <1>1
<1> QED
  BY <1>2

LEMMA TailFacts ==
  ASSUME NEW S, NEW s \in Seq(S), s # <<>>
  PROVE  /\ Len(s) >= 1 /\ Head(s) = s[1] /\ s[1] \in S /\ Tail(s) \in Seq(S)
         /\ Len(Tail(s)) = Len(s) - 1
         /\ DOMAIN s = 1..Len(s) /\ DOMAIN Tail(s) = 1..(Len(s) - 1)
         /\ \A i \in 1..(Len(s) - 1) : Tail(s)[i] = s[i + 1]
OBVIOUS

LEMMA AppendFacts ==
  ASSUME NEW S, NEW s \in Seq(S), NEW x \in S
  PROVE  /\ Append(s, x) \in Seq(S) /\ Append(s, x) # <<>>
         /\ Len(Append(s, x)) = Len(s) + 1 /\ DOMAIN Append(s, x) = 1..(Len(s) + 1)
         /\ \A i \in 1..Len(s) : Append(s, x)[i] = s[i]
         /\ Append(s, x)[Len(s) + 1] = x
OBVIOUS

-----------------------------------------------------------------------------
(* Every step keeps the types: Close, StartSend and the reads once for all the
   actions that end in them. *)
LEMMA InitTyped == Init => LinkTyped
<1> SUFFICES ASSUME Init PROVE LinkTyped
  OBVIOUS
<1> QED
  BY ConstantFacts DEF Init, LinkTyped, Reasons

LEMMA CloseTyped ==
  ASSUME LinkTyped, NEW e \in Ends, NEW why \in Reasons, Close(e, why),
         pipe' \in [Ends -> Seq(Pieces)], frozen' = frozen
  PROVE  LinkTyped'
<1>1. /\ state' \in [Ends -> Reasons] /\ mode' \in [Ends -> {"read", "send"}]
      /\ part' \in [Ends -> {"prefix", "payload"}] /\ idle' \in [Ends -> 0..IdleTimeout]
      /\ written' \in [Ends -> BOOLEAN]
      /\ ping' = ping /\ lastNonce' = lastNonce
  BY ConstantFacts DEF LinkTyped, Close
<1>2. todo' \in [Ends -> Seq(Frames)] /\ queue' \in [Ends -> Seq(Sends)]
  BY DEF LinkTyped, Close
<1>3. \A x \in Ends : Len(queue'[x]) <= MaxPendingSends
  BY ConstantFacts DEF LinkTyped, Close
<1> QED
  BY <1>1, <1>2, <1>3 DEF LinkTyped

LEMMA StartSendTyped ==
  ASSUME LinkTyped, NEW e \in Ends, NEW f \in Frames, NEW by \in {"task", "relay"},
         StartSend(e, f, by), UNCHANGED <<pipe, frozen>>
  PROVE  LinkTyped'
<1>1. CASE Len(queue[e]) >= MaxPendingSends
  BY <1>1, CloseTyped DEF StartSend, LinkTyped, Reasons
<1>2. CASE ~(Len(queue[e]) >= MaxPendingSends)
  <2> DEFINE new == [frame |-> f, by |-> by, age |-> 0]
  <2>1. new \in Sends
    BY ConstantFacts DEF Sends
  <2>2. UNCHANGED <<state, mode, part, idle, todo, ping, lastNonce, written>>
    BY <1>2 DEF StartSend, taskVars
  <2>3. queue' = [queue EXCEPT ![e] = Append(@, new)]
    BY <1>2 DEF StartSend
  <2>4. Append(queue[e], new) \in Seq(Sends) /\ Len(Append(queue[e], new)) = Len(queue[e]) + 1
        /\ Len(queue[e]) \in Nat
    BY <2>1, AppendFacts DEF LinkTyped
  <2> HIDE DEF new
  <2>5. queue' \in [Ends -> Seq(Sends)] /\ \A x \in Ends : Len(queue'[x]) <= MaxPendingSends
    BY <1>2, <2>3, <2>4, ConstantFacts DEF LinkTyped
  <2> QED
    BY <2>2, <2>5 DEF LinkTyped
<1> QED
  BY <1>1, <1>2
LEMMA ReadFacts ==
  ASSUME LinkTyped, NEW e \in Ends, pipe[Peer(e)] # <<>>, Consume(e)
  PROVE  /\ pipe' \in [Ends -> Seq(Pieces)]
         /\ pipe[Peer(e)] \in Seq(Pieces) /\ Next1(e) \in Pieces /\ Next1(e) = pipe[Peer(e)][1]
         /\ Next1(e).frame \in Frames /\ Next1(e).age \in 0..MaxDelay
         /\ pipe'[Peer(e)] = Tail(pipe[Peer(e)]) /\ pipe'[e] = pipe[e]
<1>1. pipe[Peer(e)] \in Seq(Pieces) /\ Peer(e) \in Ends /\ Peer(e) # e
  BY PeerFacts DEF LinkTyped
<1>2. Next1(e) \in Pieces /\ Next1(e) = pipe[Peer(e)][1] /\ Tail(pipe[Peer(e)]) \in Seq(Pieces)
  BY <1>1, TailFacts DEF Next1
<1>3. pipe' \in [Ends -> Seq(Pieces)] /\ pipe'[Peer(e)] = Tail(pipe[Peer(e)]) /\ pipe'[e] = pipe[e]
  BY <1>1, <1>2 DEF Consume, LinkTyped
<1> QED
  BY <1>1, <1>2, <1>3 DEF Pieces

LEMMA ResponseIsSeq ==
  /\ [i \in 1..ResponseBlocks |-> Data] \in Seq(Frames) /\ <<GetBlocks>> \in Seq(Frames)
  /\ \A n \in {1, 2} : <<Ping(n)>> \in Seq(Frames) /\ <<Pong(n)>> \in Seq(Frames)
BY ConstantFacts, FrameFacts

LEMMA AgeFacts ==
  /\ \A r \in Sends : r.frame \in Frames /\ r.by \in {"task", "relay"} /\ r.age \in 0..WriteTimeout
  /\ \A r \in Pieces : r.frame \in Frames /\ r.part \in {"prefix", "payload"} /\ r.age \in 0..MaxDelay
BY DEF Sends, Pieces

LEMMA IdleFacts ==
  ASSUME LinkTyped, NEW e \in Ends
  PROVE  idle[e] \in 0..IdleTimeout /\ idle[e] \in Nat
<1>1. idle[e] \in 0..IdleTimeout
  BY DEF LinkTyped
<1> QED
  BY <1>1, ConstantFacts

LEMMA OlderSend ==
  ASSUME NEW r \in Sends
  PROVE  LET s == [r EXCEPT !.age = @ + 1] IN
         /\ s.frame = r.frame /\ s.by = r.by
         /\ r.age < WriteTimeout => s \in Sends
<1>1. r.age \in 0..WriteTimeout /\ r.frame \in Frames /\ r.by \in {"task", "relay"}
      /\ r = [frame |-> r.frame, by |-> r.by, age |-> r.age]
  BY DEF Sends
<1>2. [r EXCEPT !.age = @ + 1] = [frame |-> r.frame, by |-> r.by, age |-> r.age + 1]
  BY <1>1
<1>3. r.age < WriteTimeout => r.age + 1 \in 0..WriteTimeout
  BY <1>1, ConstantFacts
<1> QED
  BY <1>1, <1>2, <1>3 DEF Sends

LEMMA OlderPiece ==
  ASSUME NEW r \in Pieces
  PROVE  LET s == [r EXCEPT !.age = IF @ < MaxDelay THEN @ + 1 ELSE @] IN
         /\ s \in Pieces /\ s.frame = r.frame /\ s.part = r.part
         /\ s.age = IF r.age < MaxDelay THEN r.age + 1 ELSE r.age
<1> DEFINE k == IF r.age < MaxDelay THEN r.age + 1 ELSE r.age
<1>1. r.age \in 0..MaxDelay /\ r.frame \in Frames /\ r.part \in {"prefix", "payload"}
      /\ r = [part |-> r.part, frame |-> r.frame, age |-> r.age]
  BY DEF Pieces
<1>2. [r EXCEPT !.age = IF @ < MaxDelay THEN @ + 1 ELSE @] = [part |-> r.part, frame |-> r.frame, age |-> k]
  BY <1>1
<1>3. k \in 0..MaxDelay
  BY <1>1, ConstantFacts
<1> HIDE DEF k
<1> QED
  BY <1>1, <1>2, <1>3 DEF Pieces, k

(* What a read that does not close changes, other than the pipe. *)
LEMMA ReadTyped ==
  ASSUME LinkTyped, NEW e \in Ends, NEW p \in {"prefix", "payload"}, NEW m \in {"read", "send"},
         NEW s \in Seq(Frames), NEW n \in {NoPing, 1, 2},
         pipe' \in [Ends -> Seq(Pieces)], part' = [part EXCEPT ![e] = p],
         idle' = [idle EXCEPT ![e] = 0], mode' = [mode EXCEPT ![e] = m],
         todo' = [todo EXCEPT ![e] = s], ping' = [ping EXCEPT ![e] = n],
         UNCHANGED <<state, lastNonce, queue, written, frozen>>
  PROVE  LinkTyped'
<1>1. /\ part' \in [Ends -> {"prefix", "payload"}] /\ mode' \in [Ends -> {"read", "send"}]
      /\ idle' \in [Ends -> 0..IdleTimeout] /\ todo' \in [Ends -> Seq(Frames)]
      /\ ping' \in [Ends -> {NoPing, 1, 2}]
  BY ConstantFacts DEF LinkTyped
<1>2. UNCHANGED <<state, lastNonce, queue, written, frozen>>
  OBVIOUS
<1> QED
  BY <1>1, <1>2 DEF LinkTyped

LEMMA NextTyped ==
  ASSUME LinkTyped, \A e \in Ends : OneSendOfTask(e), [Next]_vars
  PROVE  LinkTyped'
<1> USE DEF LinkTyped
<1>1. ASSUME NEW e \in Ends, TaskSends(e) PROVE LinkTyped'
  <2>1. Head(todo[e]) \in Frames
    BY <1>1, TailFacts DEF TaskSends
  <2> HIDE DEF LinkTyped
  <2> QED
    BY <1>1, <2>1, StartSendTyped DEF TaskSends
<1>2. ASSUME NEW e \in Ends, TaskReadsOn(e) PROVE LinkTyped'
  BY <1>2, ConstantFacts DEF TaskReadsOn, sendVars
<1>3. ASSUME NEW e \in Ends, Write(e) PROVE LinkTyped'
  <2> DEFINE frame == Head(queue[e]).frame
             prefix  == [part |-> "prefix", frame |-> frame, age |-> 0]
             payload == [part |-> "payload", frame |-> frame, age |-> 0]
  <2>1. Head(queue[e]) \in Sends
    BY <1>3, TailFacts DEF Write
  <2>2. frame \in Frames
    BY <2>1 DEF Sends
  <2>3. prefix \in Pieces /\ payload \in Pieces
    BY <2>2, ConstantFacts DEF Pieces
  <2>4. pipe' = [pipe EXCEPT ![e] = @ \o <<prefix, payload>>]
    BY <1>3 DEF Write
  <2> HIDE DEF prefix, payload, frame
  <2>5. pipe' \in [Ends -> Seq(Pieces)]
    BY <2>3, <2>4
  <2> QED
    BY <1>3, <2>5 DEF Write, taskVars
<1>4. ASSUME NEW e \in Ends, Drained(e) PROVE LinkTyped'
  <2>1. queue[e] # <<>>
    BY <1>4 DEF Drained, OneSendOfTask
  <2>2. /\ Tail(queue[e]) \in Seq(Sends) /\ Len(Tail(queue[e])) = Len(queue[e]) - 1
        /\ Len(queue[e]) \in Nat /\ Head(queue[e]) = queue[e][1] /\ 1 \in DOMAIN queue[e]
    BY <2>1, TailFacts
  <2>3. queue' \in [Ends -> Seq(Sends)] /\ \A x \in Ends : Len(queue'[x]) <= MaxPendingSends
    BY <1>4, <2>2, ConstantFacts DEF Drained
  <2>4. Head(queue[e]).by = "task" => Tail(todo[e]) \in Seq(Frames)
    BY <2>2, TailFacts DEF OneSendOfTask
  <2>5. todo' \in [Ends -> Seq(Frames)]
    BY <1>4, <2>4 DEF Drained
  <2> QED
    BY <1>4, <2>3, <2>5 DEF Drained
<1>5. ASSUME NEW e \in Ends, SendTimeout(e) PROVE LinkTyped'
  BY <1>5, CloseTyped DEF SendTimeout, Reasons
<1>6. ASSUME NEW e \in Ends, ReadPrefix(e) PROVE LinkTyped'
  <2>1. pipe' \in [Ends -> Seq(Pieces)]
    BY <1>6, ReadFacts DEF ReadPrefix, Reads
  <2>2. CASE Next1(e).part = "prefix"
    <3>1. /\ mode' = [mode EXCEPT ![e] = mode[e]] /\ todo' = [todo EXCEPT ![e] = todo[e]]
          /\ ping' = [ping EXCEPT ![e] = ping[e]] /\ part' = [part EXCEPT ![e] = "payload"]
          /\ idle' = [idle EXCEPT ![e] = 0]
          /\ UNCHANGED <<state, lastNonce, queue, written, frozen>>
      BY <1>6, <2>2 DEF ReadPrefix, sendVars
    <3>2. mode[e] \in {"read", "send"} /\ todo[e] \in Seq(Frames) /\ ping[e] \in {NoPing, 1, 2}
      OBVIOUS
    <3> HIDE DEF LinkTyped
    <3> QED
      BY <2>1, <3>1, <3>2, ReadTyped
  <2>3. CASE Next1(e).part # "prefix"
    <3> HIDE DEF LinkTyped
    <3> QED
      BY <1>6, <2>1, <2>3, CloseTyped DEF ReadPrefix, Reasons
  <2> QED
    BY <2>2, <2>3
<1>7. ASSUME NEW e \in Ends, NEW s \in Seq(Frames), Reads(e, "payload"), Consume(e), Answer(e, s),
             part' = [part EXCEPT ![e] = "prefix"], idle' = [idle EXCEPT ![e] = 0],
             frozen' = frozen
      PROVE  LinkTyped'
  <2>1. pipe' \in [Ends -> Seq(Pieces)]
    BY <1>7, ReadFacts DEF Reads
  <2> QED
    <3>1. /\ mode' = [mode EXCEPT ![e] = "send"] /\ todo' = [todo EXCEPT ![e] = s]
          /\ ping' = [ping EXCEPT ![e] = ping[e]] /\ part' = [part EXCEPT ![e] = "prefix"]
          /\ idle' = [idle EXCEPT ![e] = 0]
          /\ UNCHANGED <<state, lastNonce, queue, written, frozen>>
      BY <1>7 DEF Answer, sendVars
    <3>2. ping[e] \in {NoPing, 1, 2}
      OBVIOUS
    <3> HIDE DEF LinkTyped
    <3> QED
      BY <2>1, <3>1, <3>2, ReadTyped
<1>8. ASSUME NEW e \in Ends, HandlePing(e) PROVE LinkTyped'
  <2> HIDE DEF LinkTyped
  <2>1. Next1(e).frame \in Frames
    BY <1>8, ReadFacts DEF HandlePing, Reads
  <2>2. <<Pong(Next1(e).frame.nonce)>> \in Seq(Frames)
    BY <1>8, <2>1, FrameCases, ResponseIsSeq DEF HandlePing
  <2> QED
    BY <1>7, <1>8, <2>2 DEF HandlePing
<1>9. ASSUME NEW e \in Ends, HandleGetBlocks(e) PROVE LinkTyped'
  BY <1>7, <1>9, ResponseIsSeq DEF HandleGetBlocks
<1>10. ASSUME NEW e \in Ends, HandlePong(e) PROVE LinkTyped'
  <2>1. pipe' \in [Ends -> Seq(Pieces)]
    BY <1>10, ReadFacts DEF HandlePong, Reads
  <2>2. CASE Next1(e).frame.nonce = ping[e]
    <3>1. /\ mode' = [mode EXCEPT ![e] = mode[e]] /\ todo' = [todo EXCEPT ![e] = todo[e]]
          /\ ping' = [ping EXCEPT ![e] = NoPing] /\ part' = [part EXCEPT ![e] = "prefix"]
          /\ idle' = [idle EXCEPT ![e] = 0]
          /\ UNCHANGED <<state, lastNonce, queue, written, frozen>>
      BY <1>10, <2>2 DEF HandlePong, sendVars
    <3>2. mode[e] \in {"read", "send"} /\ todo[e] \in Seq(Frames)
      OBVIOUS
    <3> HIDE DEF LinkTyped
    <3> QED
      BY <2>1, <3>1, <3>2, ReadTyped
  <2>3. CASE Next1(e).frame.nonce # ping[e]
    <3> HIDE DEF LinkTyped
    <3> QED
      BY <1>10, <2>1, <2>3, CloseTyped DEF HandlePong, Reasons
  <2> QED
    BY <2>2, <2>3
<1>11. ASSUME NEW e \in Ends, HandleData(e) PROVE LinkTyped'
  <2>1. pipe' \in [Ends -> Seq(Pieces)]
    BY <1>11, ReadFacts DEF HandleData, Reads
  <2>2. CASE UNCHANGED <<state, mode, todo, ping, lastNonce, sendVars, requests>>
    <3>1. /\ mode' = [mode EXCEPT ![e] = mode[e]] /\ todo' = [todo EXCEPT ![e] = todo[e]]
          /\ ping' = [ping EXCEPT ![e] = ping[e]] /\ part' = [part EXCEPT ![e] = "prefix"]
          /\ idle' = [idle EXCEPT ![e] = 0]
          /\ UNCHANGED <<state, lastNonce, queue, written, frozen>>
      BY <1>11, <2>2 DEF HandleData, sendVars
    <3>2. mode[e] \in {"read", "send"} /\ todo[e] \in Seq(Frames) /\ ping[e] \in {NoPing, 1, 2}
      OBVIOUS
    <3> HIDE DEF LinkTyped
    <3> QED
      BY <2>1, <3>1, <3>2, ReadTyped
  <2>3. CASE Answer(e, <<GetBlocks>>)
    BY <1>7, <1>11, <2>3, ResponseIsSeq DEF HandleData
  <2> QED
    BY <1>11, <2>2, <2>3 DEF HandleData
<1>12. ASSUME NEW e \in Ends, SendPing(e) PROVE LinkTyped'
  <2> DEFINE new == IF lastNonce[e] = 1 THEN 2 ELSE 1
  <2>1. new \in {1, 2} /\ <<Ping(new)>> \in Seq(Frames)
    BY ResponseIsSeq
  <2>2. /\ ping' = [ping EXCEPT ![e] = new] /\ lastNonce' = [lastNonce EXCEPT ![e] = new]
        /\ todo' = [todo EXCEPT ![e] = <<Ping(new)>>]
    BY <1>12 DEF SendPing
  <2> HIDE DEF new
  <2> QED
    BY <1>12, <2>1, <2>2, ConstantFacts DEF SendPing, sendVars
<1>13. ASSUME NEW e \in Ends, PingUnanswered(e) PROVE LinkTyped'
  BY <1>13, CloseTyped DEF PingUnanswered, Reasons
<1>14. ASSUME NEW e \in Ends, PeerGone(e) PROVE LinkTyped'
  BY <1>14, CloseTyped DEF PeerGone, Reasons
<1>15. ASSUME NEW e \in Ends, Relay(e) PROVE LinkTyped'
  BY <1>15, StartSendTyped, FrameFacts DEF Relay
<1>16. ASSUME NEW e \in Ends, Freeze(e) PROVE LinkTyped'
  BY <1>16 DEF Freeze, taskVars, sendVars
<1>17. ASSUME Tick PROVE LinkTyped'
  <2>1. idle' \in [Ends -> 0..IdleTimeout]
    <3>1. \A e \in Ends : Runs(e) /\ mode[e] = "read" => idle[e] < IdleTimeout
      BY <1>17, ConstantFacts DEF Tick, Urgent, Quiet
    <3> QED
      BY <1>17, <3>1, ConstantFacts DEF Tick
  <2>2. \A e \in Ends : queue'[e] \in Seq(Sends) /\ Len(queue'[e]) = Len(queue[e])
    <3> SUFFICES ASSUME NEW e \in Ends
                 PROVE  queue'[e] \in Seq(Sends) /\ Len(queue'[e]) = Len(queue[e])
      OBVIOUS
    <3> DEFINE older == [i \in DOMAIN queue[e] |->
                 IF Runs(e) THEN [queue[e][i] EXCEPT !.age = @ + 1] ELSE queue[e][i]]
    <3>1. queue'[e] = older
      BY <1>17 DEF Tick
    <3>2. \A i \in DOMAIN queue[e] : queue[e][i] \in Sends
      OBVIOUS
    <3>3. \A i \in DOMAIN queue[e] : Runs(e) => queue[e][i].age < WriteTimeout
      BY <1>17, <3>2, ConstantFacts DEF Tick, Urgent, Overdue, Sends
    <3>4. \A i \in DOMAIN queue[e] : Runs(e) => [queue[e][i] EXCEPT !.age = @ + 1] \in Sends
      BY <3>2, <3>3, OlderSend
    <3>5. older \in [1..Len(queue[e]) -> Sends] /\ Len(queue[e]) \in Nat
      BY <3>2, <3>4
    <3> HIDE DEF older
    <3> QED
      BY <3>1, <3>5, MapIsSeq
  <2>3. \A e \in Ends : pipe'[e] \in Seq(Pieces)
    <3> SUFFICES ASSUME NEW e \in Ends PROVE pipe'[e] \in Seq(Pieces)
      OBVIOUS
    <3> DEFINE older == [i \in DOMAIN pipe[e] |->
                 [pipe[e][i] EXCEPT !.age = IF @ < MaxDelay THEN @ + 1 ELSE @]]
    <3>1. pipe'[e] = older
      BY <1>17 DEF Tick
    <3>2. \A i \in DOMAIN pipe[e] : pipe[e][i] \in Pieces
      OBVIOUS
    <3>3. \A i \in DOMAIN pipe[e] :
            [pipe[e][i] EXCEPT !.age = IF @ < MaxDelay THEN @ + 1 ELSE @] \in Pieces
      BY <3>2, OlderPiece
    <3>4. older \in [1..Len(pipe[e]) -> Pieces] /\ Len(pipe[e]) \in Nat
      BY <3>3
    <3> HIDE DEF older
    <3> QED
      BY <3>1, <3>4, MapIsSeq
  <2>4. queue' \in [Ends -> Seq(Sends)] /\ pipe' \in [Ends -> Seq(Pieces)]
        /\ \A e \in Ends : Len(queue'[e]) <= MaxPendingSends
    BY <1>17, <2>2, <2>3 DEF Tick
  <2> QED
    BY <1>17, <2>1, <2>4 DEF Tick
<1>18. CASE UNCHANGED vars
  BY <1>18 DEF vars, taskVars, sendVars
<1> HIDE DEF LinkTyped
<1> QED
  BY <1>1, <1>2, <1>3, <1>4, <1>5, <1>6, <1>8, <1>9, <1>10, <1>11, <1>12, <1>13, <1>14,
     <1>15, <1>16, <1>17, <1>18 DEF Next, EndStep

-----------------------------------------------------------------------------
(* What holds of one end before a step holds after it if these are as before. *)
SameEnd(x) ==
  /\ state'[x] = state[x] /\ mode'[x] = mode[x] /\ part'[x] = part[x] /\ idle'[x] = idle[x]
  /\ todo'[x] = todo[x] /\ queue'[x] = queue[x] /\ written'[x] = written[x] /\ ping'[x] = ping[x]

LEMMA CloseIsLocal ==
  ASSUME LinkTyped, NEW e \in Ends, NEW why \in Reasons, Close(e, why)
  PROVE  /\ \A x \in Ends : x # e => SameEnd(x)
         /\ state'[e] = why /\ mode'[e] = "read" /\ part'[e] = "prefix" /\ idle'[e] = 0
         /\ todo'[e] = <<>> /\ queue'[e] = <<>> /\ written'[e] = FALSE /\ ping' = ping
BY DEF LinkTyped, Close, SameEnd

LEMMA StartSendIsLocal ==
  ASSUME LinkTyped, NEW e \in Ends, NEW f, NEW by, StartSend(e, f, by)
  PROVE  \A x \in Ends : x # e => SameEnd(x)
<1>1. CASE Len(queue[e]) >= MaxPendingSends
  BY <1>1, CloseIsLocal DEF StartSend, Reasons
<1>2. CASE ~(Len(queue[e]) >= MaxPendingSends)
  BY <1>2 DEF StartSend, LinkTyped, SameEnd, taskVars
<1> QED
  BY <1>1, <1>2

LEMMA StepIsLocal ==
  ASSUME LinkTyped, NEW e \in Ends, EndStep(e) \/ Relay(e) \/ Freeze(e)
  PROVE  \A x \in Ends : x # e => SameEnd(x) /\ (x \in frozen' <=> x \in frozen)
<1>1. CASE TaskSends(e)
  BY <1>1, StartSendIsLocal DEF TaskSends
<1>2. CASE TaskReadsOn(e)
  BY <1>2 DEF TaskReadsOn, SameEnd, sendVars, LinkTyped
<1>3. CASE Write(e)
  BY <1>3 DEF Write, SameEnd, taskVars, LinkTyped
<1>4. CASE Drained(e)
  BY <1>4 DEF Drained, SameEnd, LinkTyped
<1>5. CASE SendTimeout(e)
  BY <1>5, CloseIsLocal DEF SendTimeout, Reasons
<1>6. CASE ReadPrefix(e)
  <2>1. CASE Next1(e).part = "prefix"
    BY <1>6, <2>1 DEF ReadPrefix, SameEnd, sendVars, LinkTyped
  <2>2. CASE Next1(e).part # "prefix"
    BY <1>6, <2>2, CloseIsLocal DEF ReadPrefix, Reasons
  <2> QED
    BY <2>1, <2>2
<1>7. CASE HandlePing(e)
  BY <1>7 DEF HandlePing, Answer, SameEnd, sendVars, LinkTyped
<1>8. CASE HandlePong(e)
  <2>1. CASE Next1(e).frame.nonce = ping[e]
    BY <1>8, <2>1 DEF HandlePong, SameEnd, sendVars, LinkTyped
  <2>2. CASE Next1(e).frame.nonce # ping[e]
    BY <1>8, <2>2, CloseIsLocal DEF HandlePong, Reasons
  <2> QED
    BY <2>1, <2>2
<1>9. CASE HandleGetBlocks(e)
  BY <1>9 DEF HandleGetBlocks, Answer, SameEnd, sendVars, LinkTyped
<1>10. CASE HandleData(e)
  BY <1>10 DEF HandleData, Answer, SameEnd, sendVars, LinkTyped
<1>11. CASE SendPing(e)
  BY <1>11 DEF SendPing, SameEnd, sendVars, LinkTyped
<1>12. CASE PingUnanswered(e)
  BY <1>12, CloseIsLocal DEF PingUnanswered, Reasons
<1>13. CASE PeerGone(e)
  BY <1>13, CloseIsLocal DEF PeerGone, Reasons
<1>14. CASE Relay(e)
  BY <1>14, StartSendIsLocal DEF Relay
<1>15. CASE Freeze(e)
  BY <1>15 DEF Freeze, SameEnd, taskVars, sendVars
<1> QED
  BY <1>1, <1>2, <1>3, <1>4, <1>5, <1>6, <1>7, <1>8, <1>9, <1>10, <1>11, <1>12, <1>13,
     <1>14, <1>15 DEF EndStep

-----------------------------------------------------------------------------
(* A task in a send has at most one frame in the queue. *)
LEMMA InitOneSend == Init => \A e \in Ends : OneSendOfTask(e)
<1> SUFFICES ASSUME Init, NEW e \in Ends PROVE OneSendOfTask(e)
  OBVIOUS
<1> QED
  BY DEF Init, OneSendOfTask, Sending

LEMMA CloseOneSend ==
  ASSUME LinkTyped, NEW e \in Ends, NEW why \in Reasons, Close(e, why)
  PROVE  OneSendOfTask(e)'
<1>1. mode'[e] = "read" /\ todo'[e] = <<>> /\ queue'[e] = <<>> /\ written'[e] = FALSE
  BY CloseIsLocal
<1>2. DOMAIN queue'[e] = {}
  BY <1>1
<1> QED
  BY <1>1, <1>2 DEF OneSendOfTask, Sending

LEMMA StartSendOneSend ==
  ASSUME LinkTyped, NEW e \in Ends, NEW f \in Frames, NEW by \in {"task", "relay"},
         OneSendOfTask(e), Runs(e), StartSend(e, f, by),
         IF by = "task"
           THEN mode[e] = "send" /\ ~Sending(e) /\ todo[e] # <<>> /\ f = Head(todo[e])
           ELSE f = Data
  PROVE  OneSendOfTask(e)'
<1>1. CASE Len(queue[e]) >= MaxPendingSends
  BY <1>1, CloseOneSend DEF StartSend, Reasons
<1>2. CASE ~(Len(queue[e]) >= MaxPendingSends)
  <2> DEFINE new == [frame |-> f, by |-> by, age |-> 0]
             n == Len(queue[e]) + 1
  <2>1. /\ state'[e] = state[e] /\ state[e] = "open" /\ mode'[e] = mode[e] /\ part'[e] = part[e]
        /\ todo'[e] = todo[e] /\ queue'[e] = Append(queue[e], new)
    BY <1>2 DEF StartSend, taskVars, Runs, LinkTyped
  <2>2. /\ new.frame = f /\ new.by = by
        /\ Append(queue[e], new) # <<>> /\ DOMAIN Append(queue[e], new) = 1..n
        /\ DOMAIN queue[e] = 1..(n - 1) /\ n \in Nat
        /\ \A i \in 1..(n - 1) : Append(queue[e], new)[i] = queue[e][i]
        /\ Append(queue[e], new)[n] = new
    <3>1. new \in Sends /\ new.frame = f /\ new.by = by
      BY ConstantFacts DEF Sends
    <3>2. queue[e] \in Seq(Sends) /\ Len(queue[e]) \in Nat /\ DOMAIN queue[e] = 1..Len(queue[e])
          /\ (Len(queue[e]) + 1) - 1 = Len(queue[e])
      BY DEF LinkTyped
    <3> HIDE DEF new
    <3> QED
      BY <3>1, <3>2, AppendFacts
  <2> HIDE DEF new, n
  <2>3. \A i \in 1..n : i = n \/ i \in 1..(n - 1)
    BY <2>2
  <2>4. \A i \in 1..(n - 1) : by = "task" => queue[e][i].by # "task"
    BY <2>2 DEF Sending
  <2>5. mode[e] = "read" => ~Sending(e)' /\ by = "relay"
    BY <2>1, <2>2, <2>3 DEF OneSendOfTask, Sending
  <2>6. \A i \in DOMAIN queue'[e] : queue'[e][i].by = "relay" => queue'[e][i].frame = Data
    BY <2>1, <2>2, <2>3 DEF OneSendOfTask
  <2>7. ASSUME NEW i \in DOMAIN queue'[e], queue'[e][i].by = "task"
        PROVE  /\ todo'[e] # <<>> /\ queue'[e][i].frame = Head(todo'[e])
               /\ \A j \in DOMAIN queue'[e] : queue'[e][j].by = "task" => i = j
    <3>1. CASE by = "task"
      <4>1. i = n
        BY <2>1, <2>2, <2>3, <2>4, <2>7, <3>1
      <4> QED
        BY <2>1, <2>2, <2>3, <2>4, <3>1, <4>1
    <3>2. CASE by = "relay"
      <4>1. i \in 1..(n - 1) /\ queue[e][i].by = "task"
        BY <2>1, <2>2, <2>3, <2>7, <3>2
      <4>2. /\ todo[e] # <<>> /\ queue[e][i].frame = Head(todo[e])
            /\ \A j \in 1..(n - 1) : queue[e][j].by = "task" => i = j
        BY <2>2, <4>1 DEF OneSendOfTask
      <4> QED
        BY <2>1, <2>2, <2>3, <3>2, <4>1, <4>2
    <3> QED
      BY <3>1, <3>2
  <2> QED
    BY <2>1, <2>2, <2>5, <2>6, <2>7 DEF OneSendOfTask
<1> QED
  BY <1>1, <1>2

LEMMA NextOneSend ==
  ASSUME LinkTyped, \A e \in Ends : OneSendOfTask(e), [Next]_vars
  PROVE  \A e \in Ends : OneSendOfTask(e)'
<1>1. ASSUME NEW x \in Ends, SameEnd(x) PROVE OneSendOfTask(x)'
  BY <1>1 DEF SameEnd, OneSendOfTask, Sending
<1>2. ASSUME NEW e \in Ends, EndStep(e) \/ Relay(e) \/ Freeze(e) PROVE OneSendOfTask(e)'
  <2> USE DEF OneSendOfTask, Sending, LinkTyped
  <2>1. CASE TaskSends(e)
    <3>1. Head(todo[e]) \in Frames
      BY <2>1, TailFacts DEF TaskSends
    <3> HIDE DEF OneSendOfTask, LinkTyped, Sending
    <3> QED
      BY <2>1, <3>1, StartSendOneSend DEF TaskSends
  <2>2. CASE TaskReadsOn(e)
    BY <2>2 DEF TaskReadsOn, sendVars, Runs
  <2>3. CASE Write(e)
    BY <2>3 DEF Write, taskVars, Runs
  <2>4. CASE Drained(e)
    <3>1. /\ queue[e] \in Seq(Sends) /\ queue[e] # <<>>
          /\ queue'[e] = Tail(queue[e]) /\ written'[e] = FALSE
          /\ state'[e] = "open" /\ mode'[e] = mode[e] /\ part'[e] = part[e]
          /\ todo'[e] = IF queue[e][1].by = "task" THEN Tail(todo[e]) ELSE todo[e]
      BY <2>4 DEF Drained, Runs
    <3>2. /\ Len(queue[e]) \in Nat /\ DOMAIN queue[e] = 1..Len(queue[e]) /\ Len(queue[e]) >= 1
          /\ DOMAIN queue'[e] = 1..(Len(queue[e]) - 1)
          /\ \A i \in 1..(Len(queue[e]) - 1) : queue'[e][i] = queue[e][i + 1]
      BY <3>1, TailFacts
    <3>3. queue[e][1].by = "task" =>
            /\ mode[e] = "send"
            /\ \A i \in 1..Len(queue[e]) : i # 1 => queue[e][i].by # "task"
      BY <3>2
    <3>4. \A i \in DOMAIN queue'[e] : i + 1 \in DOMAIN queue[e] /\ i + 1 # 1 /\ queue'[e][i] = queue[e][i + 1]
      BY <3>2
    <3>5. \A i, j \in DOMAIN queue'[e] : i + 1 = j + 1 => i = j
      BY <3>2
    <3> HIDE DEF LinkTyped
    <3>6. \A i \in DOMAIN queue'[e] : queue'[e][i].by = "task" => queue[e][1].by # "task" /\ todo'[e] = todo[e]
      BY <3>1, <3>2, <3>3, <3>4
    <3>7. mode'[e] = "read" => todo'[e] = <<>> /\ ~Sending(e)'
      BY <3>1, <3>3, <3>4
    <3>8. \A i \in DOMAIN queue'[e] :
            /\ queue'[e][i].by = "relay" => queue'[e][i].frame = Data
            /\ queue'[e][i].by = "task" =>
                 /\ todo'[e] # <<>> /\ queue'[e][i].frame = Head(todo'[e])
                 /\ \A j \in DOMAIN queue'[e] : queue'[e][j].by = "task" => i = j
      BY <3>4, <3>5, <3>6
    <3>9. part'[e] = part[e] /\ mode'[e] = mode[e] /\ state'[e] = "open" /\ ~written'[e]
      BY <3>1
    <3> QED
      BY <3>7, <3>8, <3>9
  <2>5. CASE SendTimeout(e)
    <3> HIDE DEF OneSendOfTask
    <3> QED
      BY <2>5, CloseOneSend DEF SendTimeout, Reasons
  <2>6. CASE ReadPrefix(e)
    <3>1. CASE Next1(e).part = "prefix"
      BY <2>6, <3>1 DEF ReadPrefix, Reads, Runs, sendVars
    <3>2. CASE Next1(e).part # "prefix"
      <4> HIDE DEF OneSendOfTask
      <4> QED
        BY <2>6, <3>2, CloseOneSend DEF ReadPrefix, Reasons
    <3> QED
      BY <3>1, <3>2
  <2>7. CASE HandlePing(e)
    BY <2>7 DEF HandlePing, Answer, Reads, Runs, sendVars
  <2>8. CASE HandlePong(e)
    <3>1. CASE Next1(e).frame.nonce = ping[e]
      BY <2>8, <3>1 DEF HandlePong, Reads, Runs, sendVars
    <3>2. CASE Next1(e).frame.nonce # ping[e]
      <4> HIDE DEF OneSendOfTask
      <4> QED
        BY <2>8, <3>2, CloseOneSend DEF HandlePong, Reasons
    <3> QED
      BY <3>1, <3>2
  <2>9. CASE HandleGetBlocks(e)
    BY <2>9 DEF HandleGetBlocks, Answer, Reads, Runs, sendVars
  <2>10. CASE HandleData(e)
    BY <2>10 DEF HandleData, Answer, Reads, Runs, sendVars
  <2>11. CASE SendPing(e)
    BY <2>11 DEF SendPing, Quiet, Runs, sendVars
  <2>12. CASE PingUnanswered(e)
    <3> HIDE DEF OneSendOfTask
    <3> QED
      BY <2>12, CloseOneSend DEF PingUnanswered, Reasons
  <2>13. CASE PeerGone(e)
    <3> HIDE DEF OneSendOfTask
    <3> QED
      BY <2>13, CloseOneSend DEF PeerGone, Reasons
  <2>14. CASE Relay(e)
    <3> HIDE DEF OneSendOfTask, LinkTyped, Sending
    <3> QED
      BY <2>14, StartSendOneSend, FrameFacts DEF Relay
  <2>15. CASE Freeze(e)
    BY <2>15 DEF Freeze, taskVars, sendVars
  <2> QED
    BY <1>2, <2>1, <2>2, <2>3, <2>4, <2>5, <2>6, <2>7, <2>8, <2>9, <2>10, <2>11, <2>12,
       <2>13, <2>14, <2>15 DEF EndStep
<1>3. ASSUME Tick, NEW x \in Ends PROVE OneSendOfTask(x)'
  <2>1. UNCHANGED <<state, mode, part, todo, written>>
    BY <1>3 DEF Tick
  <2>2. DOMAIN queue'[x] = DOMAIN queue[x] /\ queue[x] \in Seq(Sends) /\ queue'[x] \in Seq(Sends)
    BY <1>3, NextTyped DEF Tick, LinkTyped, Next
  <2>3. \A i \in DOMAIN queue[x] : queue'[x][i].frame = queue[x][i].frame /\ queue'[x][i].by = queue[x][i].by
    <3>1. \A i \in DOMAIN queue[x] : queue[x][i] \in Sends
      BY <2>2
    <3> QED
      BY <1>3, <3>1, OlderSend DEF Tick
  <2>4. queue[x] # <<>> => queue'[x] # <<>>
    BY <2>2
  <2>5. queue[x] = <<>> => queue'[x] = <<>>
    BY <2>2, NoDomain
  <2> QED
    BY <2>1, <2>2, <2>3, <2>4, <2>5 DEF OneSendOfTask, Sending
<1>4. CASE UNCHANGED vars
  BY <1>4 DEF vars, taskVars, sendVars, OneSendOfTask, Sending
<1>5. ASSUME NEW e \in Ends, EndStep(e) \/ Relay(e) \/ Freeze(e)
      PROVE  \A x \in Ends : OneSendOfTask(x)'
  BY <1>1, <1>2, <1>5, StepIsLocal
<1> QED
  BY <1>3, <1>4, <1>5 DEF Next

-----------------------------------------------------------------------------
(* The pipes. *)
NewPieces(f) == <<[part |-> "prefix", frame |-> f, age |-> 0],
                  [part |-> "payload", frame |-> f, age |-> 0]>>

LEMMA NewPiecesFacts ==
  ASSUME NEW s \in Seq(Pieces), NEW f \in Frames
  PROVE  LET t == s \o NewPieces(f) IN
         /\ t \in Seq(Pieces) /\ Len(t) = Len(s) + 2 /\ DOMAIN t = 1..(Len(s) + 2) /\ t # <<>>
         /\ Len(s) \in Nat /\ DOMAIN s = 1..Len(s)
         /\ \A i \in 1..Len(s) : t[i] = s[i]
         /\ t[Len(s) + 1] = NewPieces(f)[1] /\ t[Len(s) + 2] = NewPieces(f)[2]
         /\ NewPieces(f)[1].part = "prefix" /\ NewPieces(f)[2].part = "payload"
         /\ NewPieces(f)[1].age = 0 /\ NewPieces(f)[2].age = 0
         /\ NewPieces(f)[1].frame = f /\ NewPieces(f)[2].frame = f
         /\ NewPieces(f)[1] \in Pieces /\ NewPieces(f)[2] \in Pieces
<1> DEFINE u == [part |-> "prefix", frame |-> f, age |-> 0]
           v == [part |-> "payload", frame |-> f, age |-> 0]
<1>1. /\ u \in Pieces /\ v \in Pieces /\ NewPieces(f) = <<u, v>>
      /\ u.part = "prefix" /\ v.part = "payload" /\ u.age = 0 /\ v.age = 0
      /\ u.frame = f /\ v.frame = f
  BY ConstantFacts DEF Pieces, NewPieces
<1> HIDE DEF u, v
<1>2. NewPieces(f)[1] = u /\ NewPieces(f)[2] = v
  BY <1>1
<1>3. /\ s \o <<u, v>> \in Seq(Pieces) /\ Len(s \o <<u, v>>) = Len(s) + 2
      /\ Len(s) \in Nat /\ DOMAIN s = 1..Len(s)
      /\ \A i \in 1..Len(s) : (s \o <<u, v>>)[i] = s[i]
      /\ (s \o <<u, v>>)[Len(s) + 1] = u /\ (s \o <<u, v>>)[Len(s) + 2] = v
  BY <1>1
<1>4. DOMAIN (s \o <<u, v>>) = 1..(Len(s) + 2) /\ s \o <<u, v>> # <<>>
  BY <1>3
<1> QED
  BY <1>1, <1>2, <1>3, <1>4

LEMMA WriteFacts ==
  ASSUME LinkTyped, NEW e \in Ends, Write(e)
  PROVE  /\ Head(queue[e]).frame \in Frames /\ pipe[e] \in Seq(Pieces)
         /\ pipe'[e] = pipe[e] \o NewPieces(Head(queue[e]).frame)
         /\ \A x \in Ends : SameEnd(x) \/ x = e
         /\ \A x \in Ends : x # e => pipe'[x] = pipe[x]
<1>1. Head(queue[e]) \in Sends
  BY TailFacts DEF Write, LinkTyped
<1> QED
  BY <1>1 DEF Write, NewPieces, LinkTyped, Sends, SameEnd, taskVars

LEMMA PipeChanges ==
  ASSUME LinkTyped, NEW e \in Ends, EndStep(e) \/ Relay(e) \/ Freeze(e)
  PROVE  \/ pipe' = pipe
         \/ Write(e)
         \/ Runs(e) /\ mode[e] = "read" /\ pipe[Peer(e)] # <<>> /\ Consume(e)
BY DEF EndStep, Relay, Freeze, TaskSends, TaskReadsOn, Drained, SendTimeout, ReadPrefix,
   HandlePing, HandlePong, HandleGetBlocks, HandleData, SendPing, PingUnanswered, PeerGone, Reads

LEMMA TickFacts ==
  ASSUME LinkTyped, Tick, NEW x \in Ends
  PROVE  /\ pipe[x] \in Seq(Pieces) /\ pipe'[x] \in Seq(Pieces)
         /\ DOMAIN pipe'[x] = DOMAIN pipe[x] /\ Len(pipe'[x]) = Len(pipe[x])
         /\ (pipe'[x] = <<>>) <=> (pipe[x] = <<>>)
         /\ \A i \in DOMAIN pipe[x] :
              /\ pipe[x][i] \in Pieces /\ pipe'[x][i] \in Pieces
              /\ pipe'[x][i].part = pipe[x][i].part /\ pipe'[x][i].frame = pipe[x][i].frame
              /\ pipe'[x][i].age = IF pipe[x][i].age < MaxDelay THEN pipe[x][i].age + 1
                                   ELSE pipe[x][i].age
<1>1. pipe[x] \in Seq(Pieces) /\ \A i \in DOMAIN pipe[x] : pipe[x][i] \in Pieces
  BY DEF LinkTyped
<1>2. pipe'[x] = [i \in DOMAIN pipe[x] |->
                    [pipe[x][i] EXCEPT !.age = IF @ < MaxDelay THEN @ + 1 ELSE @]]
  BY DEF Tick
<1>3. DOMAIN pipe'[x] = DOMAIN pipe[x]
  BY <1>2
<1>4. \A i \in DOMAIN pipe[x] :
        /\ pipe[x][i] \in Pieces /\ pipe'[x][i] \in Pieces
        /\ pipe'[x][i].part = pipe[x][i].part /\ pipe'[x][i].frame = pipe[x][i].frame
        /\ pipe'[x][i].age = IF pipe[x][i].age < MaxDelay THEN pipe[x][i].age + 1
                             ELSE pipe[x][i].age
  BY <1>1, <1>2, OlderPiece
<1>5. pipe'[x] \in [1..Len(pipe[x]) -> Pieces] /\ Len(pipe[x]) \in Nat
  <2> DEFINE older == [i \in DOMAIN pipe[x] |->
               [pipe[x][i] EXCEPT !.age = IF @ < MaxDelay THEN @ + 1 ELSE @]]
  <2>1. \A i \in DOMAIN pipe[x] :
          [pipe[x][i] EXCEPT !.age = IF @ < MaxDelay THEN @ + 1 ELSE @] \in Pieces
    BY <1>1, OlderPiece
  <2>2. Len(pipe[x]) \in Nat /\ DOMAIN pipe[x] = 1..Len(pipe[x])
    BY <1>1
  <2>3. older \in [DOMAIN pipe[x] -> Pieces]
    BY <2>1
  <2>4. pipe'[x] = older
    BY <1>2
  <2> HIDE DEF older
  <2> QED
    BY <2>2, <2>3, <2>4
<1>6. pipe'[x] \in Seq(Pieces) /\ Len(pipe'[x]) = Len(pipe[x])
  BY <1>5, MapIsSeq
<1>7. (pipe'[x] = <<>>) <=> (pipe[x] = <<>>)
  BY <1>1, <1>6
<1> QED
  BY <1>1, <1>3, <1>4, <1>6, <1>7

-----------------------------------------------------------------------------
(* The pieces of an end arrive in the order they were written. *)
LEMMA NextOldest ==
  ASSUME LinkTyped, \A e \in Ends : OldestFirst(e), [Next]_vars
  PROVE  \A e \in Ends : OldestFirst(e)'
<1>1. ASSUME NEW x \in Ends, pipe'[x] = pipe[x] PROVE OldestFirst(x)'
  BY <1>1 DEF OldestFirst
<1>2. ASSUME NEW e \in Ends, Write(e) PROVE OldestFirst(e)'
  <2> DEFINE n == Len(pipe[e])
             f == Head(queue[e]).frame
  <2>1. /\ pipe'[e] = pipe[e] \o NewPieces(f) /\ f \in Frames /\ pipe[e] \in Seq(Pieces)
    BY <1>2, WriteFacts
  <2> HIDE DEF f
  <2>2. /\ n \in Nat /\ DOMAIN pipe'[e] = 1..(n + 2) /\ DOMAIN pipe[e] = 1..n
        /\ \A i \in 1..n : pipe'[e][i] = pipe[e][i] /\ pipe[e][i] \in Pieces
        /\ pipe'[e][n + 1].age = 0 /\ pipe'[e][n + 2].age = 0
    BY <2>1, NewPiecesFacts
  <2> HIDE DEF n
  <2>3. \A i \in 1..(n + 2) : i \in 1..n \/ i = n + 1 \/ i = n + 2
    BY <2>2
  <2>4. \A i \in 1..(n + 2) : pipe'[e][i].age >= 0
    <3>1. ASSUME NEW i \in 1..n PROVE pipe'[e][i].age >= 0
      <4>1. pipe'[e][i].age \in 0..MaxDelay
        BY <2>2, AgeFacts
      <4> QED
        BY <4>1, ConstantFacts
    <3>2. pipe'[e][n + 1].age >= 0 /\ pipe'[e][n + 2].age >= 0
      BY <2>2
    <3> QED
      BY <2>3, <3>1, <3>2
  <2>5. ASSUME NEW i \in 1..(n + 2), NEW j \in 1..(n + 2), i < j
        PROVE  pipe'[e][i].age >= pipe'[e][j].age
    <3>1. CASE j \in 1..n
      <4>1. i \in 1..n
        BY <2>2, <2>5, <3>1
      <4> QED
        BY <2>2, <2>5, <3>1, <4>1 DEF OldestFirst
    <3>2. CASE pipe'[e][j].age = 0
      BY <2>4, <3>2
    <3> QED
      BY <2>2, <2>3, <3>1, <3>2
  <2> QED
    BY <2>2, <2>5 DEF OldestFirst
<1>3. ASSUME NEW e \in Ends, pipe[Peer(e)] # <<>>, Consume(e) PROVE OldestFirst(Peer(e))'
  <2> DEFINE s == pipe[Peer(e)]
  <2>1. s \in Seq(Pieces) /\ s # <<>> /\ pipe'[Peer(e)] = Tail(s) /\ OldestFirst(Peer(e))
    BY <1>3, ReadFacts, PeerFacts
  <2>2. /\ DOMAIN Tail(s) = 1..(Len(s) - 1) /\ DOMAIN s = 1..Len(s) /\ Len(s) \in Nat
        /\ \A i \in 1..(Len(s) - 1) : Tail(s)[i] = s[i + 1]
    BY <2>1, TailFacts
  <2>3. \A i, j \in DOMAIN s : i < j => s[i].age >= s[j].age
    BY <2>1 DEF OldestFirst
  <2> HIDE DEF s
  <2>4. \A i \in DOMAIN Tail(s) : i + 1 \in DOMAIN s
    BY <2>2
  <2>5. \A i, j \in DOMAIN Tail(s) : i < j => i + 1 < j + 1
    BY <2>2
  <2>6. \A i, j \in DOMAIN Tail(s) : i < j => Tail(s)[i].age >= Tail(s)[j].age
    BY <2>2, <2>3, <2>4, <2>5
  <2> QED
    BY <2>1, <2>6 DEF OldestFirst
<1>4. ASSUME Tick, NEW x \in Ends PROVE OldestFirst(x)'
  <2> DEFINE s == pipe[x]
             r == pipe'[x]
  <2>1. /\ DOMAIN r = DOMAIN s /\ \A i \in DOMAIN s : s[i] \in Pieces
        /\ \A i \in DOMAIN s :
             r[i].age = IF s[i].age < MaxDelay THEN s[i].age + 1 ELSE s[i].age
    BY <1>4, TickFacts
  <2>2. \A i, j \in DOMAIN s : i < j => s[i].age >= s[j].age
    BY <1>4 DEF OldestFirst
  <2>3. MaxDelay \in Nat
    BY ConstantFacts
  <2> HIDE DEF s, r
  <2>4. ASSUME NEW i \in DOMAIN s, NEW j \in DOMAIN s, i < j PROVE r[i].age >= r[j].age
    <3>1. s[i].age \in 0..MaxDelay /\ s[j].age \in 0..MaxDelay
      BY <2>1, AgeFacts
    <3>2. s[i].age >= s[j].age
      BY <2>2, <2>4
    <3> QED
      BY <2>1, <2>3, <3>1, <3>2
  <2>5. \A i, j \in DOMAIN r : i < j => r[i].age >= r[j].age
    BY <2>1, <2>4
  <2> QED
    BY <2>5 DEF OldestFirst, r
<1>5. ASSUME NEW e \in Ends, EndStep(e) \/ Relay(e) \/ Freeze(e)
      PROVE  \A x \in Ends : OldestFirst(x)'
  <2>1. CASE pipe' = pipe
    BY <1>1, <2>1
  <2>2. CASE Write(e)
    BY <1>1, <1>2, <2>2, WriteFacts
  <2>3. CASE pipe[Peer(e)] # <<>> /\ Consume(e)
    BY <1>1, <1>3, <2>3, ReadFacts, PeerFacts
  <2> QED
    BY <1>5, <2>1, <2>2, <2>3, PipeChanges
<1>6. CASE UNCHANGED vars
  BY <1>1, <1>6 DEF vars
<1> QED
  BY <1>4, <1>5, <1>6 DEF Next

-----------------------------------------------------------------------------
(* The stream that an end reads. *)
LEMMA AlternatesWrite ==
  ASSUME NEW s \in Seq(Pieces), NEW f \in Frames, NEW p \in {"prefix", "payload"},
         Alternates(s, p), s = <<>> => p = "prefix"
  PROVE  /\ Alternates(s \o NewPieces(f), p)
         /\ s # <<>> => (s \o NewPieces(f))[1] = s[1]
<1> DEFINE t == s \o NewPieces(f)
           n == Len(s)
<1>1. /\ n \in Nat /\ DOMAIN t = 1..(n + 2) /\ Len(t) = n + 2 /\ t # <<>> /\ DOMAIN s = 1..n
      /\ \A i \in 1..n : t[i] = s[i]
      /\ t[n + 1].part = "prefix" /\ t[n + 2].part = "payload"
  BY NewPiecesFacts
<1>2. n = 0 <=> s = <<>>
  OBVIOUS
<1> HIDE DEF t, n
<1>3. n # 0 => t[1] = s[1] /\ t[n] = s[n] /\ s[1].part = p /\ s[n].part = "payload"
  BY <1>1, <1>2 DEF Alternates, n
<1>4. t[1].part = p
  BY <1>1, <1>2, <1>3
<1>5. \A i \in 1..(n + 2) : i = 1 \/ (i \in 1..n /\ i - 1 \in 1..n) \/ (i = n + 1 /\ n # 0) \/ i = n + 2
  BY <1>1
<1>6. \A i \in DOMAIN t : i # 1 => t[i].part # t[i - 1].part
  <2> SUFFICES ASSUME NEW i \in 1..(n + 2), i # 1 PROVE t[i].part # t[i - 1].part
    BY <1>1
  <2>1. CASE i \in 1..n /\ i - 1 \in 1..n
    BY <1>1, <2>1 DEF Alternates
  <2>2. CASE i = n + 1 /\ n # 0
    <3>1. i - 1 = n
      BY <1>1, <2>2
    <3> QED
      BY <1>1, <1>3, <2>2, <3>1
  <2>3. CASE i = n + 2
    <3>1. i - 1 = n + 1
      BY <1>1, <2>3
    <3> QED
      BY <1>1, <2>3, <3>1
  <2> QED
    BY <1>5, <2>1, <2>2, <2>3
<1>7. Alternates(t, p)
  BY <1>1, <1>4, <1>6 DEF Alternates
<1> QED
  BY <1>2, <1>3, <1>7 DEF t

LEMMA AlternatesTail ==
  ASSUME NEW s \in Seq(Pieces), s # <<>>, NEW p \in {"prefix", "payload"}, Alternates(s, p)
  PROVE  /\ s[1].part = p
         /\ p = "prefix" => Tail(s) # <<>> /\ Alternates(Tail(s), "payload")
         /\ p = "payload" => Alternates(Tail(s), "prefix")
<1> DEFINE t == Tail(s)
           n == Len(s)
<1>1. /\ n \in Nat /\ n >= 1 /\ DOMAIN s = 1..n /\ DOMAIN t = 1..(n - 1) /\ Len(t) = n - 1
      /\ t \in Seq(Pieces) /\ \A i \in 1..(n - 1) : t[i] = s[i + 1]
  BY TailFacts
<1>2. s[1].part = p /\ s[n].part = "payload" /\ \A i \in 1..n : i # 1 => s[i].part # s[i - 1].part
  BY <1>1 DEF Alternates
<1>3. t = <<>> <=> n = 1
  BY <1>1
<1>4. \A i \in 1..n : s[i].part \in {"prefix", "payload"}
  BY <1>1, AgeFacts
<1> HIDE DEF t, n
<1>5. p = "prefix" => n # 1
  BY <1>2
<1>6. n # 1 => t[1] = s[2] /\ s[2].part # s[1].part /\ t[n - 1] = s[n] /\ s[2].part \in {"prefix", "payload"}
  <2> SUFFICES ASSUME n # 1
               PROVE  t[1] = s[2] /\ s[2].part # s[1].part /\ t[n - 1] = s[n]
                      /\ s[2].part \in {"prefix", "payload"}
    OBVIOUS
  <2>1. 1 \in 1..(n - 1) /\ 2 \in 1..n /\ n - 1 \in 1..(n - 1) /\ 1 + 1 = 2 /\ 2 - 1 = 1 /\ (n - 1) + 1 = n
    BY <1>1
  <2> QED
    BY <1>1, <1>2, <1>4, <2>1
<1>7. \A i \in DOMAIN t : i # 1 => t[i].part # t[i - 1].part
  <2> SUFFICES ASSUME NEW i \in 1..(n - 1), i # 1 PROVE t[i].part # t[i - 1].part
    BY <1>1
  <2>1. i + 1 \in 1..n /\ i + 1 # 1 /\ (i + 1) - 1 = i /\ i - 1 \in 1..(n - 1) /\ (i - 1) + 1 = i
    BY <1>1
  <2> QED
    BY <1>1, <1>2, <2>1
<1>8. \A q \in {"prefix", "payload"} : q # p => Alternates(t, q)
  BY <1>1, <1>2, <1>3, <1>6, <1>7 DEF Alternates
<1> QED
  BY <1>2, <1>3, <1>5, <1>8 DEF t

LEMMA InitAligned == Init => \A e \in Ends : OldestFirst(e) /\ Aligned(e)
<1> SUFFICES ASSUME Init, NEW e \in Ends PROVE OldestFirst(e) /\ Aligned(e)
  OBVIOUS
<1>1. pipe[e] = <<>> /\ pipe[Peer(e)] = <<>> /\ part[e] = "prefix"
  BY PeerFacts DEF Init
<1> QED
  BY <1>1 DEF OldestFirst, Aligned, Alternates

LEMMA NextAligned ==
  ASSUME LineIsFast, LinkTyped, LinkTyped', [Next]_vars,
         \A e \in Ends : OneSendOfTask(e) /\ Aligned(e)
  PROVE  \A e \in Ends : Aligned(e)'
<1>1. ASSUME NEW x \in Ends, SameEnd(x), pipe'[Peer(x)] = pipe[Peer(x)] PROVE Aligned(x)'
  BY <1>1 DEF SameEnd, Aligned
<1>2. ASSUME NEW e \in Ends, Write(e) PROVE Aligned(Peer(e))'
  <2> DEFINE x == Peer(e)
             s == pipe[e]
             f == Head(queue[e]).frame
  <2>1. /\ x \in Ends /\ x # e /\ Peer(x) = e /\ SameEnd(x) /\ Aligned(x)
        /\ pipe'[e] = s \o NewPieces(f) /\ f \in Frames /\ s \in Seq(Pieces)
        /\ part[x] \in {"prefix", "payload"}
    BY <1>2, WriteFacts, PeerFacts DEF LinkTyped
  <2> HIDE DEF f
  <2> SUFFICES ASSUME state[x] = "open" PROVE Aligned(x)'
    BY <2>1 DEF SameEnd, Aligned
  <2>2. Alternates(s, part[x]) /\ (part[x] = "payload" => s # <<>> /\ idle[x] <= s[1].age)
    BY <2>1 DEF Aligned
  <2> HIDE DEF x, s
  <2>3. /\ Alternates(pipe'[e], part[x]) /\ pipe'[e] # <<>>
        /\ s # <<>> => pipe'[e][1] = s[1]
    BY <2>1, <2>2, AlternatesWrite, NewPiecesFacts
  <2> QED
    BY <2>1, <2>2, <2>3 DEF SameEnd, Aligned, x
<1>3. ASSUME NEW e \in Ends, EndStep(e) \/ Relay(e) \/ Freeze(e) PROVE Aligned(Peer(e))'
  <2>1. Peer(e) \in Ends /\ Peer(e) # e /\ Peer(Peer(e)) = e /\ SameEnd(Peer(e))
    BY <1>3, StepIsLocal, PeerFacts
  <2>2. CASE pipe'[e] = pipe[e]
    BY <1>1, <2>1, <2>2
  <2>3. CASE Write(e)
    BY <1>2, <2>3
  <2>4. CASE pipe[Peer(e)] # <<>> /\ Consume(e)
    BY <2>2, <2>4, ReadFacts
  <2>5. \/ pipe' = pipe
        \/ Write(e)
        \/ Runs(e) /\ mode[e] = "read" /\ pipe[Peer(e)] # <<>> /\ Consume(e)
    BY <1>3, PipeChanges
  <2> QED
    BY <2>2, <2>3, <2>4, <2>5
(* The reader of a piece it expected. *)
<1>4. ASSUME NEW e \in Ends, NEW p \in {"prefix", "payload"}, Reads(e, p), Consume(e), idle'[e] = 0,
             part'[e] = IF p = "prefix" THEN "payload" ELSE "prefix"
      PROVE  Aligned(e)' /\ Next1(e).part = p
  <2> DEFINE s == pipe[Peer(e)]
  <2>1. /\ s \in Seq(Pieces) /\ s # <<>> /\ pipe'[Peer(e)] = Tail(s) /\ Next1(e) = s[1]
        /\ Alternates(s, p) /\ Tail(s) \in Seq(Pieces)
    BY <1>4, ReadFacts, TailFacts DEF Reads, Runs, Aligned
  <2> HIDE DEF s
  <2>2. /\ s[1].part = p
        /\ p = "prefix" => Tail(s) # <<>> /\ Alternates(Tail(s), "payload")
        /\ p = "payload" => Alternates(Tail(s), "prefix")
    BY <2>1, AlternatesTail
  <2>3. Tail(s) # <<>> => Tail(s)[1].age >= 0
    <3> SUFFICES ASSUME Tail(s) # <<>> PROVE Tail(s)[1].age >= 0
      OBVIOUS
    <3>1. Tail(s)[1] \in Pieces
      BY <2>1, TailFacts
    <3> QED
      BY <3>1, AgeFacts, ConstantFacts
  <2> QED
    BY <1>4, <2>1, <2>2, <2>3 DEF Aligned
<1>5. ASSUME NEW e \in Ends, EndStep(e) \/ Relay(e) \/ Freeze(e) PROVE Aligned(e)'
  <2>1. ASSUME NEW why \in Reasons \ {"open"}, Close(e, why) PROVE Aligned(e)'
    BY <2>1, CloseIsLocal DEF Aligned
  <2>2. ASSUME NEW f, NEW by, StartSend(e, f, by), pipe' = pipe PROVE Aligned(e)'
    BY <2>1, <2>2 DEF StartSend, Aligned, Reasons, taskVars
  <2>3. CASE TaskSends(e)
    BY <2>2, <2>3 DEF TaskSends
  <2>4. CASE TaskReadsOn(e)
    BY <2>4 DEF TaskReadsOn, Aligned, OneSendOfTask, LinkTyped
  <2>5. CASE Write(e)
    <3>1. pipe'[Peer(e)] = pipe[Peer(e)] /\ state' = state /\ part' = part /\ idle' = idle
      BY <2>5, WriteFacts, PeerFacts DEF Write, taskVars
    <3> QED
      BY <3>1 DEF Aligned
  <2>6. CASE Drained(e)
    BY <2>6 DEF Drained, Aligned
  <2>7. CASE SendTimeout(e)
    BY <2>1, <2>7 DEF SendTimeout, Reasons
  <2>8. CASE ReadPrefix(e)
    <3>1. CASE Next1(e).part = "prefix"
      BY <1>4, <2>8, <3>1 DEF ReadPrefix, LinkTyped
    <3>2. CASE Next1(e).part # "prefix"
      BY <2>1, <2>8, <3>2 DEF ReadPrefix, Reasons
    <3> QED
      BY <3>1, <3>2
  <2>9. CASE HandlePing(e)
    BY <1>4, <2>9 DEF HandlePing, LinkTyped
  <2>10. CASE HandlePong(e)
    <3>1. CASE Next1(e).frame.nonce = ping[e]
      BY <1>4, <2>10, <3>1 DEF HandlePong, LinkTyped
    <3>2. CASE Next1(e).frame.nonce # ping[e]
      BY <2>1, <2>10, <3>2 DEF HandlePong, Reasons
    <3> QED
      BY <3>1, <3>2
  <2>11. CASE HandleGetBlocks(e)
    BY <1>4, <2>11 DEF HandleGetBlocks, LinkTyped
  <2>12. CASE HandleData(e)
    BY <1>4, <2>12 DEF HandleData, LinkTyped
  <2>13. CASE SendPing(e)
    <3>1. pipe' = pipe /\ state' = state /\ part'[e] = "prefix" /\ idle[e] >= IdleTimeout
      BY <2>13 DEF SendPing, Quiet, LinkTyped
    <3>2. part[e] # "payload" \/ state[e] # "open"
      <4> SUFFICES ASSUME part[e] = "payload", state[e] = "open" PROVE FALSE
        OBVIOUS
      <4>1. pipe[Peer(e)] # <<>> /\ idle[e] <= pipe[Peer(e)][1].age
        BY DEF Aligned
      <4>2. pipe[Peer(e)][1] \in Pieces
        BY <4>1, PeerFacts, TailFacts DEF LinkTyped
      <4>3. pipe[Peer(e)][1].age \in 0..MaxDelay /\ idle[e] \in Nat
        <5>1. pipe[Peer(e)][1].age \in 0..MaxDelay
          BY <4>2, AgeFacts
        <5> QED
          BY <5>1, IdleFacts
      <4> QED
        BY <3>1, <4>1, <4>3, ConstantFacts DEF LineIsFast
    <3>3. part[e] \in {"prefix", "payload"}
      BY DEF LinkTyped
    <3> QED
      BY <3>1, <3>2, <3>3 DEF Aligned
  <2>14. CASE PingUnanswered(e)
    BY <2>1, <2>14 DEF PingUnanswered, Reasons
  <2>15. CASE PeerGone(e)
    BY <2>1, <2>15 DEF PeerGone, Reasons
  <2>16. CASE Relay(e)
    BY <2>2, <2>16 DEF Relay
  <2>17. CASE Freeze(e)
    BY <2>17 DEF Freeze, Aligned, taskVars
  <2> QED
    BY <1>5, <2>3, <2>4, <2>5, <2>6, <2>7, <2>8, <2>9, <2>10, <2>11, <2>12, <2>13, <2>14,
       <2>15, <2>16, <2>17 DEF EndStep
<1>6. ASSUME Tick, NEW x \in Ends PROVE Aligned(x)'
  <2> DEFINE s == pipe[Peer(x)]
             t == pipe'[Peer(x)]
  <2>1. /\ s \in Seq(Pieces) /\ t \in Seq(Pieces) /\ DOMAIN t = DOMAIN s /\ Len(t) = Len(s)
        /\ (t = <<>>) <=> (s = <<>>)
        /\ \A i \in DOMAIN s : /\ s[i] \in Pieces /\ t[i].part = s[i].part
                              /\ t[i].age = IF s[i].age < MaxDelay THEN s[i].age + 1 ELSE s[i].age
    BY <1>6, TickFacts, PeerFacts
  <2>2. state' = state /\ part' = part
    BY <1>6 DEF Tick
  <2>3. /\ mode[x] = "read" /\ Runs(x) /\ s # <<>> => s[1].age < MaxDelay \/ ~(s[1].age >= MaxDelay)
        /\ idle'[x] = IF Runs(x) /\ mode[x] = "read" THEN idle[x] + 1 ELSE idle[x]
        /\ idle[x] \in Nat
    <3>1. idle'[x] = IF Runs(x) /\ mode[x] = "read" THEN idle[x] + 1 ELSE idle[x]
      BY <1>6 DEF Tick
    <3>2. idle[x] \in Nat
      BY IdleFacts
    <3>3. ASSUME mode[x] = "read", Runs(x), s # <<>> PROVE ~(s[1].age >= MaxDelay)
      <4>1. ~(Next1(x).age >= MaxDelay)
        BY <1>6, <3>3 DEF Tick, Urgent
      <4>2. Next1(x) = s[1]
        BY <2>1, <3>3 DEF Next1
      <4> QED
        BY <4>1, <4>2
    <3> QED
      BY <3>1, <3>2, <3>3
  <2> SUFFICES ASSUME state[x] = "open" PROVE Aligned(x)'
    BY <2>2 DEF Aligned
  <2>4. Alternates(s, part[x]) /\ (part[x] = "payload" => s # <<>> /\ idle[x] <= s[1].age)
    BY DEF Aligned
  <2> HIDE DEF s, t
  <2>5. s # <<>> => 1 \in DOMAIN s /\ Len(s) \in DOMAIN s /\ s[1].age \in Nat
    <3> SUFFICES ASSUME s # <<>> PROVE 1 \in DOMAIN s /\ Len(s) \in DOMAIN s /\ s[1].age \in Nat
      OBVIOUS
    <3>1. 1 \in DOMAIN s /\ Len(s) \in DOMAIN s
      BY <2>1, TailFacts
    <3> QED
      BY <2>1, <3>1, AgeFacts, ConstantFacts
  <2>6. \A i \in DOMAIN s : i # 1 => i - 1 \in DOMAIN s
    BY <2>1
  <2>7. Alternates(t, part[x])
    BY <2>1, <2>4, <2>5, <2>6 DEF Alternates
  <2>8. part[x] = "payload" => t # <<>> /\ idle'[x] <= t[1].age
    <3> SUFFICES ASSUME part[x] = "payload" PROVE idle'[x] <= t[1].age
      BY <2>1, <2>4
    <3>1. s # <<>> /\ idle[x] <= s[1].age /\ s[1].age \in Nat
          /\ t[1].age = IF s[1].age < MaxDelay THEN s[1].age + 1 ELSE s[1].age
      BY <2>1, <2>4, <2>5
    <3>2. Runs(x) /\ mode[x] = "read" => s[1].age < MaxDelay
      BY <2>3, <3>1, ConstantFacts
    <3> QED
      BY <2>3, <3>1, <3>2
  <2> QED
    BY <2>2, <2>7, <2>8 DEF Aligned, t
<1>7. CASE UNCHANGED vars
  BY <1>7 DEF vars, taskVars, Aligned
<1>8. ASSUME NEW e \in Ends, EndStep(e) \/ Relay(e) \/ Freeze(e) PROVE \A x \in Ends : Aligned(x)'
  BY <1>3, <1>5, <1>8, PeerFacts
<1> QED
  BY <1>6, <1>7, <1>8 DEF Next

-----------------------------------------------------------------------------
(***************************************************************************)
(* How many of a sequence's elements are in a set.                         *)
(***************************************************************************)
Where(s, S) == {i \in DOMAIN s : s[i] \in S}
Hits(s, S)  == Cardinality(Where(s, S))
One(x, S)   == IF x \in S THEN 1 ELSE 0

LEMMA HitsType ==
  ASSUME NEW T, NEW s \in Seq(T), NEW S
  PROVE  IsFiniteSet(Where(s, S)) /\ Hits(s, S) \in Nat
<1>1. IsFiniteSet(1..Len(s)) /\ Where(s, S) \subseteq 1..Len(s)
  BY FS_Interval DEF Where
<1>2. IsFiniteSet(Where(s, S))
  BY <1>1, FS_Subset
<1> QED
  BY <1>2, FS_CardinalityType DEF Hits

LEMMA HitsNone ==
  ASSUME NEW s, NEW S, \A i \in DOMAIN s : s[i] \notin S
  PROVE  Hits(s, S) = 0
<1>1. Where(s, S) = {}
  BY DEF Where
<1> QED
  BY <1>1, FS_EmptySet DEF Hits

LEMMA HitsEmpty == \A S : Hits(<<>>, S) = 0
<1> SUFFICES ASSUME NEW S PROVE Hits(<<>>, S) = 0
  OBVIOUS
<1> QED
  BY HitsNone

LEMMA HitsSome ==
  ASSUME NEW T, NEW s \in Seq(T), NEW S
  PROVE  Hits(s, S) # 0 <=> \E i \in DOMAIN s : s[i] \in S
<1>1. IsFiniteSet(Where(s, S))
  BY HitsType
<1>2. Hits(s, S) = 0 <=> Where(s, S) = {}
  BY <1>1, FS_EmptySet DEF Hits
<1> QED
  BY <1>2 DEF Where

LEMMA HitsSame ==
  ASSUME NEW s, NEW t, NEW S, DOMAIN t = DOMAIN s, \A i \in DOMAIN s : t[i] \in S <=> s[i] \in S
  PROVE  Hits(t, S) = Hits(s, S)
<1>1. Where(t, S) = Where(s, S)
  BY DEF Where
<1> QED
  BY <1>1 DEF Hits

LEMMA HitsAppend ==
  ASSUME NEW T, NEW s \in Seq(T), NEW x \in T, NEW S
  PROVE  Hits(Append(s, x), S) = Hits(s, S) + One(x, S)
<1> DEFINE t == Append(s, x)
           n == Len(s) + 1
<1>1. /\ DOMAIN t = 1..n /\ t[n] = x /\ \A i \in 1..Len(s) : t[i] = s[i]
      /\ DOMAIN s = 1..Len(s) /\ n \notin 1..Len(s) /\ 1..n = (1..Len(s)) \cup {n}
  OBVIOUS
<1> HIDE DEF t, n
<1>2. IsFiniteSet(Where(s, S)) /\ n \notin Where(s, S) /\ Hits(s, S) \in Nat
  BY <1>1, HitsType DEF Where
<1>3. Where(t, S) = IF x \in S THEN Where(s, S) \cup {n} ELSE Where(s, S)
  BY <1>1 DEF Where
<1>4. Cardinality(Where(s, S) \cup {n}) = Cardinality(Where(s, S)) + 1
  BY <1>2, FS_AddElement
<1> QED
  BY <1>2, <1>3, <1>4 DEF Hits, One, t

LEMMA HitsTail ==
  ASSUME NEW T, NEW s \in Seq(T), s # <<>>, NEW S
  PROVE  Hits(s, S) = Hits(Tail(s), S) + One(s[1], S)
<1> DEFINE t == Tail(s)
           P == Where(s, S) \ {1}
           Q == Where(t, S)
           shift == [i \in P |-> i - 1]
<1>1. /\ DOMAIN s = 1..Len(s) /\ Len(s) \in Nat /\ Len(s) >= 1
      /\ DOMAIN t = 1..(Len(s) - 1) /\ \A i \in 1..(Len(s) - 1) : t[i] = s[i + 1]
  OBVIOUS
<1> HIDE DEF t
<1>2. P \subseteq 2..Len(s) /\ Q \subseteq 1..(Len(s) - 1)
  BY <1>1 DEF Where
<1>3. \A i \in P : i - 1 \in Q
  BY <1>1, <1>2 DEF Where
<1>4. \A j \in Q : j + 1 \in P
  BY <1>1, <1>2 DEF Where
<1>5. shift \in Bijection(P, Q)
  <2> HIDE DEF P, Q
  <2>1. shift \in [P -> Q]
    BY <1>3
  <2>2. \A i, j \in P : shift[i] = shift[j] => i = j
    BY <1>2
  <2>3. \A j \in Q : \E i \in P : shift[i] = j
    <3> SUFFICES ASSUME NEW j \in Q PROVE \E i \in P : shift[i] = j
      OBVIOUS
    <3>1. j + 1 \in P /\ (j + 1) - 1 = j
      BY <1>2, <1>4
    <3> QED
      BY <3>1
  <2> HIDE DEF shift
  <2> QED
    BY <2>1, <2>2, <2>3 DEF Bijection, Injection, Surjection, IsInjective
<1>6. IsFiniteSet(Where(s, S)) /\ Hits(s, S) \in Nat
  BY HitsType
<1>7. IsFiniteSet(P) /\ Cardinality(P) = IF 1 \in Where(s, S) THEN Hits(s, S) - 1 ELSE Hits(s, S)
  BY <1>6, FS_RemoveElement DEF Hits
<1>8. 1 \in Where(s, S) <=> s[1] \in S
  BY <1>1 DEF Where
<1>9. Cardinality(Q) = Cardinality(P)
  <2> HIDE DEF P, Q
  <2>1. ExistsBijection(P, Q)
    BY <1>5 DEF ExistsBijection
  <2> QED
    BY <1>7, <2>1, FS_Bijection
<1> QED
  BY <1>6, <1>7, <1>8, <1>9 DEF Hits, One, t

-----------------------------------------------------------------------------
(***************************************************************************)
(* The copies of a frame that an end has still to get to its peer: in the  *)
(* handler, in the queue and in the pipe.  A send that has been written is *)
(* still in the queue, and one that is in the queue is still in todo.      *)
(***************************************************************************)
Unsent(e)    == IF Sending(e) THEN Tail(todo[e]) ELSE todo[e]
Unwritten(e) == IF written[e] THEN Tail(queue[e]) ELSE queue[e]

SendsOf(f)    == {s \in Sends : s.frame = f}
PayloadsOf(f) == {p \in Pieces : p.part = "payload" /\ p.frame = f}

Out(e, f) ==
  Hits(Unsent(e), {f}) + Hits(Unwritten(e), SendsOf(f)) + Hits(pipe[e], PayloadsOf(f))

LEMMA OutType ==
  ASSUME LinkTyped, NEW e \in Ends, OneSendOfTask(e), NEW f
  PROVE  /\ Unsent(e) \in Seq(Frames) /\ Unwritten(e) \in Seq(Sends) /\ pipe[e] \in Seq(Pieces)
         /\ Hits(Unsent(e), {f}) \in Nat /\ Hits(Unwritten(e), SendsOf(f)) \in Nat
         /\ Hits(pipe[e], PayloadsOf(f)) \in Nat /\ Out(e, f) \in Nat
<1>1. Sending(e) => todo[e] # <<>>
  BY DEF OneSendOfTask, Sending
<1>2. Unsent(e) \in Seq(Frames)
  BY <1>1, TailFacts DEF LinkTyped, Unsent
<1>3. Unwritten(e) \in Seq(Sends)
  BY TailFacts DEF LinkTyped, Unwritten, OneSendOfTask
<1>4. pipe[e] \in Seq(Pieces)
  BY DEF LinkTyped
<1> QED
  BY <1>2, <1>3, <1>4, HitsType DEF Out

(* PING and PONG frames. *)
Calls == {Ping(n) : n \in {1, 2}} \cup {Pong(n) : n \in {1, 2}}

LEMMA OutPrimed ==
  ASSUME NEW e \in Ends, NEW f
  PROVE  Out(e, f)' = Hits(Unsent(e)', {f}) + Hits(Unwritten(e)', SendsOf(f))
                      + Hits(pipe'[e], PayloadsOf(f))
BY DEF Out

LEMMA OutSame ==
  ASSUME NEW x \in Ends, NEW f, SameEnd(x), pipe'[x] = pipe[x]
  PROVE  Out(x, f)' = Out(x, f)
<1>1. Unsent(x)' = Unsent(x) /\ Unwritten(x)' = Unwritten(x)
  BY DEF Unsent, Unwritten, Sending, SameEnd
<1> QED
  BY <1>1, OutPrimed DEF Out

LEMMA OutStartSend ==
  ASSUME LinkTyped, NEW e \in Ends, NEW f \in Frames, NEW g \in Calls, NEW by \in {"task", "relay"},
         OneSendOfTask(e), StartSend(e, f, by), pipe' = pipe,
         Len(queue[e]) < MaxPendingSends,
         IF by = "task" THEN ~Sending(e) /\ todo[e] # <<>> /\ f = Head(todo[e]) ELSE f = Data
  PROVE  Out(e, g)' = Out(e, g)
<1> DEFINE new == [frame |-> f, by |-> by, age |-> 0]
<1>1. /\ queue'[e] = Append(queue[e], new) /\ todo'[e] = todo[e] /\ written'[e] = written[e]
      /\ new \in Sends /\ new.frame = f /\ new.by = by
      /\ queue[e] \in Seq(Sends) /\ todo[e] \in Seq(Frames)
  <2>1. queue[e] \in Seq(Sends) /\ todo[e] \in Seq(Frames) /\ Len(queue[e]) \in Nat
    BY DEF LinkTyped
  <2>2. new \in Sends /\ new.frame = f /\ new.by = by
    BY ConstantFacts DEF Sends
  <2>3. queue' = [queue EXCEPT ![e] = Append(@, new)] /\ todo' = todo /\ written' = written
    BY <2>1, ConstantFacts DEF StartSend, taskVars
  <2> HIDE DEF new
  <2>4. queue'[e] = Append(queue[e], new)
    BY <2>3 DEF LinkTyped
  <2> QED
    BY <2>1, <2>2, <2>3, <2>4
<1> HIDE DEF new
<1>2. /\ DOMAIN queue'[e] = 1..(Len(queue[e]) + 1) /\ DOMAIN queue[e] = 1..Len(queue[e])
      /\ Len(queue[e]) \in Nat
      /\ \A i \in 1..Len(queue[e]) : queue'[e][i] = queue[e][i]
      /\ queue'[e][Len(queue[e]) + 1] = new
  BY <1>1, AppendFacts
<1>3. Unwritten(e)' = Append(Unwritten(e), new)
  <2>1. written[e] => queue[e] # <<>>
    BY DEF OneSendOfTask
  <2>2. queue[e] # <<>> => Tail(Append(queue[e], new)) = Append(Tail(queue[e]), new)
    BY <1>1
  <2> QED
    BY <1>1, <2>1, <2>2 DEF Unwritten
<1>4. Hits(Unwritten(e)', SendsOf(g)) = Hits(Unwritten(e), SendsOf(g)) + One(new, SendsOf(g))
  BY <1>1, <1>3, OutType, HitsAppend
<1>5. One(new, SendsOf(g)) = IF f = g THEN 1 ELSE 0
  BY <1>1 DEF One, SendsOf
<1>6. Hits(Unsent(e), {g}) = Hits(Unsent(e)', {g}) + (IF f = g THEN 1 ELSE 0)
  <2>1. CASE by = "task"
    <3>1. ~Sending(e) /\ Sending(e)' /\ todo[e] # <<>> /\ f = Head(todo[e])
      BY <1>1, <1>2, <2>1 DEF Sending
    <3>2. Unsent(e) = todo[e] /\ Unsent(e)' = Tail(todo[e])
      BY <1>1, <3>1 DEF Unsent
    <3>3. f = todo[e][1]
      BY <1>1, <3>1, TailFacts
    <3>4. Hits(todo[e], {g}) = Hits(Tail(todo[e]), {g}) + One(f, {g})
      BY <1>1, <3>1, <3>3, HitsTail
    <3> QED
      BY <3>2, <3>4 DEF One
  <2>2. CASE by = "relay"
    <3>1. f # g
      BY <2>2, FrameFacts DEF Calls
    <3>2. Sending(e)' <=> Sending(e)
      BY <1>1, <1>2, <2>2 DEF Sending
    <3>3. Unsent(e)' = Unsent(e)
      BY <1>1, <3>2 DEF Unsent
    <3>4. Hits(Unsent(e), {g}) \in Nat
      BY OutType
    <3> QED
      BY <3>1, <3>3, <3>4
  <2> QED
    BY <2>1, <2>2
<1>7. /\ Hits(Unsent(e), {g}) \in Nat /\ Hits(Unwritten(e), SendsOf(g)) \in Nat
      /\ Hits(pipe[e], PayloadsOf(g)) \in Nat
  BY OutType
<1>8. Unsent(e)' \in Seq(Frames)
  <2>1. Unsent(e)' = todo[e] \/ (todo[e] # <<>> /\ Unsent(e)' = Tail(todo[e]))
    BY <1>1, <1>2 DEF Unsent, Sending, OneSendOfTask
  <2> QED
    BY <1>1, <2>1, TailFacts
<1>9. Hits(Unsent(e)', {g}) \in Nat
  BY <1>8, HitsType
<1> QED
  BY <1>4, <1>5, <1>6, <1>7, <1>9, OutPrimed DEF Out

LEMMA OutWrite ==
  ASSUME LinkTyped, NEW e \in Ends, NEW g, OneSendOfTask(e), Write(e)
  PROVE  Out(e, g)' = Out(e, g)
<1> DEFINE f == Head(queue[e]).frame
           u == NewPieces(f)[1]
           v == NewPieces(f)[2]
<1>1. /\ queue[e] \in Seq(Sends) /\ queue[e] # <<>> /\ ~written[e] /\ written'[e]
      /\ queue'[e] = queue[e] /\ todo'[e] = todo[e]
      /\ f \in Frames /\ pipe[e] \in Seq(Pieces) /\ pipe'[e] = pipe[e] \o NewPieces(f)
      /\ f = queue[e][1].frame /\ queue[e][1] \in Sends
  <2>1. queue[e] \in Seq(Sends) /\ queue[e] # <<>>
    BY DEF Write, LinkTyped
  <2>2. Head(queue[e]) = queue[e][1] /\ queue[e][1] \in Sends
    BY <2>1, TailFacts
  <2>3. ~written[e] /\ written'[e] /\ queue'[e] = queue[e] /\ todo'[e] = todo[e]
    BY DEF Write, LinkTyped, taskVars
  <2> QED
    BY <2>1, <2>2, <2>3, WriteFacts
<1>2. Unsent(e)' = Unsent(e) /\ Unwritten(e) = queue[e] /\ Unwritten(e)' = Tail(queue[e])
  BY <1>1 DEF Unsent, Unwritten, Sending
<1> HIDE DEF f
<1>3. Hits(queue[e], SendsOf(g)) = Hits(Tail(queue[e]), SendsOf(g)) + (IF f = g THEN 1 ELSE 0)
  <2>1. One(queue[e][1], SendsOf(g)) = IF f = g THEN 1 ELSE 0
    BY <1>1 DEF One, SendsOf
  <2> QED
    BY <1>1, <2>1, HitsTail
<1>4. /\ u \in Pieces /\ v \in Pieces /\ u.part = "prefix" /\ v.part = "payload"
      /\ v.frame = f
  BY <1>1, NewPiecesFacts
<1>5. pipe'[e] = Append(Append(pipe[e], u), v) /\ Append(pipe[e], u) \in Seq(Pieces)
  <2>1. NewPieces(f) = <<u, v>>
    BY DEF NewPieces
  <2> HIDE DEF u, v
  <2> QED
    BY <1>1, <1>4, <2>1
<1> HIDE DEF u, v
<1>6. Hits(pipe'[e], PayloadsOf(g)) = Hits(pipe[e], PayloadsOf(g)) + (IF f = g THEN 1 ELSE 0)
  <2>1. /\ Hits(Append(pipe[e], u), PayloadsOf(g)) = Hits(pipe[e], PayloadsOf(g)) + One(u, PayloadsOf(g))
        /\ Hits(pipe'[e], PayloadsOf(g)) = Hits(Append(pipe[e], u), PayloadsOf(g)) + One(v, PayloadsOf(g))
    <3>1. \A s \in Seq(Pieces), x \in Pieces :
             Hits(Append(s, x), PayloadsOf(g)) = Hits(s, PayloadsOf(g)) + One(x, PayloadsOf(g))
      BY HitsAppend
    <3>2. pipe[e] \in Seq(Pieces) /\ u \in Pieces /\ v \in Pieces
      BY <1>1, <1>4
    <3>3. Hits(Append(pipe[e], u), PayloadsOf(g)) = Hits(pipe[e], PayloadsOf(g)) + One(u, PayloadsOf(g))
      BY <3>1, <3>2
    <3>4. Hits(Append(Append(pipe[e], u), v), PayloadsOf(g))
             = Hits(Append(pipe[e], u), PayloadsOf(g)) + One(v, PayloadsOf(g))
      BY <1>5, <3>1, <3>2
    <3> QED
      BY <1>5, <3>3, <3>4
  <2>2. One(u, PayloadsOf(g)) = 0 /\ One(v, PayloadsOf(g)) = IF f = g THEN 1 ELSE 0
    BY <1>4 DEF One, PayloadsOf
  <2>3. Hits(pipe[e], PayloadsOf(g)) \in Nat
    BY OutType
  <2> QED
    BY <2>1, <2>2, <2>3
<1>7. /\ Hits(Unsent(e), {g}) \in Nat /\ Hits(pipe[e], PayloadsOf(g)) \in Nat
  BY OutType
<1>8. Tail(queue[e]) \in Seq(Sends)
  BY <1>1, TailFacts
<1>9. Hits(Tail(queue[e]), SendsOf(g)) \in Nat
  BY <1>8, HitsType
<1> QED
  BY <1>2, <1>3, <1>6, <1>7, <1>9, OutPrimed DEF Out

LEMMA OutDrained ==
  ASSUME LinkTyped, NEW e \in Ends, NEW g, OneSendOfTask(e), Drained(e)
  PROVE  Out(e, g)' = Out(e, g)
<1> DEFINE q == queue[e]
<1>1. /\ q \in Seq(Sends) /\ q # <<>> /\ written[e] /\ ~written'[e] /\ queue'[e] = Tail(q)
      /\ pipe'[e] = pipe[e]
      /\ todo'[e] = IF q[1].by = "task" THEN Tail(todo[e]) ELSE todo[e]
  <2>1. q # <<>> /\ q \in Seq(Sends)
    BY DEF Drained, OneSendOfTask, LinkTyped
  <2>2. Head(q) = q[1]
    BY <2>1
  <2> QED
    BY <2>1, <2>2 DEF Drained, LinkTyped
<1>2. Unwritten(e)' = Unwritten(e)
  BY <1>1 DEF Unwritten
<1>3. /\ DOMAIN q = 1..Len(q) /\ Len(q) \in Nat /\ Len(q) >= 1 /\ DOMAIN Tail(q) = 1..(Len(q) - 1)
      /\ \A i \in 1..(Len(q) - 1) : Tail(q)[i] = q[i + 1]
  BY <1>1, TailFacts
<1>4. q[1].by \in {"task", "relay"}
  BY <1>1, <1>3, AgeFacts
<1>5. \A i \in 1..Len(q) : i = 1 \/ (i - 1 \in 1..(Len(q) - 1) /\ (i - 1) + 1 = i)
  BY <1>3
<1>6. \A i \in 1..(Len(q) - 1) : i + 1 \in 1..Len(q) /\ i + 1 # 1 /\ 1 \in 1..Len(q)
  BY <1>3
<1> HIDE DEF q
<1>7. CASE q[1].by = "task"
  <2>1. Sending(e)
    BY <1>3, <1>6, <1>7 DEF Sending, q
  <2>2. \A i, j \in DOMAIN q : q[i].by = "task" /\ q[j].by = "task" => i = j
    BY DEF OneSendOfTask, q
  <2>3. ~Sending(e)'
    <3> SUFFICES ASSUME NEW i \in DOMAIN queue'[e], queue'[e][i].by = "task" PROVE FALSE
      BY DEF Sending
    <3> QED
      BY <1>1, <1>3, <1>6, <1>7, <2>2
  <2> QED
    BY <1>1, <1>2, <1>7, <2>1, <2>3, OutPrimed DEF Out, Unsent
<1>8. CASE q[1].by = "relay"
  <2>1. Sending(e) => Sending(e)'
    <3> SUFFICES ASSUME NEW i \in DOMAIN q, q[i].by = "task" PROVE Sending(e)'
      BY DEF Sending, q
    <3>1. i - 1 \in DOMAIN queue'[e] /\ queue'[e][i - 1] = q[i]
      BY <1>1, <1>3, <1>5, <1>8
    <3> QED
      BY <3>1 DEF Sending
  <2>2. Sending(e)' => Sending(e)
    <3> SUFFICES ASSUME NEW i \in DOMAIN queue'[e], queue'[e][i].by = "task" PROVE Sending(e)
      BY DEF Sending
    <3>1. i + 1 \in DOMAIN q /\ q[i + 1] = queue'[e][i]
      BY <1>1, <1>3, <1>6
    <3> QED
      BY <3>1 DEF Sending, q
  <2> QED
    BY <1>1, <1>2, <1>8, <2>1, <2>2, OutPrimed DEF Out, Unsent
<1> QED
  BY <1>4, <1>7, <1>8

LEMMA OutClose ==
  ASSUME LinkTyped, NEW e \in Ends, NEW why \in Reasons, NEW g, OneSendOfTask(e), Close(e, why),
         pipe'[e] = pipe[e]
  PROVE  Out(e, g)' \in Nat /\ Out(e, g)' <= Out(e, g)
<1>1. todo'[e] = <<>> /\ queue'[e] = <<>> /\ written'[e] = FALSE
  BY CloseIsLocal
<1>2. Unsent(e)' = <<>> /\ Unwritten(e)' = <<>>
  <2>1. ~Sending(e)'
    BY <1>1 DEF Sending
  <2> QED
    BY <1>1, <2>1 DEF Unsent, Unwritten
<1>3. Out(e, g)' = Hits(pipe[e], PayloadsOf(g))
  <2>1. /\ Hits(<<>>, {g}) = 0 /\ Hits(<<>>, SendsOf(g)) = 0
        /\ Hits(pipe[e], PayloadsOf(g)) \in Nat
    BY HitsEmpty, OutType
  <2> QED
    BY <1>2, <2>1, OutPrimed, SMTT(20)
<1>4. /\ Hits(Unsent(e), {g}) \in Nat /\ Hits(Unwritten(e), SendsOf(g)) \in Nat
      /\ Hits(pipe[e], PayloadsOf(g)) \in Nat
  BY OutType
<1> QED
  BY <1>3, <1>4 DEF Out

LEMMA OutAnswer ==
  ASSUME LinkTyped, NEW e \in Ends, NEW g, OneSendOfTask(e), mode[e] = "read",
         NEW s \in Seq(Frames), todo'[e] = s, queue'[e] = queue[e], written'[e] = written[e],
         pipe'[e] = pipe[e]
  PROVE  Out(e, g)' = Out(e, g) + Hits(s, {g})
<1>1. todo[e] = <<>> /\ ~Sending(e) /\ ~Sending(e)'
  BY DEF OneSendOfTask, Sending
<1>2. Unsent(e) = <<>> /\ Unsent(e)' = s /\ Unwritten(e)' = Unwritten(e)
  BY <1>1 DEF Unsent, Unwritten
<1>3. Hits(<<>>, {g}) = 0 /\ Hits(s, {g}) \in Nat
  BY HitsEmpty, HitsType
<1>4. Hits(Unwritten(e), SendsOf(g)) \in Nat /\ Hits(pipe[e], PayloadsOf(g)) \in Nat
  BY OutType
<1>5. Out(e, g)' = Hits(s, {g}) + Hits(Unwritten(e), SendsOf(g)) + Hits(pipe[e], PayloadsOf(g))
  BY <1>2, OutPrimed
<1>6. Out(e, g) = 0 + Hits(Unwritten(e), SendsOf(g)) + Hits(pipe[e], PayloadsOf(g))
  BY <1>2, <1>3 DEF Out
<1> QED
  BY <1>3, <1>4, <1>5, <1>6

LEMMA OutRead ==
  ASSUME LinkTyped, NEW e \in Ends, NEW g, OneSendOfTask(Peer(e)), SameEnd(Peer(e)),
         pipe[Peer(e)] # <<>>, Consume(e)
  PROVE  Out(Peer(e), g) = Out(Peer(e), g)' + One(Next1(e), PayloadsOf(g))
<1> DEFINE x == Peer(e)
<1>1. x \in Ends /\ pipe[x] \in Seq(Pieces) /\ pipe'[x] = Tail(pipe[x]) /\ Next1(e) = pipe[x][1]
  BY ReadFacts, PeerFacts
<1> HIDE DEF x
<1>2. Unsent(x)' = Unsent(x) /\ Unwritten(x)' = Unwritten(x)
  BY DEF Unsent, Unwritten, Sending, SameEnd, x
<1>3. Hits(pipe[x], PayloadsOf(g)) = Hits(pipe'[x], PayloadsOf(g)) + One(Next1(e), PayloadsOf(g))
  BY <1>1, HitsTail DEF x
<1>4. Tail(pipe[x]) \in Seq(Pieces)
  BY <1>1, TailFacts DEF x
<1>5. Hits(pipe'[x], PayloadsOf(g)) \in Nat
  BY <1>1, <1>4, HitsType
<1>6. One(Next1(e), PayloadsOf(g)) \in Nat /\ OneSendOfTask(x)
  BY DEF One, x
<1>7. Hits(Unsent(x), {g}) \in Nat /\ Hits(Unwritten(x), SendsOf(g)) \in Nat
  BY <1>1, <1>6, OutType
<1>8. Out(x, g) = Out(x, g)' + One(Next1(e), PayloadsOf(g))
  BY <1>1, <1>2, <1>3, <1>5, <1>6, <1>7, OutPrimed DEF Out
<1> QED
  BY <1>8 DEF x

LEMMA OutTick ==
  ASSUME LinkTyped, LinkTyped', NEW x \in Ends, NEW g, OneSendOfTask(x), Tick
  PROVE  Out(x, g)' = Out(x, g)
<1>1. /\ queue[x] \in Seq(Sends) /\ queue'[x] \in Seq(Sends) /\ DOMAIN queue'[x] = DOMAIN queue[x]
      /\ todo' = todo /\ written' = written
      /\ written[x] => queue[x] # <<>>
  BY DEF Tick, LinkTyped, OneSendOfTask
<1>2. \A i \in DOMAIN queue[x] :
        /\ queue[x][i] \in Sends /\ queue'[x][i] \in Sends
        /\ queue'[x][i].frame = queue[x][i].frame /\ queue'[x][i].by = queue[x][i].by
  <2>1. \A i \in DOMAIN queue[x] : queue[x][i] \in Sends /\ queue'[x][i] \in Sends
    BY <1>1
  <2> QED
    BY <2>1, OlderSend DEF Tick
<1>3. Unsent(x)' = Unsent(x)
  <2>1. Sending(x)' <=> Sending(x)
    BY <1>1, <1>2 DEF Sending
  <2> QED
    BY <1>1, <2>1 DEF Unsent
<1>4. Hits(Unwritten(x)', SendsOf(g)) = Hits(Unwritten(x), SendsOf(g))
  <2>1. Hits(queue'[x], SendsOf(g)) = Hits(queue[x], SendsOf(g))
    <3>1. \A i \in DOMAIN queue[x] : queue'[x][i] \in SendsOf(g) <=> queue[x][i] \in SendsOf(g)
      BY <1>2 DEF SendsOf
    <3> QED
      BY <1>1, <3>1, HitsSame
  <2>2. CASE ~written[x]
    <3>1. Unwritten(x)' = queue'[x] /\ Unwritten(x) = queue[x]
      BY <1>1, <2>2 DEF Unwritten
    <3> QED
      BY <2>1, <3>1
  <2>3. CASE written[x]
    <3>1. queue[x] # <<>> /\ 1 \in DOMAIN queue[x] /\ queue'[x] # <<>>
      <4>1. queue[x] # <<>>
        BY <1>1, <2>3
      <4>2. 1 \in DOMAIN queue[x]
        BY <1>1, <4>1, TailFacts
      <4>3. 1 \in DOMAIN queue'[x]
        BY <1>1, <4>2
      <4>4. queue'[x] # <<>>
        BY <4>3
      <4> QED
        BY <4>1, <4>2, <4>4
    <3>2. /\ Hits(queue[x], SendsOf(g)) = Hits(Tail(queue[x]), SendsOf(g)) + One(queue[x][1], SendsOf(g))
          /\ Hits(queue'[x], SendsOf(g)) = Hits(Tail(queue'[x]), SendsOf(g)) + One(queue'[x][1], SendsOf(g))
      BY <1>1, <3>1, HitsTail
    <3>3. One(queue'[x][1], SendsOf(g)) = One(queue[x][1], SendsOf(g)) /\ One(queue[x][1], SendsOf(g)) \in Nat
      BY <1>2, <3>1 DEF One, SendsOf
    <3>4. Tail(queue[x]) \in Seq(Sends) /\ Tail(queue'[x]) \in Seq(Sends)
      BY <1>1, <3>1, TailFacts
    <3>5. Hits(Tail(queue[x]), SendsOf(g)) \in Nat /\ Hits(Tail(queue'[x]), SendsOf(g)) \in Nat
      BY <3>4, HitsType
    <3>6. Hits(Tail(queue'[x]), SendsOf(g)) = Hits(Tail(queue[x]), SendsOf(g))
      BY <2>1, <3>2, <3>3, <3>5
    <3>7. Unwritten(x)' = Tail(queue'[x]) /\ Unwritten(x) = Tail(queue[x])
      BY <1>1, <2>3 DEF Unwritten
    <3> QED
      BY <3>6, <3>7
  <2> QED
    BY <2>2, <2>3
<1>5. Hits(pipe'[x], PayloadsOf(g)) = Hits(pipe[x], PayloadsOf(g))
  <2>1. /\ DOMAIN pipe'[x] = DOMAIN pipe[x]
        /\ \A i \in DOMAIN pipe[x] : pipe'[x][i] \in PayloadsOf(g) <=> pipe[x][i] \in PayloadsOf(g)
    BY TickFacts DEF PayloadsOf
  <2> QED
    BY <2>1, HitsSame
<1> QED
  BY <1>3, <1>4, <1>5, OutPrimed DEF Out

-----------------------------------------------------------------------------
(* Between two open ends there is exactly one message of the call that an end
   waits for: its PING or the PONG. *)
Tokens(e, n) == Out(e, Ping(n)) + Out(Peer(e), Pong(n))

OneToken(e) ==
  state[e] = "open" => \A n \in {1, 2} :
    /\ n # ping[e] => Tokens(e, n) = 0
    /\ n = ping[e] => Tokens(e, n) <= 1
    /\ n = ping[e] /\ state[Peer(e)] = "open" => Tokens(e, n) = 1

Ordered == \A e \in Ends : OneSendOfTask(e) /\ OldestFirst(e) /\ Aligned(e) /\ OneToken(e)

LEMMA CallFacts ==
  /\ \A n \in {1, 2} : Ping(n) \in Calls /\ Pong(n) \in Calls
  /\ \A g \in Calls : g \in Frames /\ g # Data /\ g # GetBlocks
BY FrameFacts DEF Calls

LEMMA TokensPrimed ==
  ASSUME NEW e \in Ends, NEW n \in {1, 2}
  PROVE  Tokens(e, n)' = Out(e, Ping(n))' + Out(Peer(e), Pong(n))'
BY DEF Tokens

LEMMA ReadsExpected ==
  ASSUME LinkTyped, NEW e \in Ends, Aligned(e), NEW p \in {"prefix", "payload"}, Reads(e, p)
  PROVE  Next1(e).part = p
<1>1. Alternates(pipe[Peer(e)], p) /\ pipe[Peer(e)] # <<>> /\ pipe[Peer(e)] \in Seq(Pieces)
  BY PeerFacts DEF Aligned, Reads, Runs, LinkTyped
<1>2. pipe[Peer(e)][1].part = p /\ Next1(e) = pipe[Peer(e)][1]
  BY <1>1, AlternatesTail, TailFacts DEF Next1
<1> QED
  BY <1>2

LEMMA PongExpected ==
  ASSUME LinkTyped, Ordered, NEW e \in Ends, Reads(e, "payload"), Next1(e).frame.type = "PONG"
  PROVE  /\ Next1(e).frame.nonce \in {1, 2} /\ Next1(e).frame = Pong(Next1(e).frame.nonce)
         /\ Next1(e).frame.nonce = ping[e]
<1> DEFINE x == Peer(e)
           m == Next1(e).frame.nonce
<1>1. /\ x \in Ends /\ pipe[x] \in Seq(Pieces) /\ pipe[x] # <<>> /\ Next1(e) = pipe[x][1]
      /\ Next1(e).part = "payload" /\ state[e] = "open" /\ OneToken(e)
      /\ OneSendOfTask(e) /\ OneSendOfTask(x)
  BY PeerFacts, ReadsExpected, TailFacts DEF Reads, Runs, LinkTyped, Next1, Ordered
<1>2. Next1(e) \in Pieces /\ 1 \in DOMAIN pipe[x]
  BY <1>1, TailFacts
<1>3. m \in {1, 2} /\ Next1(e).frame = Pong(m)
  BY <1>2, AgeFacts, FrameCases
<1>4. pipe[x][1] \in PayloadsOf(Pong(m))
  BY <1>1, <1>2, <1>3 DEF PayloadsOf
<1> HIDE DEF x, m
<1>5. Hits(pipe[x], PayloadsOf(Pong(m))) # 0
  BY <1>1, <1>2, <1>4, HitsSome
<1>6. Out(x, Pong(m)) # 0 /\ Out(x, Pong(m)) \in Nat /\ Out(e, Ping(m)) \in Nat
  <2>1. /\ Hits(pipe[x], PayloadsOf(Pong(m))) \in Nat /\ Hits(Unsent(x), {Pong(m)}) \in Nat
        /\ Hits(Unwritten(x), SendsOf(Pong(m))) \in Nat
        /\ Out(x, Pong(m)) \in Nat /\ Out(e, Ping(m)) \in Nat
    BY <1>1, OutType
  <2> QED
    BY <1>5, <2>1 DEF Out
<1>7. Tokens(e, m) # 0
  BY <1>6 DEF Tokens, x
<1>8. m = ping[e]
  BY <1>1, <1>3, <1>7 DEF OneToken
<1> QED
  BY <1>3, <1>8 DEF m

-----------------------------------------------------------------------------
LEMMA InitOneToken == Init => \A e \in Ends : OneToken(e)
<1> SUFFICES ASSUME Init, NEW e \in Ends, NEW n \in {1, 2} PROVE Tokens(e, n) = 0 /\ ping[e] = NoPing
  BY DEF OneToken, NoPing
<1>1. ASSUME NEW x \in Ends, NEW g PROVE Out(x, g) = 0
  <2>1. Unsent(x) = <<>> /\ Unwritten(x) = <<>> /\ pipe[x] = <<>>
    BY DEF Init, Unsent, Unwritten, Sending
  <2>2. Hits(<<>>, {g}) = 0 /\ Hits(<<>>, SendsOf(g)) = 0 /\ Hits(<<>>, PayloadsOf(g)) = 0
    BY HitsEmpty
  <2> QED
    BY <2>1, <2>2 DEF Out
<1>2. Out(e, Ping(n)) = 0 /\ Out(Peer(e), Pong(n)) = 0
  BY <1>1, PeerFacts
<1> QED
  BY <1>2 DEF Tokens, Init

LEMMA TokensKept ==
  ASSUME Ordered, \A x \in Ends : \A g \in Calls : Out(x, g)' = Out(x, g),
         ping' = ping, state' = state
  PROVE  \A x \in Ends : OneToken(x)'
<1>1. \A x \in Ends : \A n \in {1, 2} : Tokens(x, n)' = Tokens(x, n)
  BY TokensPrimed, CallFacts, PeerFacts DEF Tokens
<1> QED
  BY <1>1 DEF OneToken, Ordered

LEMMA TokensClose ==
  ASSUME LinkTyped, Ordered, NEW e \in Ends, NEW why \in Reasons \ {"open"}, Close(e, why), pipe' = pipe
  PROVE  \A x \in Ends : OneToken(x)'
<1>1. Peer(e) \in Ends /\ Peer(e) # e /\ Peer(Peer(e)) = e /\ OneSendOfTask(e)
      /\ OneSendOfTask(Peer(e)) /\ OneToken(Peer(e))
  BY PeerFacts DEF Ordered
<1>2. SameEnd(Peer(e)) /\ state'[e] # "open"
  BY <1>1, CloseIsLocal
<1>3. \A g : Out(e, g)' \in Nat /\ Out(e, g)' <= Out(e, g) /\ Out(e, g) \in Nat
  BY <1>1, OutClose, OutType
<1>4. \A g : Out(Peer(e), g)' = Out(Peer(e), g) /\ Out(Peer(e), g) \in Nat
  BY <1>1, <1>2, OutSame, OutType
<1>5. OneToken(e)'
  BY <1>2 DEF OneToken
<1>6. OneToken(Peer(e))'
  <2> DEFINE x == Peer(e)
  <2>1. \A n \in {1, 2} : /\ Tokens(x, n)' = Out(x, Ping(n))' + Out(e, Pong(n))'
                          /\ Tokens(x, n) = Out(x, Ping(n)) + Out(e, Pong(n))
    BY <1>1, TokensPrimed DEF Tokens
  <2>2. \A n \in {1, 2} : Tokens(x, n)' \in Nat /\ Tokens(x, n) \in Nat /\ Tokens(x, n)' <= Tokens(x, n)
    BY <1>3, <1>4, <2>1
  <2> HIDE DEF x
  <2>3. state'[x] = state[x] /\ ping'[x] = ping[x] /\ Peer(x) = e /\ OneToken(x)
    BY <1>1, <1>2 DEF SameEnd, x
  <2>4. OneToken(x)'
    BY <1>2, <2>2, <2>3 DEF OneToken
  <2> QED
    BY <2>4 DEF x
<1> QED
  BY <1>1, <1>5, <1>6, PeerFacts

LEMMA HitsSingle ==
  ASSUME NEW f \in Frames, NEW g
  PROVE  Hits(<<f>>, {g}) = IF f = g THEN 1 ELSE 0
<1>1. <<f>> = Append(<<>>, f) /\ <<>> \in Seq(Frames)
  OBVIOUS
<1>2. Hits(Append(<<>>, f), {g}) = Hits(<<>>, {g}) + One(f, {g})
  BY <1>1, HitsAppend
<1>3. Hits(<<>>, {g}) = 0
  BY HitsEmpty
<1> QED
  BY <1>1, <1>2, <1>3 DEF One

(* A frame is read and the task goes on to send s. *)
LEMMA OutHandled ==
  ASSUME LinkTyped, Ordered, NEW e \in Ends, NEW p \in {"prefix", "payload"}, Reads(e, p),
         Consume(e), NEW s \in Seq(Frames), todo'[e] = s, queue' = queue, written' = written,
         SameEnd(Peer(e)), NEW g
  PROVE  /\ Out(e, g) \in Nat /\ Out(Peer(e), g) \in Nat
         /\ Out(e, g)' = Out(e, g) + Hits(s, {g})
         /\ Out(Peer(e), g) =
              Out(Peer(e), g)' + (IF p = "payload" /\ Next1(e).frame = g THEN 1 ELSE 0)
<1>1. /\ Peer(e) \in Ends /\ OneSendOfTask(e) /\ OneSendOfTask(Peer(e)) /\ Aligned(e)
      /\ mode[e] = "read" /\ pipe[Peer(e)] # <<>> /\ pipe'[e] = pipe[e]
  BY PeerFacts, ReadFacts DEF Ordered, Reads
<1>2. Out(e, g) \in Nat /\ Out(Peer(e), g) \in Nat
  BY <1>1, OutType
<1>3. queue'[e] = queue[e] /\ written'[e] = written[e]
  OBVIOUS
<1>4. Out(e, g)' = Out(e, g) + Hits(s, {g})
  BY <1>1, <1>3, OutAnswer
<1>5. Out(Peer(e), g) = Out(Peer(e), g)' + One(Next1(e), PayloadsOf(g))
  BY <1>1, OutRead
<1>6. Next1(e).part = p /\ Next1(e) \in Pieces
  BY <1>1, ReadsExpected, ReadFacts
<1>7. One(Next1(e), PayloadsOf(g)) = IF p = "payload" /\ Next1(e).frame = g THEN 1 ELSE 0
  BY <1>6 DEF One, PayloadsOf
<1> QED
  BY <1>2, <1>4, <1>5, <1>7

LEMMA OutSmaller ==
  ASSUME LinkTyped, LinkTyped', NEW x \in Ends, OneSendOfTask(x)', NEW g
  PROVE  Out(x, g)' \in Nat
<1>1. Sending(x)' => todo'[x] # <<>>
  BY DEF OneSendOfTask, Sending
<1>2. Unsent(x)' \in Seq(Frames)
  BY <1>1, TailFacts DEF LinkTyped, Unsent
<1>3. written'[x] => queue'[x] # <<>>
  BY DEF OneSendOfTask
<1>4. Unwritten(x)' \in Seq(Sends)
  BY <1>3, TailFacts DEF LinkTyped, Unwritten
<1>5. pipe'[x] \in Seq(Pieces)
  BY DEF LinkTyped
<1>6. /\ Hits(Unsent(x)', {g}) \in Nat /\ Hits(Unwritten(x)', SendsOf(g)) \in Nat
      /\ Hits(pipe'[x], PayloadsOf(g)) \in Nat
  BY <1>2, <1>4, <1>5, HitsType
<1> QED
  BY <1>6, OutPrimed

LEMMA NextOneToken ==
  ASSUME LinkTyped, LinkTyped', Ordered, \A e \in Ends : OneSendOfTask(e)', [Next]_vars
  PROVE  \A e \in Ends : OneToken(e)'
<1>1. ASSUME NEW e \in Ends, NEW f \in Frames, NEW by \in {"task", "relay"}, StartSend(e, f, by),
             pipe' = pipe,
             IF by = "task" THEN ~Sending(e) /\ todo[e] # <<>> /\ f = Head(todo[e]) ELSE f = Data
      PROVE  \A x \in Ends : OneToken(x)'
  <2>1. CASE Len(queue[e]) >= MaxPendingSends
    BY <1>1, <2>1, TokensClose DEF StartSend, Reasons
  <2>2. CASE ~(Len(queue[e]) >= MaxPendingSends)
    <3>1. Len(queue[e]) < MaxPendingSends /\ OneSendOfTask(e)
      BY <2>2, ConstantFacts DEF LinkTyped, Ordered
    <3>2. \A g \in Calls : Out(e, g)' = Out(e, g)
      BY <1>1, <3>1, OutStartSend
    <3>3. \A g \in Calls : Out(Peer(e), g)' = Out(Peer(e), g)
      BY <1>1, StartSendIsLocal, OutSame, PeerFacts
    <3>4. ping' = ping /\ state' = state
      BY <1>1, <2>2 DEF StartSend, taskVars
    <3> QED
      BY <3>2, <3>3, <3>4, TokensKept, PeerFacts
  <2> QED
    BY <2>1, <2>2
<1>2. ASSUME NEW e \in Ends, EndStep(e) \/ Relay(e) \/ Freeze(e),
             \A g \in Calls : Out(e, g)' = Out(e, g), pipe'[Peer(e)] = pipe[Peer(e)],
             ping' = ping, state' = state
      PROVE  \A x \in Ends : OneToken(x)'
  <2>1. \A g \in Calls : Out(Peer(e), g)' = Out(Peer(e), g)
    BY <1>2, StepIsLocal, OutSame, PeerFacts
  <2> QED
    BY <1>2, <2>1, TokensKept, PeerFacts
<1>3. ASSUME NEW e \in Ends, TaskSends(e) PROVE \A x \in Ends : OneToken(x)'
  <2>1. Head(todo[e]) \in Frames
    BY <1>3, TailFacts DEF TaskSends, LinkTyped
  <2> QED
    BY <1>1, <1>3, <2>1 DEF TaskSends
<1>4. ASSUME NEW e \in Ends, Relay(e) PROVE \A x \in Ends : OneToken(x)'
  BY <1>1, <1>4, FrameFacts DEF Relay
<1>5. ASSUME NEW e \in Ends, TaskReadsOn(e) PROVE \A x \in Ends : OneToken(x)'
  <2>1. Unsent(e)' = Unsent(e) /\ Unwritten(e)' = Unwritten(e) /\ pipe' = pipe /\ ping' = ping /\ state' = state
    BY <1>5 DEF TaskReadsOn, Unsent, Unwritten, Sending, sendVars
  <2>2. \A g \in Calls : Out(e, g)' = Out(e, g)
    BY <2>1, OutPrimed DEF Out
  <2> QED
    BY <1>2, <1>5, <2>1, <2>2 DEF EndStep
<1>6. ASSUME NEW e \in Ends, Write(e) PROVE \A x \in Ends : OneToken(x)'
  <2>1. EndStep(e)
    BY <1>6 DEF EndStep
  <2>2. OneSendOfTask(e)
    BY DEF Ordered
  <2>3. \A g \in Calls : Out(e, g)' = Out(e, g)
    BY <1>6, <2>2, OutWrite
  <2>4. pipe'[Peer(e)] = pipe[Peer(e)]
    BY <1>6, WriteFacts, PeerFacts
  <2>5. ping' = ping /\ state' = state
    BY <1>6 DEF Write, taskVars
  <2> QED
    BY <1>2, <2>1, <2>3, <2>4, <2>5
<1>7. ASSUME NEW e \in Ends, Drained(e) PROVE \A x \in Ends : OneToken(x)'
  BY <1>2, <1>7, OutDrained DEF Drained, Ordered, EndStep
<1>8. ASSUME NEW e \in Ends, SendTimeout(e) \/ PingUnanswered(e) \/ PeerGone(e)
      PROVE  \A x \in Ends : OneToken(x)'
  BY <1>8, TokensClose DEF SendTimeout, PingUnanswered, PeerGone, Reasons
<1>9. ASSUME NEW e \in Ends, Freeze(e) PROVE \A x \in Ends : OneToken(x)'
  <2>1. UNCHANGED <<todo, queue, written, pipe, ping, state>>
    BY <1>9 DEF Freeze, taskVars, sendVars
  <2>2. Unsent(e)' = Unsent(e) /\ Unwritten(e)' = Unwritten(e)
    BY <2>1 DEF Unsent, Unwritten, Sending
  <2>3. \A g \in Calls : Out(e, g)' = Out(e, g)
    BY <2>1, <2>2, OutPrimed DEF Out
  <2> QED
    BY <1>2, <1>9, <2>1, <2>3
(* A read that is answered by no PONG. *)
<1>10. ASSUME NEW e \in Ends, EndStep(e), NEW p \in {"prefix", "payload"}, Reads(e, p), Consume(e),
              p = "payload" => Next1(e).frame \notin Calls,
              NEW s \in Seq(Frames), \A i \in DOMAIN s : s[i] \notin Calls,
              todo'[e] = s, queue' = queue, written' = written, ping' = ping, state' = state
       PROVE  \A x \in Ends : OneToken(x)'
  <2>1. SameEnd(Peer(e)) /\ Peer(e) \in Ends
    BY <1>10, StepIsLocal, PeerFacts
  <2>2. \A g \in Calls : Hits(s, {g}) = 0
    BY <1>10, HitsNone
  <2>6. Reads(e, p) /\ Consume(e) /\ todo'[e] = s /\ queue' = queue /\ written' = written
    BY <1>10
  <2>3. ASSUME NEW g \in Calls PROVE Out(e, g)' = Out(e, g) /\ Out(Peer(e), g)' = Out(Peer(e), g)
    <3>1. /\ Out(e, g) \in Nat /\ Out(Peer(e), g) \in Nat
          /\ Out(e, g)' = Out(e, g) + Hits(s, {g})
          /\ Out(Peer(e), g) =
              Out(Peer(e), g)' + (IF p = "payload" /\ Next1(e).frame = g THEN 1 ELSE 0)
      BY <2>6, <2>1, OutHandled, ZenonT(60)
    <3>2. ~(p = "payload" /\ Next1(e).frame = g)
      BY <1>10
    <3>3. Out(Peer(e), g)' \in Nat
      BY <2>1, OutSmaller
    <3> QED
      BY <2>2, <3>1, <3>2, <3>3
  <2>4. \A x \in Ends : \A g \in Calls : Out(x, g)' = Out(x, g)
    BY <2>3, PeerFacts
  <2>5. ping' = ping /\ state' = state
    BY <1>10
  <2> QED
    BY <2>4, <2>5, TokensKept
<1>11. ASSUME NEW e \in Ends, ReadPrefix(e) PROVE \A x \in Ends : OneToken(x)'
  <2>1. Reads(e, "prefix") /\ Consume(e) /\ Next1(e).part = "prefix" /\ mode[e] = "read"
    BY <1>11, ReadsExpected DEF ReadPrefix, Ordered, Reads
  <2>2. todo'[e] = todo[e] /\ queue' = queue /\ written' = written /\ ping' = ping /\ state' = state
    BY <1>11, <2>1 DEF ReadPrefix, sendVars
  <2>3. todo'[e] = <<>> /\ <<>> \in Seq(Frames) /\ DOMAIN <<>> = {}
    BY <2>1, <2>2 DEF Ordered, OneSendOfTask
  <2> QED
    BY <1>10, <1>11, <2>1, <2>2, <2>3 DEF EndStep
<1>12. ASSUME NEW e \in Ends, HandlePing(e) PROVE \A x \in Ends : OneToken(x)'
  <2> DEFINE p == Peer(e)
             m == Next1(e).frame.nonce
  <2>1. /\ Reads(e, "payload") /\ Consume(e) /\ mode[e] = "read" /\ Next1(e).part = "payload"
        /\ SameEnd(p) /\ p \in Ends /\ p # e /\ Peer(p) = e
    BY <1>12, ReadsExpected, StepIsLocal, PeerFacts DEF HandlePing, Reads, Ordered, EndStep
  <2>2. m \in {1, 2} /\ Next1(e).frame = Ping(m)
    <3>1. Next1(e).frame \in Frames
      BY <2>1, ReadFacts DEF Reads
    <3> QED
      BY <1>12, <3>1, FrameCases DEF HandlePing
  <2>3. /\ todo'[e] = <<Pong(m)>> /\ queue' = queue /\ written' = written
        /\ ping' = ping /\ state' = state
    BY <1>12 DEF HandlePing, Answer, sendVars, LinkTyped
  <2> HIDE DEF m
  <2>4. <<Pong(m)>> \in Seq(Frames) /\ Pong(m) \in Frames
    BY <2>2, FrameFacts
  <2>5. ASSUME NEW g \in Calls
        PROVE  /\ Out(e, g) \in Nat /\ Out(p, g) \in Nat /\ Out(p, g)' \in Nat
               /\ Out(e, g)' = Out(e, g) + (IF g = Pong(m) THEN 1 ELSE 0)
               /\ Out(p, g) = Out(p, g)' + (IF g = Ping(m) THEN 1 ELSE 0)
    <3>1. /\ Out(e, g) \in Nat /\ Out(p, g) \in Nat
          /\ Out(e, g)' = Out(e, g) + Hits(<<Pong(m)>>, {g})
          /\ Out(p, g) = Out(p, g)' + (IF "payload" = "payload" /\ Next1(e).frame = g THEN 1 ELSE 0)
      BY <2>1, <2>3, <2>4, OutHandled
    <3>2. Hits(<<Pong(m)>>, {g}) = IF g = Pong(m) THEN 1 ELSE 0
      BY <2>4, HitsSingle
    <3>3. Out(p, g)' \in Nat
      BY <2>1, OutSmaller
    <3> QED
      BY <2>2, <3>1, <3>2, <3>3
  <2> HIDE DEF p
  <2>6. ASSUME NEW n \in {1, 2} PROVE Tokens(e, n)' = Tokens(e, n) /\ Tokens(p, n)' = Tokens(p, n)
    <3>1. /\ Tokens(e, n) = Out(e, Ping(n)) + Out(p, Pong(n))
          /\ Tokens(p, n) = Out(p, Ping(n)) + Out(e, Pong(n))
          /\ Tokens(e, n)' = Out(e, Ping(n))' + Out(p, Pong(n))'
          /\ Tokens(p, n)' = Out(p, Ping(n))' + Out(e, Pong(n))'
      BY <2>1, TokensPrimed DEF Tokens, p
    <3>2. Ping(n) \in Calls /\ Pong(n) \in Calls
      BY CallFacts
    <3>3. /\ Ping(n) # Pong(m) /\ Pong(n) # Ping(m) /\ (Ping(n) = Ping(m) <=> n = m)
          /\ (Pong(n) = Pong(m) <=> n = m)
      BY <2>2, FrameFacts
    <3>4. /\ Out(e, Ping(n))' = Out(e, Ping(n)) /\ Out(p, Pong(n)) = Out(p, Pong(n))'
      BY <2>5, <3>2, <3>3
    <3>5. /\ Out(e, Pong(n))' = Out(e, Pong(n)) + (IF n = m THEN 1 ELSE 0)
          /\ Out(p, Ping(n)) = Out(p, Ping(n))' + (IF n = m THEN 1 ELSE 0)
          /\ Out(e, Pong(n)) \in Nat /\ Out(p, Ping(n))' \in Nat
      BY <2>5, <3>2, <3>3
    <3> QED
      BY <3>1, <3>4, <3>5
  <2>7. \A x \in Ends : \A n \in {1, 2} : Tokens(x, n)' = Tokens(x, n)
    BY <2>6, PeerFacts DEF p
  <2> QED
    BY <2>3, <2>7 DEF OneToken, Ordered
<1>13. ASSUME NEW e \in Ends, HandlePong(e) PROVE \A x \in Ends : OneToken(x)'
  <2> DEFINE p == Peer(e)
             m == Next1(e).frame.nonce
  <2>1. /\ Reads(e, "payload") /\ Consume(e) /\ mode[e] = "read"
        /\ SameEnd(p) /\ p \in Ends /\ p # e /\ Peer(p) = e /\ state[e] = "open"
    BY <1>13, StepIsLocal, PeerFacts DEF HandlePong, Reads, Runs, EndStep
  <2>2. m \in {1, 2} /\ Next1(e).frame = Pong(m) /\ m = ping[e]
    BY <1>13, <2>1, PongExpected DEF HandlePong
  <2>3. /\ todo'[e] = <<>> /\ queue' = queue /\ written' = written
        /\ ping'[e] = NoPing /\ state' = state
    <3>1. todo[e] = <<>>
      BY <2>1 DEF Ordered, OneSendOfTask
    <3> QED
      BY <1>13, <2>2, <3>1 DEF HandlePong, sendVars, LinkTyped
  <2> HIDE DEF m
  <2>5. ASSUME NEW g \in Calls
        PROVE  /\ Out(e, g) \in Nat /\ Out(p, g) \in Nat /\ Out(p, g)' \in Nat
               /\ Out(e, g)' = Out(e, g)
               /\ Out(p, g) = Out(p, g)' + (IF g = Pong(m) THEN 1 ELSE 0)
    <3>0. <<>> \in Seq(Frames)
      OBVIOUS
    <3>1. /\ Out(e, g) \in Nat /\ Out(p, g) \in Nat
          /\ Out(e, g)' = Out(e, g) + Hits(<<>>, {g})
          /\ Out(p, g) = Out(p, g)' + (IF "payload" = "payload" /\ Next1(e).frame = g THEN 1 ELSE 0)
      BY <2>1, <2>3, <3>0, OutHandled
    <3>2. Hits(<<>>, {g}) = 0
      BY HitsEmpty
    <3>3. Out(p, g)' \in Nat
      BY <2>1, OutSmaller
    <3> QED
      BY <2>2, <3>1, <3>2, <3>3
  <2> HIDE DEF p
  <2>6. ASSUME NEW n \in {1, 2}
        PROVE  /\ Tokens(e, n) = Tokens(e, n)' + (IF n = m THEN 1 ELSE 0)
               /\ Tokens(p, n)' = Tokens(p, n) /\ Tokens(e, n)' \in Nat
    <3>1. /\ Tokens(e, n) = Out(e, Ping(n)) + Out(p, Pong(n))
          /\ Tokens(p, n) = Out(p, Ping(n)) + Out(e, Pong(n))
          /\ Tokens(e, n)' = Out(e, Ping(n))' + Out(p, Pong(n))'
          /\ Tokens(p, n)' = Out(p, Ping(n))' + Out(e, Pong(n))'
      BY <2>1, TokensPrimed DEF Tokens, p
    <3>2. Ping(n) \in Calls /\ Pong(n) \in Calls
      BY CallFacts
    <3>3. Ping(n) # Pong(m) /\ (Pong(n) = Pong(m) <=> n = m)
      BY <2>2, FrameFacts
    <3>4. /\ Out(e, Ping(n))' = Out(e, Ping(n)) /\ Out(e, Pong(n))' = Out(e, Pong(n))
          /\ Out(p, Ping(n)) = Out(p, Ping(n))' + 0 /\ Out(p, Ping(n))' \in Nat
          /\ Out(e, Ping(n)) \in Nat
      BY <2>5, <3>2, <3>3
    <3>5. /\ Out(p, Pong(n)) = Out(p, Pong(n))' + (IF n = m THEN 1 ELSE 0)
          /\ Out(p, Pong(n))' \in Nat
      BY <2>5, <3>2, <3>3
    <3> QED
      BY <3>1, <3>4, <3>5
  <2>7. OneToken(e)'
    <3>1. \A n \in {1, 2} : /\ n # m => Tokens(e, n) = 0
                            /\ n = m => Tokens(e, n) <= 1
      BY <2>1, <2>2 DEF OneToken, Ordered
    <3>2. \A n \in {1, 2} : Tokens(e, n)' = 0
      BY <2>6, <3>1
    <3> QED
      BY <2>3, <3>2 DEF OneToken, NoPing
  <2>8. OneToken(p)'
    <3>1. ping'[p] = ping[p] /\ OneToken(p)
      BY <2>1 DEF SameEnd, Ordered
    <3> QED
      BY <2>3, <2>6, <3>1 DEF OneToken
  <2> QED
    BY <2>7, <2>8, PeerFacts DEF p
<1>14. ASSUME NEW e \in Ends, HandleGetBlocks(e) PROVE \A x \in Ends : OneToken(x)'
  <2> DEFINE s == [i \in 1..ResponseBlocks |-> Data]
  <2>1. /\ Reads(e, "payload") /\ Consume(e) /\ todo'[e] = s /\ queue' = queue
        /\ written' = written /\ ping' = ping /\ state' = state
    BY <1>14 DEF HandleGetBlocks, Answer, sendVars, LinkTyped
  <2>2. s \in Seq(Frames) /\ \A i \in DOMAIN s : s[i] \notin Calls
    BY ResponseIsSeq, CallFacts
  <2>3. Next1(e).frame \notin Calls
    BY <1>14, FrameFacts DEF HandleGetBlocks, Calls
  <2> HIDE DEF s
  <2> QED
    BY <1>10, <1>14, <2>1, <2>2, <2>3 DEF EndStep
<1>15. ASSUME NEW e \in Ends, HandleData(e) PROVE \A x \in Ends : OneToken(x)'
  <2>1. /\ Reads(e, "payload") /\ Consume(e) /\ queue' = queue
        /\ written' = written /\ ping' = ping /\ state' = state
        /\ todo'[e] = todo[e] \/ todo'[e] = <<GetBlocks>>
    BY <1>15 DEF HandleData, Answer, sendVars, LinkTyped
  <2>2. todo[e] = <<>> /\ <<>> \in Seq(Frames) /\ DOMAIN <<>> = {}
    BY <2>1 DEF Ordered, OneSendOfTask, Reads
  <2>3. <<GetBlocks>> \in Seq(Frames) /\ \A i \in DOMAIN <<GetBlocks>> : <<GetBlocks>>[i] \notin Calls
    BY ResponseIsSeq, CallFacts
  <2>4. Next1(e).frame \notin Calls
    BY <1>15, FrameFacts DEF HandleData, Calls
  <2>5. CASE todo'[e] = todo[e]
    BY <1>10, <1>15, <2>1, <2>2, <2>4, <2>5 DEF EndStep
  <2>6. CASE todo'[e] = <<GetBlocks>>
    BY <1>10, <1>15, <2>1, <2>3, <2>4, <2>6 DEF EndStep
  <2> QED
    BY <2>1, <2>5, <2>6
<1>16. ASSUME NEW e \in Ends, SendPing(e) PROVE \A x \in Ends : OneToken(x)'
  <2> DEFINE p == Peer(e)
             m == IF lastNonce[e] = 1 THEN 2 ELSE 1
  <2>1. /\ mode[e] = "read" /\ state[e] = "open" /\ ping[e] = NoPing /\ pipe' = pipe
        /\ state' = state /\ queue' = queue /\ written' = written
        /\ ping'[e] = m /\ todo'[e] = <<Ping(m)>> /\ m \in {1, 2}
        /\ SameEnd(p) /\ p \in Ends /\ p # e /\ Peer(p) = e /\ OneSendOfTask(e) /\ OneSendOfTask(p)
    <3>1. SameEnd(p) /\ p \in Ends /\ p # e /\ Peer(p) = e
      BY <1>16, StepIsLocal, PeerFacts DEF EndStep
    <3> QED
      BY <1>16, <3>1 DEF SendPing, Quiet, Runs, sendVars, LinkTyped, Ordered
  <2> HIDE DEF p, m
  <2>2. <<Ping(m)>> \in Seq(Frames) /\ Ping(m) \in Frames
    BY <2>1, FrameFacts
  <2>3. ASSUME NEW g \in Calls
        PROVE  /\ Out(e, g) \in Nat /\ Out(p, g) \in Nat /\ Out(p, g)' = Out(p, g)
               /\ Out(e, g)' = Out(e, g) + (IF g = Ping(m) THEN 1 ELSE 0)
    <3>1. Out(e, g)' = Out(e, g) + Hits(<<Ping(m)>>, {g})
      BY <2>1, <2>2, OutAnswer
    <3>2. Hits(<<Ping(m)>>, {g}) = IF g = Ping(m) THEN 1 ELSE 0
      BY <2>2, HitsSingle
    <3>3. Out(p, g)' = Out(p, g) /\ Out(e, g) \in Nat /\ Out(p, g) \in Nat
      BY <2>1, OutSame, OutType
    <3> QED
      BY <3>1, <3>2, <3>3
  <2>4. ASSUME NEW n \in {1, 2}
        PROVE  /\ Tokens(e, n)' = Tokens(e, n) + (IF n = m THEN 1 ELSE 0)
               /\ Tokens(p, n)' = Tokens(p, n) /\ Tokens(e, n) \in Nat
    <3>1. /\ Tokens(e, n) = Out(e, Ping(n)) + Out(p, Pong(n))
          /\ Tokens(p, n) = Out(p, Ping(n)) + Out(e, Pong(n))
          /\ Tokens(e, n)' = Out(e, Ping(n))' + Out(p, Pong(n))'
          /\ Tokens(p, n)' = Out(p, Ping(n))' + Out(e, Pong(n))'
      BY <2>1, TokensPrimed DEF Tokens, p
    <3>2. Ping(n) \in Calls /\ Pong(n) \in Calls
      BY CallFacts
    <3>3. Pong(n) # Ping(m) /\ (Ping(n) = Ping(m) <=> n = m)
      BY <2>1, FrameFacts
    <3>4. /\ Out(e, Ping(n))' = Out(e, Ping(n)) + (IF n = m THEN 1 ELSE 0)
          /\ Out(e, Ping(n)) \in Nat /\ Out(p, Pong(n)) \in Nat /\ Out(p, Pong(n))' = Out(p, Pong(n))
      BY <2>3, <3>2, <3>3
    <3>5. /\ Out(e, Pong(n))' = Out(e, Pong(n)) + 0 /\ Out(e, Pong(n)) \in Nat
          /\ Out(p, Ping(n))' = Out(p, Ping(n)) /\ Out(p, Ping(n)) \in Nat
      BY <2>3, <3>2, <3>3
    <3> QED
      BY <3>1, <3>4, <3>5
  <2>5. OneToken(e)'
    <3>1. \A n \in {1, 2} : Tokens(e, n) = 0
      BY <2>1 DEF OneToken, Ordered, NoPing
    <3>2. \A n \in {1, 2} : Tokens(e, n)' = IF n = m THEN 1 ELSE 0
      BY <2>4, <3>1
    <3> QED
      BY <2>1, <3>2 DEF OneToken
  <2>6. OneToken(p)'
    <3>1. ping'[p] = ping[p] /\ OneToken(p)
      BY <2>1 DEF SameEnd, Ordered
    <3> QED
      BY <2>1, <2>4, <3>1 DEF OneToken
  <2> QED
    BY <2>5, <2>6, PeerFacts DEF p
<1>17. ASSUME Tick PROVE \A x \in Ends : OneToken(x)'
  <2>1. \A x \in Ends : \A g \in Calls : Out(x, g)' = Out(x, g)
    BY <1>17, OutTick DEF Ordered
  <2> QED
    BY <1>17, <2>1, TokensKept DEF Tick
<1>18. CASE UNCHANGED vars
  <2>1. \A x \in Ends : SameEnd(x) /\ pipe'[x] = pipe[x]
    BY <1>18 DEF vars, taskVars, sendVars, SameEnd
  <2>2. ping' = ping /\ state' = state
    BY <1>18 DEF vars, taskVars
  <2> QED
    BY <2>1, <2>2, OutSame, TokensKept
<1>19. ASSUME NEW e \in Ends, EndStep(e) PROVE \A x \in Ends : OneToken(x)'
  BY <1>3, <1>5, <1>6, <1>7, <1>8, <1>11, <1>12, <1>13, <1>14, <1>15, <1>16, <1>19 DEF EndStep
<1>20. CASE \E e \in Ends : EndStep(e) \/ Relay(e) \/ Freeze(e)
  BY <1>4, <1>9, <1>19, <1>20
<1> QED
  BY <1>17, <1>18, <1>20 DEF Next

-----------------------------------------------------------------------------
(* An end that waits for a PONG: while nothing has come to it since, its PING is
   on its way for as long as it has waited, or has only just been read; when
   something has come, that was within a delay. *)
AnsweredInTime(e) ==
  (state[e] = "open" /\ mode[e] = "read" /\ ping[e] # NoPing /\ Peer(e) \notin frozen) =>
    /\ pipe[Peer(e)] # <<>> => idle[e] <= MaxDelay + pipe[Peer(e)][1].age
    /\ pipe[Peer(e)] = <<>> => idle[e] <= MaxDelay
    /\ (pipe[Peer(e)] = <<>> /\ state[Peer(e)] = "open") =>
         \A i \in DOMAIN pipe[e] :
           (pipe[e][i].part = "payload" /\ pipe[e][i].frame.type = "PING")
             => idle[e] <= pipe[e][i].age

LEMMA StepRuns ==
  ASSUME NEW e \in Ends, EndStep(e) \/ Relay(e) \/ Freeze(e)
  PROVE  Runs(e)
BY DEF EndStep, Relay, Freeze, TaskSends, TaskReadsOn, Write, Drained, SendTimeout, ReadPrefix,
   HandlePing, HandlePong, HandleGetBlocks, HandleData, SendPing, PingUnanswered, PeerGone, Reads,
   Quiet

LEMMA FrozenGrows ==
  ASSUME NEW e \in Ends, EndStep(e) \/ Relay(e) \/ Freeze(e)
  PROVE  frozen \subseteq frozen'
BY DEF EndStep, Relay, Freeze, TaskSends, TaskReadsOn, Write, Drained, SendTimeout, ReadPrefix,
   HandlePing, HandlePong, HandleGetBlocks, HandleData, SendPing, PingUnanswered, PeerGone

LEMMA FreshIsInTime ==
  ASSUME LinkTyped', NEW x \in Ends, idle'[x] = 0
  PROVE  AnsweredInTime(x)'
<1>1. \A y \in Ends : \A i \in DOMAIN pipe'[y] : pipe'[y][i] \in Pieces
  BY DEF LinkTyped
<1>2. \A y \in Ends : \A i \in DOMAIN pipe'[y] : pipe'[y][i].age \in Nat
  BY <1>1, AgeFacts, ConstantFacts
<1>3. pipe'[Peer(x)] # <<>> => 1 \in DOMAIN pipe'[Peer(x)]
  BY PeerFacts, TailFacts DEF LinkTyped
<1>4. pipe'[Peer(x)] # <<>> => 0 <= MaxDelay + pipe'[Peer(x)][1].age
  BY <1>2, <1>3, PeerFacts, ConstantFacts
<1>5. \A i \in DOMAIN pipe'[x] : 0 <= pipe'[x][i].age
  BY <1>2
<1> QED
  BY <1>4, <1>5, ConstantFacts DEF AnsweredInTime

LEMMA SameIsInTime ==
  ASSUME NEW x \in Ends, AnsweredInTime(x), SameEnd(x), pipe' = pipe,
         frozen \subseteq frozen', state'[Peer(x)] = "open" => state[Peer(x)] = "open"
  PROVE  AnsweredInTime(x)'
BY DEF AnsweredInTime, SameEnd

LEMMA NextInTime ==
  ASSUME LinkTyped, LinkTyped', Ordered, \A e \in Ends : AnsweredInTime(e), [Next]_vars
  PROVE  \A e \in Ends : AnsweredInTime(e)'
(* The peer of the end that takes the step. *)
<1>1. ASSUME NEW e \in Ends, EndStep(e) \/ Relay(e) \/ Freeze(e) PROVE AnsweredInTime(Peer(e))'
  <2> DEFINE x == Peer(e)
  <2>1. /\ x \in Ends /\ x # e /\ Peer(x) = e /\ SameEnd(x) /\ AnsweredInTime(x)
        /\ state[e] = "open" /\ frozen \subseteq frozen'
    BY <1>1, StepIsLocal, StepRuns, FrozenGrows, PeerFacts DEF Runs
  <2> SUFFICES AnsweredInTime(x)'
    BY DEF x
  <2> HIDE DEF x
  <2>2. CASE pipe' = pipe
    BY <2>1, <2>2, SameIsInTime
  <2>3. CASE Write(e)
    <3> DEFINE f == Head(queue[e]).frame
    <3>1. pipe'[e] = pipe[e] \o NewPieces(f) /\ f \in Frames /\ pipe[e] \in Seq(Pieces) /\ pipe'[x] = pipe[x]
      BY <2>1, <2>3, WriteFacts
    <3> HIDE DEF f
    <3>2. /\ pipe'[e] # <<>> /\ Len(pipe[e]) \in Nat
          /\ \A i \in 1..Len(pipe[e]) : pipe'[e][i] = pipe[e][i]
          /\ pipe'[e][Len(pipe[e]) + 1].age = 0
      BY <3>1, NewPiecesFacts
    <3>3. IF pipe[e] = <<>> THEN pipe'[e][1].age = 0 ELSE pipe'[e][1] = pipe[e][1]
      <4>1. pipe[e] = <<>> => Len(pipe[e]) + 1 = 1
        BY <3>1
      <4>2. pipe[e] # <<>> => 1 \in 1..Len(pipe[e])
        BY <3>1, TailFacts
      <4> QED
        BY <3>2, <4>1, <4>2
    <3> QED
      BY <2>1, <3>2, <3>3, ConstantFacts DEF AnsweredInTime, SameEnd
  <2>4. CASE pipe[x] # <<>> /\ Consume(e)
    <3>1. pipe'[e] = pipe[e] /\ pipe'[x] = Tail(pipe[x]) /\ pipe[x] \in Seq(Pieces)
      BY <2>1, <2>4, ReadFacts DEF x
    <3>2. \A i \in DOMAIN pipe'[x] : i + 1 \in DOMAIN pipe[x] /\ pipe'[x][i] = pipe[x][i + 1]
      BY <2>4, <3>1, TailFacts
    <3> QED
      BY <2>1, <3>1, <3>2 DEF AnsweredInTime, SameEnd
  <2>5. \/ pipe' = pipe
        \/ Write(e)
        \/ Runs(e) /\ mode[e] = "read" /\ pipe[Peer(e)] # <<>> /\ Consume(e)
    BY <1>1, PipeChanges
  <2> QED
    BY <2>2, <2>3, <2>4, <2>5 DEF x
(* The end itself. *)
<1>2. ASSUME NEW e \in Ends, NEW why \in Reasons \ {"open"}, Close(e, why) PROVE AnsweredInTime(e)'
  BY <1>2, CloseIsLocal DEF AnsweredInTime
<1>3. ASSUME NEW e \in Ends, NEW f, NEW by, StartSend(e, f, by), pipe' = pipe, frozen' = frozen
      PROVE  AnsweredInTime(e)'
  <2>1. CASE Len(queue[e]) >= MaxPendingSends
    BY <1>2, <1>3, <2>1 DEF StartSend, Reasons
  <2>2. CASE ~(Len(queue[e]) >= MaxPendingSends)
    <3>1. UNCHANGED <<state, mode, idle, ping, pipe, frozen>>
      BY <1>3, <2>2 DEF StartSend, taskVars
    <3> QED
      BY <3>1 DEF AnsweredInTime
  <2> QED
    BY <2>1, <2>2
<1>4. ASSUME NEW e \in Ends, EndStep(e) \/ Relay(e) \/ Freeze(e) PROVE AnsweredInTime(e)'
  <2>1. CASE TaskSends(e)
    BY <1>3, <2>1 DEF TaskSends
  <2>2. CASE TaskReadsOn(e)
    <3>1. idle'[e] = 0
      BY <2>2 DEF TaskReadsOn, LinkTyped
    <3> QED
      BY <3>1, FreshIsInTime
  <2>3. CASE Write(e)
    <3> DEFINE f == Head(queue[e]).frame
    <3>1. /\ pipe'[e] = pipe[e] \o NewPieces(f) /\ f \in Frames /\ pipe[e] \in Seq(Pieces)
          /\ pipe'[Peer(e)] = pipe[Peer(e)]
          /\ UNCHANGED <<state, mode, idle, ping, frozen>>
          /\ queue[e] \in Seq(Sends) /\ queue[e] # <<>>
      BY <2>3, WriteFacts, PeerFacts DEF Write, taskVars, LinkTyped
    <3>2. mode[e] = "read" => f = Data
      <4> SUFFICES ASSUME mode[e] = "read" PROVE f = Data
        OBVIOUS
      <4>1. 1 \in DOMAIN queue[e] /\ Head(queue[e]) = queue[e][1] /\ queue[e][1] \in Sends
        BY <3>1, TailFacts
      <4>2. queue[e][1].by \in {"task", "relay"}
        BY <4>1, AgeFacts
      <4> QED
        BY <4>1, <4>2 DEF OneSendOfTask, Sending, Ordered
    <3> HIDE DEF f
    <3>3. /\ Len(pipe[e]) \in Nat /\ DOMAIN pipe'[e] = 1..(Len(pipe[e]) + 2)
          /\ DOMAIN pipe[e] = 1..Len(pipe[e])
          /\ \A i \in 1..Len(pipe[e]) : pipe'[e][i] = pipe[e][i]
          /\ pipe'[e][Len(pipe[e]) + 1].frame = f /\ pipe'[e][Len(pipe[e]) + 2].frame = f
      BY <3>1, NewPiecesFacts
    <3>4. \A i \in DOMAIN pipe'[e] :
            \/ i \in DOMAIN pipe[e] /\ pipe'[e][i] = pipe[e][i]
            \/ pipe'[e][i].frame = f
      BY <3>3
    <3>5. Data.type # "PING"
      BY FrameFacts
    <3> QED
      BY <3>1, <3>2, <3>4, <3>5 DEF AnsweredInTime
  <2>4. CASE Drained(e)
    BY <2>4 DEF Drained, AnsweredInTime
  <2>5. CASE SendTimeout(e) \/ PingUnanswered(e) \/ PeerGone(e)
    BY <1>2, <2>5 DEF SendTimeout, PingUnanswered, PeerGone, Reasons
  <2>6. CASE ReadPrefix(e)
    <3>1. idle'[e] = 0
      BY <2>6, CloseIsLocal DEF ReadPrefix, LinkTyped, Reasons
    <3> QED
      BY <3>1, FreshIsInTime
  <2>7. CASE HandlePong(e)
    <3>1. idle'[e] = 0
      <4>1. CASE Next1(e).frame.nonce = ping[e]
        <5>1. idle' = [idle EXCEPT ![e] = 0] /\ DOMAIN idle = Ends
          BY <2>7, <4>1 DEF HandlePong, LinkTyped
        <5> QED
          BY <5>1
      <4>2. CASE Next1(e).frame.nonce # ping[e]
        <5>1. Close(e, "protocol") /\ "protocol" \in Reasons
          BY <2>7, <4>2 DEF HandlePong, Reasons
        <5> QED
          BY <5>1, CloseIsLocal
      <4> QED
        BY <4>1, <4>2
    <3> QED
      BY <3>1, FreshIsInTime
  <2>8. CASE HandlePing(e) \/ HandleGetBlocks(e) \/ HandleData(e)
    <3>1. idle'[e] = 0
      BY <2>8 DEF HandlePing, HandleGetBlocks, HandleData, LinkTyped
    <3> QED
      BY <3>1, FreshIsInTime
  <2>9. CASE SendPing(e)
    <3>1. idle'[e] = 0
      BY <2>9 DEF SendPing, LinkTyped
    <3> QED
      BY <3>1, FreshIsInTime
  <2>10. CASE Relay(e)
    BY <1>3, <2>10 DEF Relay
  <2>11. CASE Freeze(e)
    <3>1. UNCHANGED <<state, mode, idle, ping, pipe>> /\ frozen \subseteq frozen'
      BY <2>11 DEF Freeze, taskVars
    <3> QED
      BY <3>1 DEF AnsweredInTime
  <2> QED
    BY <1>4, <2>1, <2>2, <2>3, <2>4, <2>5, <2>6, <2>7, <2>8, <2>9, <2>10, <2>11 DEF EndStep
<1>5. ASSUME Tick, NEW x \in Ends PROVE AnsweredInTime(x)'
  <2> DEFINE p == Peer(x)
  <2>1. /\ p \in Ends /\ p # x /\ Peer(p) = x /\ AnsweredInTime(x)
        /\ OneSendOfTask(x) /\ OneSendOfTask(p) /\ OldestFirst(x) /\ OneToken(x)
    BY PeerFacts DEF Ordered
  <2>2. UNCHANGED <<state, mode, ping, frozen>>
    BY <1>5 DEF Tick
  <2> HIDE DEF p
  <2> SUFFICES ASSUME state[x] = "open", mode[x] = "read", ping[x] # NoPing, p \notin frozen
               PROVE  /\ pipe'[p] # <<>> => idle'[x] <= MaxDelay + pipe'[p][1].age
                      /\ pipe'[p] = <<>> => idle'[x] <= MaxDelay
                      /\ (pipe'[p] = <<>> /\ state'[p] = "open") =>
                           \A i \in DOMAIN pipe'[x] :
                             (pipe'[x][i].part = "payload" /\ pipe'[x][i].frame.type = "PING")
                               => idle'[x] <= pipe'[x][i].age
    BY <2>2 DEF AnsweredInTime, p
  <2>3. \A y \in Ends :
          /\ pipe[y] \in Seq(Pieces) /\ DOMAIN pipe'[y] = DOMAIN pipe[y]
          /\ (pipe'[y] = <<>>) <=> (pipe[y] = <<>>)
          /\ \A i \in DOMAIN pipe[y] :
               /\ pipe[y][i] \in Pieces
               /\ pipe'[y][i].part = pipe[y][i].part /\ pipe'[y][i].frame = pipe[y][i].frame
               /\ pipe'[y][i].age = IF pipe[y][i].age < MaxDelay THEN pipe[y][i].age + 1
                                    ELSE pipe[y][i].age
    BY <1>5, TickFacts
  <2>4. \A y \in Ends : \A i \in DOMAIN pipe[y] : pipe[y][i].age \in 0..MaxDelay /\ pipe[y][i].frame \in Frames
    BY <2>3, AgeFacts
  <2>5. \A y \in Ends : pipe[y] # <<>> => 1 \in DOMAIN pipe[y]
    BY <2>3, TailFacts
  <2>6. idle[x] \in Nat /\ idle'[x] \in Nat
        /\ idle'[x] = IF x \in frozen THEN idle[x] ELSE idle[x] + 1
    BY <1>5, ConstantFacts DEF Tick, Runs, LinkTyped
  <2>7. /\ pipe[p] # <<>> => idle[x] <= MaxDelay + pipe[p][1].age
        /\ pipe[p] = <<>> => idle[x] <= MaxDelay
        /\ (pipe[p] = <<>> /\ state[p] = "open") =>
              \A i \in DOMAIN pipe[x] :
                (pipe[x][i].part = "payload" /\ pipe[x][i].frame.type = "PING")
                  => idle[x] <= pipe[x][i].age
    BY <2>1 DEF AnsweredInTime, p
  <2>8. CASE x \in frozen
    <3>1. idle'[x] = idle[x]
      BY <2>6, <2>8
    <3>2. \A y \in Ends : \A i \in DOMAIN pipe[y] : pipe'[y][i].age \in Nat /\ pipe'[y][i].age >= pipe[y][i].age
      BY <2>3, <2>4, ConstantFacts
    <3>3. pipe'[p] # <<>> => idle'[x] <= MaxDelay + pipe'[p][1].age
      <4> SUFFICES ASSUME pipe'[p] # <<>> PROVE idle'[x] <= MaxDelay + pipe'[p][1].age
        OBVIOUS
      <4>1. pipe[p] # <<>> /\ 1 \in DOMAIN pipe[p]
        BY <2>1, <2>3, <2>5
      <4>2. pipe'[p][1].age \in Nat /\ pipe'[p][1].age >= pipe[p][1].age /\ pipe[p][1].age \in Nat
        BY <2>1, <2>4, <3>2, <4>1, ConstantFacts
      <4> QED
        BY <2>6, <2>7, <3>1, <4>1, <4>2, ConstantFacts
    <3>4. pipe'[p] = <<>> => idle'[x] <= MaxDelay
      BY <2>1, <2>3, <2>7, <3>1
    <3>5. ASSUME pipe'[p] = <<>>, state'[p] = "open", NEW i \in DOMAIN pipe'[x],
                 pipe'[x][i].part = "payload", pipe'[x][i].frame.type = "PING"
          PROVE  idle'[x] <= pipe'[x][i].age
      <4>1. pipe[p] = <<>> /\ state[p] = "open" /\ i \in DOMAIN pipe[x]
            /\ pipe[x][i].part = "payload" /\ pipe[x][i].frame.type = "PING"
        BY <2>1, <2>2, <2>3, <3>5
      <4>2. idle[x] <= pipe[x][i].age /\ pipe[x][i].age \in Nat
        BY <2>4, <2>7, <4>1, ConstantFacts
      <4>3. pipe'[x][i].age \in Nat /\ pipe'[x][i].age >= pipe[x][i].age
        BY <3>2, <4>1
      <4> QED
        BY <2>6, <3>1, <4>2, <4>3
    <3> QED
      BY <3>3, <3>4, <3>5
  <2>9. CASE x \notin frozen
    <3>1. Runs(x) /\ ~Urgent(x) /\ idle'[x] = idle[x] + 1
      BY <1>5, <2>6, <2>9 DEF Tick, Runs
    <3>2. CASE pipe[p] # <<>>
      <4>1. pipe[p][1].age < MaxDelay
        <5>1. ~(Next1(x).age >= MaxDelay) /\ Next1(x) = pipe[p][1]
          BY <2>1, <2>3, <3>1, <3>2, TailFacts DEF Urgent, Next1, p
        <5>2. pipe[p][1].age \in Nat
          BY <2>1, <2>4, <2>5, <3>2, ConstantFacts
        <5> QED
          BY <5>1, <5>2, ConstantFacts
      <4>2. pipe'[p][1].age = pipe[p][1].age + 1 /\ pipe[p][1].age \in Nat
        BY <2>1, <2>3, <2>4, <2>5, <3>2, <4>1, ConstantFacts
      <4>3. pipe'[p] # <<>>
        BY <2>1, <2>3, <3>2
      <4> QED
        BY <2>6, <2>7, <3>1, <3>2, <4>2, <4>3, ConstantFacts
    <3>3. CASE pipe[p] = <<>>
      (* The peer runs and has nothing to do: what it has not answered is on its way. *)
      <4>1. state[p] = "open"
        BY <3>1 DEF Urgent, p
      <4>2. Runs(p) /\ ~Urgent(p)
        BY <1>5, <2>1, <4>1 DEF Tick, Runs
      <4>3. written[p] = FALSE
        <5>1. Len(pipe[p]) <= HighWater
          BY <3>3, ConstantFacts
        <5>2. written[p] \in BOOLEAN
          BY <2>1 DEF LinkTyped
        <5> QED
          BY <4>2, <5>1, <5>2 DEF Urgent
      <4>4. queue[p] = <<>>
        BY <4>2, <4>3 DEF Urgent
      <4>5. ~Sending(p)
        BY <4>4 DEF Sending
      <4>6. mode[p] = "read" /\ todo[p] = <<>>
        BY <2>1, <4>2, <4>5 DEF Urgent, LinkTyped, OneSendOfTask
      <4>7. \A g : Out(p, g) = 0
        <5>1. Unsent(p) = <<>> /\ Unwritten(p) = <<>>
          BY <4>3, <4>4, <4>5, <4>6 DEF Unsent, Unwritten
        <5>2. \A g : Hits(<<>>, {g}) = 0 /\ Hits(<<>>, SendsOf(g)) = 0 /\ Hits(<<>>, PayloadsOf(g)) = 0
          BY HitsEmpty
        <5> QED
          BY <3>3, <5>1, <5>2 DEF Out
      <4> DEFINE n == ping[x]
      <4>8. n \in {1, 2} /\ Tokens(x, n) = 1
        BY <2>1, <4>1 DEF LinkTyped, OneToken, p
      <4>9. Out(x, Ping(n)) = 1
        <5>1. Out(x, Ping(n)) \in Nat /\ Out(p, Pong(n)) = 0
          BY <2>1, <4>7, OutType
        <5> QED
          BY <4>8, <5>1 DEF Tokens, p
      <4> HIDE DEF n
      <4>10. Hits(pipe[x], PayloadsOf(Ping(n))) = 1
        <5>1. Unsent(x) = <<>> /\ ~Sending(x)
          BY <2>1 DEF OneSendOfTask, Unsent
        <5>2. \A i \in DOMAIN queue[x] : queue[x][i].frame # Ping(n)
          <6> SUFFICES ASSUME NEW i \in DOMAIN queue[x] PROVE queue[x][i].frame # Ping(n)
            OBVIOUS
          <6>1. queue[x][i] \in Sends
            BY DEF LinkTyped
          <6>2. queue[x][i].by = "relay"
            BY <5>1, <6>1, AgeFacts DEF Sending
          <6> QED
            BY <2>1, <4>8, <6>2, FrameFacts DEF OneSendOfTask
        <5>3. \A i \in DOMAIN Unwritten(x) : Unwritten(x)[i].frame # Ping(n)
          <6>1. CASE ~written[x]
            BY <5>2, <6>1 DEF Unwritten
          <6>2. CASE written[x]
            <7>1. queue[x] \in Seq(Sends) /\ queue[x] # <<>> /\ Unwritten(x) = Tail(queue[x])
              BY <2>1, <6>2 DEF LinkTyped, OneSendOfTask, Unwritten
            <7>2. \A i \in DOMAIN Tail(queue[x]) :
                    i + 1 \in DOMAIN queue[x] /\ Tail(queue[x])[i] = queue[x][i + 1]
              BY <7>1, TailFacts
            <7> QED
              BY <5>2, <7>1, <7>2
          <6> QED
            BY <6>1, <6>2
        <5>4. Hits(Unwritten(x), SendsOf(Ping(n))) = 0 /\ Hits(Unsent(x), {Ping(n)}) = 0
          <6>1. \A i \in DOMAIN Unwritten(x) : Unwritten(x)[i] \notin SendsOf(Ping(n))
            BY <5>3 DEF SendsOf
          <6> QED
            BY <5>1, <6>1, HitsNone, HitsEmpty
        <5>5. Hits(pipe[x], PayloadsOf(Ping(n))) \in Nat
          BY <2>1, OutType
        <5> QED
          BY <4>9, <5>4, <5>5 DEF Out
      <4>11. PICK k \in DOMAIN pipe[x] : pipe[x][k] \in PayloadsOf(Ping(n))
        BY <2>3, <4>10, HitsSome
      <4>12. pipe[x][k].part = "payload" /\ pipe[x][k].frame.type = "PING"
        BY <4>8, <4>11, FrameFacts DEF PayloadsOf
      <4>13. idle[x] <= pipe[x][k].age
        BY <2>7, <3>3, <4>1, <4>12
      (* Whatever is on its way to the peer has not come yet. *)
      <4>14. \A i \in DOMAIN pipe[x] : pipe[x][i].age < MaxDelay
        <5>1. pipe[x] # <<>> /\ 1 \in DOMAIN pipe[x] /\ \A i \in DOMAIN pipe[x] : i = 1 \/ 1 < i
          BY <2>3, <4>11, TailFacts
        <5>2. pipe[x][1].age < MaxDelay
          <6>1. Next1(p) = pipe[x][1] /\ ~(Next1(p).age >= MaxDelay)
            BY <2>1, <2>3, <4>2, <4>6, <5>1, TailFacts DEF Urgent, Next1
          <6> QED
            BY <2>4, <5>1, <6>1, ConstantFacts
        <5>3. \A i \in DOMAIN pipe[x] : i = 1 \/ pipe[x][1].age >= pipe[x][i].age
          BY <2>1, <5>1 DEF OldestFirst
        <5> QED
          BY <2>4, <5>1, <5>2, <5>3, ConstantFacts
      <4>15. idle'[x] <= MaxDelay
        <5>1. pipe[x][k].age \in Nat /\ pipe[x][k].age < MaxDelay
          BY <2>4, <4>11, <4>14, ConstantFacts
        <5> QED
          BY <2>6, <3>1, <4>13, <5>1, ConstantFacts
      <4>16. ASSUME NEW i \in DOMAIN pipe'[x],
                    pipe'[x][i].part = "payload", pipe'[x][i].frame.type = "PING"
             PROVE  idle'[x] <= pipe'[x][i].age
        <5>1. /\ i \in DOMAIN pipe[x] /\ pipe[x][i].part = "payload" /\ pipe[x][i].frame.type = "PING"
              /\ pipe'[x][i].age = pipe[x][i].age + 1 /\ pipe[x][i].age \in Nat
          BY <2>3, <2>4, <4>14, <4>16, ConstantFacts
        <5>2. idle[x] <= pipe[x][i].age
          BY <2>7, <3>3, <4>1, <5>1
        <5> QED
          BY <2>6, <3>1, <5>1, <5>2
      <4> QED
        BY <2>1, <2>3, <3>3, <4>15, <4>16
    <3> QED
      BY <3>2, <3>3
  <2> QED
    BY <2>8, <2>9
<1>6. CASE UNCHANGED vars
  BY <1>6 DEF vars, taskVars, AnsweredInTime
<1>7. ASSUME NEW e \in Ends, EndStep(e) \/ Relay(e) \/ Freeze(e) PROVE \A x \in Ends : AnsweredInTime(x)'
  BY <1>1, <1>4, <1>7, PeerFacts
<1> QED
  BY <1>5, <1>6, <1>7 DEF Next

-----------------------------------------------------------------------------
(* No end has closed for a broken stream, nor for the silence of a running peer. *)
NoneGivenUp(e) == state[e] # "protocol" /\ (state[e] = "ping" => Peer(e) \in frozen)

LinkIInv ==
  LinkTyped /\ Ordered /\ \A e \in Ends : AnsweredInTime(e) /\ NoneGivenUp(e)

LEMMA NextGivenUp ==
  ASSUME LineIsFast, LinkIInv, [Next]_vars
  PROVE  \A e \in Ends : NoneGivenUp(e)'
<1> USE DEF LinkIInv
<1>1. ASSUME NEW x \in Ends, state'[x] = state[x], frozen \subseteq frozen' PROVE NoneGivenUp(x)'
  BY <1>1 DEF NoneGivenUp
<1>2. ASSUME NEW e \in Ends, NEW why \in Reasons \ {"protocol", "ping"}, Close(e, why)
      PROVE  NoneGivenUp(e)'
  BY <1>2, CloseIsLocal DEF NoneGivenUp
<1>3. ASSUME NEW e \in Ends, NEW f, NEW by, StartSend(e, f, by), frozen' = frozen PROVE NoneGivenUp(e)'
  <2>1. CASE Len(queue[e]) >= MaxPendingSends
    BY <1>2, <1>3, <2>1 DEF StartSend, Reasons
  <2>2. CASE ~(Len(queue[e]) >= MaxPendingSends)
    BY <1>1, <1>3, <2>2 DEF StartSend
  <2> QED
    BY <2>1, <2>2
<1>4. ASSUME NEW e \in Ends, EndStep(e) \/ Relay(e) \/ Freeze(e) PROVE NoneGivenUp(e)'
  <2>1. frozen \subseteq frozen'
    BY <1>4, FrozenGrows
  <2>2. CASE TaskSends(e)
    BY <1>3, <2>2 DEF TaskSends
  <2>3. CASE TaskReadsOn(e) \/ Write(e) \/ Drained(e) \/ Freeze(e)
    BY <1>1, <2>1, <2>3 DEF TaskReadsOn, Write, Drained, Freeze
  <2>4. CASE SendTimeout(e)
    BY <1>2, <2>4 DEF SendTimeout, Reasons
  <2>5. CASE PeerGone(e)
    BY <1>2, <2>5 DEF PeerGone, Reasons
  <2>6. CASE ReadPrefix(e)
    <3>1. Next1(e).part = "prefix"
      BY <2>6, ReadsExpected DEF ReadPrefix, Ordered
    <3> QED
      BY <1>1, <2>1, <2>6, <3>1 DEF ReadPrefix
  <2>7. CASE HandlePong(e)
    <3>1. Next1(e).frame.nonce = ping[e]
      BY <2>7, PongExpected DEF HandlePong
    <3> QED
      BY <1>1, <2>1, <2>7, <3>1 DEF HandlePong
  <2>8. CASE HandlePing(e) \/ HandleGetBlocks(e) \/ HandleData(e)
    BY <1>1, <2>1, <2>8 DEF HandlePing, HandleGetBlocks, HandleData, Answer
  <2>9. CASE SendPing(e)
    BY <1>1, <2>1, <2>9 DEF SendPing
  <2>10. CASE PingUnanswered(e)
    <3>1. state'[e] = "ping" /\ frozen' = frozen
      BY <2>10, CloseIsLocal DEF PingUnanswered, Reasons
    <3>2. Peer(e) \in frozen
      <4> SUFFICES ASSUME Peer(e) \notin frozen PROVE FALSE
        OBVIOUS
      <4>1. idle[e] >= IdleTimeout /\ state[e] = "open" /\ mode[e] = "read" /\ ping[e] # NoPing
        BY <2>10 DEF PingUnanswered, Quiet, Runs
      <4>2. /\ pipe[Peer(e)] # <<>> => idle[e] <= MaxDelay + pipe[Peer(e)][1].age
            /\ pipe[Peer(e)] = <<>> => idle[e] <= MaxDelay
        BY <4>1 DEF AnsweredInTime
      <4>3. pipe[Peer(e)] # <<>> => pipe[Peer(e)][1] \in Pieces
        BY PeerFacts, TailFacts DEF LinkTyped
      <4>4. pipe[Peer(e)] # <<>> => pipe[Peer(e)][1].age \in 0..MaxDelay
        BY <4>3, AgeFacts
      <4>5. idle[e] \in Nat
        BY ConstantFacts DEF LinkTyped
      <4> QED
        BY <4>1, <4>2, <4>4, <4>5, ConstantFacts DEF LineIsFast
    <3> QED
      BY <3>1, <3>2 DEF NoneGivenUp
  <2>11. CASE Relay(e)
    BY <1>3, <2>11 DEF Relay
  <2> QED
    BY <1>4, <2>2, <2>3, <2>4, <2>5, <2>6, <2>7, <2>8, <2>9, <2>10, <2>11 DEF EndStep
<1>5. ASSUME NEW e \in Ends, EndStep(e) \/ Relay(e) \/ Freeze(e) PROVE NoneGivenUp(Peer(e))'
  <2>1. Peer(e) \in Ends /\ SameEnd(Peer(e)) /\ frozen \subseteq frozen'
    BY <1>5, StepIsLocal, FrozenGrows, PeerFacts
  <2> QED
    BY <1>1, <2>1 DEF SameEnd
<1>6. ASSUME Tick \/ UNCHANGED vars, NEW x \in Ends PROVE NoneGivenUp(x)'
  BY <1>1, <1>6 DEF Tick, vars
<1>7. ASSUME NEW e \in Ends, EndStep(e) \/ Relay(e) \/ Freeze(e) PROVE \A x \in Ends : NoneGivenUp(x)'
  BY <1>4, <1>5, <1>7, PeerFacts
<1> QED
  BY <1>6, <1>7 DEF Next

LEMMA InitLinkIInv == Init => LinkIInv
<1> SUFFICES ASSUME Init PROVE LinkIInv
  OBVIOUS
<1>1. \A e \in Ends : AnsweredInTime(e) /\ NoneGivenUp(e)
  BY DEF Init, AnsweredInTime, NoneGivenUp
<1> QED
  BY <1>1, InitTyped, InitOneSend, InitAligned, InitOneToken DEF LinkIInv, Ordered

LEMMA NextLinkIInv == LineIsFast /\ LinkIInv /\ [Next]_vars => LinkIInv'
<1> SUFFICES ASSUME LineIsFast, LinkIInv, [Next]_vars PROVE LinkIInv'
  OBVIOUS
<1>1. LinkTyped /\ Ordered /\ \A e \in Ends : AnsweredInTime(e) /\ NoneGivenUp(e)
  BY DEF LinkIInv
<1>2. /\ \A e \in Ends : OneSendOfTask(e)
      /\ \A e \in Ends : OldestFirst(e)
      /\ \A e \in Ends : OneSendOfTask(e) /\ Aligned(e)
      /\ \A e \in Ends : AnsweredInTime(e)
  BY <1>1 DEF Ordered
<1>3. LinkTyped'
  BY <1>1, <1>2, NextTyped
<1>4. \A e \in Ends : OneSendOfTask(e)'
  BY <1>1, <1>2, NextOneSend
<1>5. \A e \in Ends : OldestFirst(e)'
  BY <1>1, <1>2, NextOldest
<1>6. \A e \in Ends : Aligned(e)'
  BY <1>1, <1>2, <1>3, NextAligned
<1>7. \A e \in Ends : OneToken(e)'
  BY <1>1, <1>3, <1>4, NextOneToken
<1>8. \A e \in Ends : AnsweredInTime(e)'
  BY <1>1, <1>2, <1>3, NextInTime
<1>9. \A e \in Ends : NoneGivenUp(e)'
  BY NextGivenUp
<1> QED
  BY <1>3, <1>4, <1>5, <1>6, <1>7, <1>8, <1>9 DEF LinkIInv, Ordered

(* On a line that brings a frame there and its answer back before the idle
   timeout, the inductive invariant of a connection: whole frames in order, one
   message per keepalive call, and a wait that the pieces on their way explain. *)
THEOREM LinkInvariance == LineIsFast /\ Spec => []LinkIInv
<1>1. CASE LineIsFast
  <2>1. LinkIInv /\ [Next]_vars => LinkIInv'
    BY <1>1, NextLinkIInv
  <2>2. Init => LinkIInv
    BY InitLinkIInv
  <2> QED
    BY <2>1, <2>2, PTL DEF Spec
<1> QED
  BY <1>1

(* A connection keeps its bounds on a line of any speed: no more sends wait than
   max_pending_sends_per_peer, none longer than the write timeout, and no read
   longer than the idle timeout. *)
THEOREM LinkTypeCorrect == Spec => []TypeOK
<1> DEFINE Bounds == LinkTyped /\ \A e \in Ends : OneSendOfTask(e)
<1>1. Init => Bounds
  BY InitTyped, InitOneSend
<1>2. Bounds /\ [Next]_vars => Bounds'
  BY NextTyped, NextOneSend
<1>3. Bounds => TypeOK
  <2> SUFFICES ASSUME Bounds PROVE TypeOK
    OBVIOUS
  <2>1. LinkTyped
    OBVIOUS
  <2>2. ASSUME NEW e \in Ends
        PROVE  /\ todo[e] \in Seq(Frames) /\ Len(queue[e]) <= MaxPendingSends
               /\ \A i \in DOMAIN queue[e] : queue[e][i] \in Sends
               /\ \A i \in DOMAIN pipe[e] : pipe[e][i] \in Pieces
    BY <2>1 DEF LinkTyped
  <2> HIDE DEF Bounds
  <2> QED
    BY <2>1, <2>2, AgeFacts DEF LinkTyped, TypeOK, Reasons
<1> HIDE DEF Bounds
<1> QED
  BY <1>1, <1>2, <1>3, PTL DEF Spec

(* On such a line a running peer is never given up as dead, nor charged for a
   broken stream, whatever either end sends and however long its answers wait
   in the queue: for all timeouts, queue bounds, buffer sizes and responses. *)
THEOREM LivePeerKeptTheorem == LineIsFast /\ Spec => []LivePeerKept
<1>1. LinkIInv => LivePeerKept
  BY DEF LinkIInv, NoneGivenUp, LivePeerKept
<1> QED
  BY <1>1, LinkInvariance, PTL

-----------------------------------------------------------------------------
(***************************************************************************)
(* The decoders, for all bytes and every value that the encoder takes:     *)
(* what they accept is what the encoder writes, and what it writes they    *)
(* read.  Both follow from an invariant of a decoder at work: what it has  *)
(* read, written again, and what remains are the bytes it was given; and   *)
(* what remains of a value's bytes is the encoding of what has not been    *)
(* read.                                                                   *)
(***************************************************************************)
(* A set of natural numbers that is not empty has a least element. *)
LEMMA NatMin ==
  ASSUME NEW T \in SUBSET Nat, T # {}
  PROVE  \E x \in T : \A y \in T : x <= y
<1>1. \E R : IsWellFoundedOn(R, Nat) /\ \A x, y \in Nat : x < y => <<x, y>> \in R
  <2>1. IsWellFoundedOn(OpToRel(<, Nat), Nat)
    BY NatLessThanWellFounded, Zenon
  <2>2. \A x, y \in Nat : x < y => <<x, y>> \in OpToRel(<, Nat)
    BY Zenon DEF OpToRel
  <2> QED
    BY <2>1, <2>2, Zenon
<1>2. PICK R : IsWellFoundedOn(R, Nat) /\ \A x, y \in Nat : x < y => <<x, y>> \in R
  BY <1>1
<1>3. \E x \in T : \A y \in T : ~(<<y, x>> \in R)
  <2>1. IsWellFoundedOn(R, Nat)
    BY <1>2
  <2>2. T \subseteq Nat /\ T # {}
    OBVIOUS
  <2> QED
    BY <2>1, <2>2, WFMin
<1>4. PICK x \in T : \A y \in T : ~(<<y, x>> \in R)
  BY <1>3
<1>5. \A y \in T : ~(y < x)
  BY <1>2, <1>4
<1>6. \A y \in T : x <= y
  BY <1>5
<1> QED
  BY <1>6

(* Induction: a set that contains 0, and n + 1 with n, contains every natural
   number. *)
LEMMA Induction ==
  ASSUME NEW H, 0 \in H, \A n \in Nat : n \in H => n + 1 \in H
  PROVE  Nat \subseteq H
<1> SUFFICES ASSUME Nat \ H # {} PROVE FALSE
  OBVIOUS
<1>1. PICK n \in Nat \ H : \A m \in Nat \ H : n <= m
  BY NatMin
<1>2. n # 0 /\ n - 1 \in Nat
  BY <1>1
<1>3. n - 1 \in H
  BY <1>1, <1>2
<1> QED
  BY <1>1, <1>2, <1>3

LEMMA Upward ==
  ASSUME NEW n \in Nat, NEW H, 0 \in H, \A k \in 0..n : k \in H /\ k + 1 <= n => k + 1 \in H
  PROVE  0..n \subseteq H
<1> DEFINE G == {k \in Nat : k <= n => k \in H}
<1>1. 0 \in G
  OBVIOUS
<1>2. \A k \in Nat : k \in G => k + 1 \in G
  OBVIOUS
<1> HIDE DEF G
<1>3. Nat \subseteq G
  BY <1>1, <1>2, Induction
<1> QED
  BY <1>3 DEF G

(* What is computed step after step exists. *)
Steps(D, base, n, F) == base \in D /\ n \in Nat /\ F \in [D \X (1..n) -> D]
Iteration(D, base, n, F, g) ==
  g \in [0..n -> D] /\ g[0] = base /\ \A i \in 1..n : g[i] = F[<<g[i - 1], i>>]

LEMMA Iterates ==
  ASSUME NEW D, NEW base, NEW n, NEW F, Steps(D, base, n, F)
  PROVE  \E g : Iteration(D, base, n, F, g)
<1> USE DEF Steps
<1> DEFINE Begins(g, k) == g[0] = base /\ \A i \in 1..k : g[i] = F[<<g[i - 1], i>>]
           H == {k \in 0..n : \E g \in [0..k -> D] : Begins(g, k)}
<1>1. 0 \in H
  <2>1. [i \in 0..0 |-> base] \in [0..0 -> D] /\ Begins([i \in 0..0 |-> base], 0)
    OBVIOUS
  <2>2. 0 \in 0..n
    OBVIOUS
  <2> HIDE DEF Begins
  <2> QED
    BY <2>1, <2>2
<1>2. ASSUME NEW k \in 0..n, k \in H, k + 1 <= n PROVE k + 1 \in H
  <2>1. PICK g \in [0..k -> D] : Begins(g, k)
    BY <1>2
  <2> DEFINE h == [i \in 0..(k + 1) |-> IF i <= k THEN g[i] ELSE F[<<g[k], k + 1>>]]
  <2>2. g[k] \in D /\ k + 1 \in 1..n
    BY <1>2
  <2>3. <<g[k], k + 1>> \in D \X (1..n)
    BY <2>2
  <2>4. F[<<g[k], k + 1>>] \in D
    BY <2>3
  <2>5. h \in [0..(k + 1) -> D]
    BY <2>4
  <2>6. h[0] = g[0] /\ h[k + 1] = F[<<h[k], k + 1>>] /\ \A i \in 0..k : h[i] = g[i]
    <3>1. \A i \in 0..k : h[i] = g[i]
      OBVIOUS
    <3>2. h[k + 1] = F[<<g[k], k + 1>>]
      OBVIOUS
    <3>3. h[k] = g[k] /\ h[0] = g[0]
      BY <3>1
    <3> HIDE DEF h
    <3> QED
      BY <3>1, <3>2, <3>3
  <2> HIDE DEF h
  <2>7. ASSUME NEW i \in 1..(k + 1) PROVE h[i] = F[<<h[i - 1], i>>]
    <3>1. CASE i = k + 1
      <4>1. i - 1 = k
        BY <3>1
      <4> QED
        BY <2>6, <3>1, <4>1
    <3>2. CASE i # k + 1
      <4>1. i \in 1..k /\ i \in 0..k /\ i - 1 \in 0..k
        BY <3>2
      <4>2. g[i] = F[<<g[i - 1], i>>]
        BY <2>1, <4>1
      <4>3. h[i] = g[i] /\ h[i - 1] = g[i - 1]
        BY <2>6, <4>1
      <4> QED
        BY <4>2, <4>3
    <3> QED
      BY <3>1, <3>2
  <2>8. Begins(h, k + 1)
    BY <2>1, <2>6, <2>7
  <2> HIDE DEF Begins
  <2> QED
    BY <1>2, <2>5, <2>8
<1>3. 0..n \subseteq H
  <2> HIDE DEF H
  <2> QED
    BY <1>1, <1>2, Upward
<1>4. n \in H
  <2> HIDE DEF H
  <2> QED
    BY <1>3
<1> HIDE DEF Begins
<1>5. \E g \in [0..n -> D] : Begins(g, n)
  BY <1>4
<1> QED
  BY <1>5 DEF Begins, Iteration
-----------------------------------------------------------------------------
(* Unsigned integers: what int.from_bytes and int.to_bytes compute on the way. *)
LEMMA ByteFacts == Base \in Nat /\ Base > 3 /\ Byte \subseteq Nat /\ \A x2 \in Byte : x2 < Base
BY CodecAssumption DEF CodecAssumption, Byte

LEMMA DecodeSteps ==
  ASSUME NEW n \in Nat, NEW s \in Seq(Byte), Len(s) = n
  PROVE  \E d \in [0..n -> Nat] :
           /\ d[0] = 0 /\ d[n] = DecodeUint(s)
           /\ \A i \in 1..n : d[i] = d[i - 1] * Base + s[i]
<1> DEFINE F == [y \in Nat \X (1..n) |-> y[1] * Base + s[y[2]]]
           Body(g, i) == IF i = 0 THEN 0 ELSE g[i - 1] * Base + s[i]
<1>1. \A i \in 1..n : s[i] \in Nat
  <2>1. \A i \in 1..n : s[i] \in Byte
    OBVIOUS
  <2> QED
    BY <2>1, ByteFacts
<1>2. F \in [Nat \X (1..n) -> Nat]
  <2>1. \A x \in Nat, i \in 1..n : x * Base + s[i] \in Nat
    BY <1>1, ByteFacts
  <2> QED
    BY <2>1
<1>3. \A x \in Nat, i \in 1..n : F[<<x, i>>] = x * Base + s[i]
  OBVIOUS
<1> HIDE DEF F
<1>4. PICK d \in [0..n -> Nat] : d[0] = 0 /\ \A i \in 1..n : d[i] = F[<<d[i - 1], i>>]
  <2>1. \E d : Iteration(Nat, 0, n, F, d)
    BY <1>2, Iterates DEF Steps
  <2> QED
    BY <2>1 DEF Iteration
<1>5. \A i \in 1..n : d[i] = d[i - 1] * Base + s[i]
  <2> SUFFICES ASSUME NEW i \in 1..n PROVE d[i] = d[i - 1] * Base + s[i]
    OBVIOUS
  <2>1. d[i - 1] \in Nat
    OBVIOUS
  <2> QED
    BY <1>3, <1>4, <2>1
<1>6. d = [i \in 0..n |-> Body(d, i)]
  <2>1. \A i \in 0..n : d[i] = Body(d, i)
    BY <1>4, <1>5
  <2> HIDE DEF Body
  <2> QED
    BY <2>1
<1>7. PICK c : c = [i \in 0..n |-> Body(c, i)] /\ DecodeUint(s) = c[n]
  <2>1. \E c : c = [i \in 0..Len(s) |-> Body(c, i)]
    BY <1>6
  <2>2. \E c : c = [i \in 0..Len(s) |-> Body(c, i)] /\ DecodeUint(s) = c[Len(s)]
    BY <2>1, Zenon DEF DecodeUint
  <2> QED
    BY <2>2
<1>8. \A i \in 0..n : c[i] = Body(c, i)
  <2> HIDE DEF Body
  <2> QED
    BY <1>7
<1>9. 0..n \subseteq {i \in 0..n : c[i] = d[i]}
  <2> DEFINE H == {i \in 0..n : c[i] = d[i]}
  <2>1. 0 \in H
    BY <1>4, <1>8
  <2>2. ASSUME NEW k \in 0..n, k \in H, k + 1 <= n PROVE k + 1 \in H
    <3>1. k + 1 \in 1..n /\ (k + 1) - 1 = k /\ k + 1 # 0 /\ k + 1 \in 0..n
      BY <2>2
    <3>2. c[k + 1] = c[k] * Base + s[k + 1]
      BY <1>8, <3>1
    <3>3. d[k + 1] = d[k] * Base + s[k + 1]
      BY <1>5, <3>1
    <3> QED
      BY <2>2, <3>1, <3>2, <3>3
  <2> HIDE DEF H
  <2>3. 0..n \subseteq H
    BY <2>1, <2>2, Upward
  <2> QED
    BY <2>3 DEF H
<1>10. d[n] = DecodeUint(s)
  BY <1>7, <1>9
<1> QED
  BY <1>4, <1>5, <1>10

(* What to_bytes does to a number, one byte after the other from the right. *)
LEMMA EncodeSteps ==
  ASSUME NEW n \in Nat, NEW e \in [0..n -> Nat], NEW v, e[0] = v,
         \A k \in 1..n : e[k] = e[k - 1] \div Base
  PROVE  EncodeUint(v, n) = [i \in 1..n |-> e[n - i] % Base]
<1> DEFINE Body(g, k) == IF k = 0 THEN v ELSE g[k - 1] \div Base
           Digits(g) == [i \in 1..n |-> g[n - i] % Base]
<1>1. e = [k \in 0..n |-> Body(e, k)]
  <2>1. \A k \in 0..n : e[k] = Body(e, k)
    OBVIOUS
  <2> HIDE DEF Body
  <2> QED
    BY <2>1
<1>2. PICK c : c = [k \in 0..n |-> Body(c, k)] /\ EncodeUint(v, n) = Digits(c)
  <2>1. \E c : c = [k \in 0..n |-> Body(c, k)]
    BY <1>1
  <2> QED
    BY <2>1, Zenon DEF EncodeUint
<1>3. \A k \in 0..n : c[k] = Body(c, k)
  <2> HIDE DEF Body
  <2> QED
    BY <1>2
<1>4. 0..n \subseteq {k \in 0..n : c[k] = e[k]}
  <2> DEFINE H == {k \in 0..n : c[k] = e[k]}
  <2>1. 0 \in H
    BY <1>3
  <2>2. ASSUME NEW k \in 0..n, k \in H, k + 1 <= n PROVE k + 1 \in H
    <3>1. k + 1 \in 1..n /\ (k + 1) - 1 = k /\ k + 1 # 0 /\ k + 1 \in 0..n
      BY <2>2
    <3>2. c[k + 1] = c[k] \div Base
      BY <1>3, <3>1
    <3>3. e[k + 1] = e[k] \div Base
      BY <3>1
    <3> QED
      BY <2>2, <3>1, <3>2, <3>3
  <2> HIDE DEF H
  <2>3. 0..n \subseteq H
    BY <2>1, <2>2, Upward
  <2> QED
    BY <2>3 DEF H
<1>5. \A i \in 1..n : c[n - i] = e[n - i]
  BY <1>4
<1>6. Digits(c) = [i \in 1..n |-> e[n - i] % Base]
  BY <1>5
<1> QED
  BY <1>2, <1>6

LEMMA LastDigit ==
  ASSUME NEW q \in Nat, NEW x2 \in Byte
  PROVE  (q * Base + x2) \div Base = q /\ (q * Base + x2) % Base = x2
BY ByteFacts

(* Bytes that are read as a number are the bytes the number is written as. *)
LEMMA NumbersAreCanonical ==
  ASSUME NEW s \in Seq(Byte)
  PROVE  /\ DecodeUint(s) \in Nat
         /\ EncodeUint(DecodeUint(s), Len(s)) = s
<1> DEFINE n == Len(s)
<1>1. n \in Nat /\ \A i \in 1..n : s[i] \in Byte
  OBVIOUS
<1>2. PICK d \in [0..n -> Nat] :
        /\ d[0] = 0 /\ d[n] = DecodeUint(s)
        /\ \A i \in 1..n : d[i] = d[i - 1] * Base + s[i]
  BY <1>1, DecodeSteps
<1> DEFINE e == [k \in 0..n |-> d[n - k]]
<1>3. e \in [0..n -> Nat] /\ e[0] = DecodeUint(s) /\ DecodeUint(s) \in Nat
  <2>1. \A k \in 0..n : n - k \in 0..n
    BY <1>1
  <2>2. e \in [0..n -> Nat]
    BY <2>1
  <2>3. 0 \in 0..n /\ n - 0 = n
    BY <1>1
  <2> HIDE DEF n
  <2>4. e[0] = d[n - 0]
    BY <2>3
  <2> QED
    BY <1>2, <2>2, <2>3, <2>4
<1>4. ASSUME NEW k \in 1..n PROVE e[k] = e[k - 1] \div Base
  <2>1. n - k + 1 \in 1..n /\ (n - k + 1) - 1 = n - k /\ n - (k - 1) = n - k + 1 /\ k \in 0..n /\ k - 1 \in 0..n
    BY <1>1
  <2>2. d[n - k + 1] = d[n - k] * Base + s[n - k + 1]
    BY <1>2, <2>1
  <2>3. e[k] = d[n - k] /\ e[k - 1] = d[n - k + 1]
    BY <2>1
  <2>4. d[n - k] \in Nat /\ s[n - k + 1] \in Byte
    BY <1>1, <2>1
  <2> HIDE DEF e, n
  <2> QED
    BY <2>2, <2>3, <2>4, LastDigit
<1>5. ASSUME NEW i \in 1..n PROVE e[n - i] % Base = s[i]
  <2>1. n - i \in 0..n /\ n - (n - i) = i /\ i - 1 \in 0..n
    BY <1>1
  <2>2. e[n - i] = d[i]
    BY <2>1
  <2>3. d[i] = d[i - 1] * Base + s[i] /\ d[i - 1] \in Nat /\ s[i] \in Byte
    BY <1>1, <1>2, <2>1
  <2> HIDE DEF e, n
  <2> QED
    BY <2>2, <2>3, LastDigit
<1>6. s = [i \in 1..n |-> s[i]]
  OBVIOUS
<1> HIDE DEF e, n
<1>7. EncodeUint(DecodeUint(s), n) = [i \in 1..n |-> e[n - i] % Base]
  BY <1>1, <1>3, <1>4, EncodeSteps
<1> QED
  BY <1>3, <1>5, <1>6, <1>7 DEF n

-----------------------------------------------------------------------------
LEMMA CatFacts ==
  /\ \A x1, x2 \in Seq(Byte) : x1 \o x2 \in Seq(Byte) /\ Len(x1 \o x2) = Len(x1) + Len(x2)
  /\ \A x1, x2, c \in Seq(Byte) : (x1 \o x2) \o c = x1 \o (x2 \o c)
  /\ \A x1 \in Seq(Byte) : x1 \o <<>> = x1 /\ <<>> \o x1 = x1
  /\ <<>> \in Seq(Byte)
<1>1. \A x1, x2 \in Seq(Byte) : x1 \o x2 \in Seq(Byte) /\ Len(x1 \o x2) = Len(x1) + Len(x2)
  OBVIOUS
<1>2. ASSUME NEW x1 \in Seq(Byte), NEW x2 \in Seq(Byte), NEW c \in Seq(Byte)
      PROVE  (x1 \o x2) \o c = x1 \o (x2 \o c)
  OBVIOUS
<1>3. ASSUME NEW x1 \in Seq(Byte) PROVE x1 \o <<>> = x1 /\ <<>> \o x1 = x1
  OBVIOUS
<1> QED
  BY <1>1, <1>2, <1>3

LEMMA CatTyped ==
  ASSUME NEW x1 \in Seq(Byte), NEW x2 \in Seq(Byte)
  PROVE  x1 \o x2 \in Seq(Byte) /\ Len(x1 \o x2) = Len(x1) + Len(x2) /\ Len(x1) \in Nat /\ Len(x2) \in Nat
OBVIOUS

LEMMA CatAssoc ==
  ASSUME NEW x1 \in Seq(Byte), NEW x2 \in Seq(Byte), NEW c \in Seq(Byte)
  PROVE  (x1 \o x2) \o c = x1 \o (x2 \o c)
BY CatFacts

LEMMA SameEntries ==
  ASSUME NEW T, NEW s \in Seq(T), NEW t \in Seq(T), Len(s) = Len(t),
         \A i \in 1..Len(t) : s[i] = t[i]
  PROVE  s = t
OBVIOUS

(* Bytes split, and put together again. *)
SplitsAt(T, s, n) ==
  /\ SubSeq(s, 1, n) \in Seq(T) /\ Len(SubSeq(s, 1, n)) = n
  /\ SubSeq(s, n + 1, Len(s)) \in Seq(T) /\ Len(SubSeq(s, n + 1, Len(s))) = Len(s) - n
  /\ s = SubSeq(s, 1, n) \o SubSeq(s, n + 1, Len(s))

LEMMA SplitFacts ==
  ASSUME NEW T, NEW s \in Seq(T), NEW n \in 0..Len(s)
  PROVE  SplitsAt(T, s, n)
<1>1. SubSeq(s, 1, n) \in Seq(T) /\ Len(SubSeq(s, 1, n)) = n
  OBVIOUS
<1>2. SubSeq(s, n + 1, Len(s)) \in Seq(T) /\ Len(SubSeq(s, n + 1, Len(s))) = Len(s) - n
  OBVIOUS
<1> DEFINE x1 == SubSeq(s, 1, n)
           x2 == SubSeq(s, n + 1, Len(s))
<1>3. s = x1 \o x2
  <2>1. \A i \in 1..n : x1[i] = s[i]
    OBVIOUS
  <2>2. \A i \in 1..(Len(s) - n) : x2[i] = s[n + i]
    OBVIOUS
  <2> HIDE DEF x1, x2
  <2>3. x1 \in Seq(T) /\ Len(x1) = n /\ x2 \in Seq(T) /\ Len(x2) = Len(s) - n
    BY <1>1, <1>2 DEF x1, x2
  <2>4. x1 \o x2 \in Seq(T) /\ Len(x1 \o x2) = Len(s)
    BY <2>3
  <2>5. \A i \in 1..Len(s) : (x1 \o x2)[i] = s[i]
    <3> SUFFICES ASSUME NEW i \in 1..Len(s) PROVE (x1 \o x2)[i] = s[i]
      OBVIOUS
    <3> n \in Nat /\ Len(s) \in Nat /\ i \in Nat
      OBVIOUS
    <3>1. CASE i <= n
      BY <2>1, <2>3, <3>1
    <3>2. CASE ~(i <= n)
      <4>1. i - n \in 1..(Len(s) - n) /\ n + (i - n) = i
        BY <3>2
      <4>2. (x1 \o x2)[i] = x2[i - n]
        BY <2>3, <3>2
      <4> QED
        BY <2>2, <4>1, <4>2
    <3> QED
      BY <3>1, <3>2
  <2> QED
    BY <2>4, <2>5, SameEntries
<1> QED
  BY <1>1, <1>2, <1>3 DEF SplitsAt

LEMMA UnCat ==
  ASSUME NEW T, NEW x1 \in Seq(T), NEW x2 \in Seq(T)
  PROVE  /\ SubSeq(x1 \o x2, 1, Len(x1)) = x1
         /\ SubSeq(x1 \o x2, Len(x1) + 1, Len(x1 \o x2)) = x2
<1>1. SubSeq(x1 \o x2, 1, Len(x1)) = x1
  OBVIOUS
<1>2. SubSeq(x1 \o x2, Len(x1) + 1, Len(x1 \o x2)) = x2
  OBVIOUS
<1> QED
  BY <1>1, <1>2

-----------------------------------------------------------------------------
(* Pieces of bytes, and what join makes of them on the way. *)
BytePieces(n, p) == n \in Nat /\ \A i \in 1..n : p[i] \in Seq(Byte)
Joining(n, p, g) ==
  g \in [0..n -> Seq(Byte)] /\ g[0] = <<>> /\ \A i \in 1..n : g[i] = g[i - 1] \o p[i]

LEMMA JoiningAgree ==
  ASSUME NEW n \in Nat, NEW p, NEW g, Joining(n, p, g),
         NEW m \in Nat, NEW q, NEW h, Joining(m, q, h),
         NEW k \in Nat, k <= n, k <= m, \A i \in 1..k : p[i] = q[i]
  PROVE  g[k] = h[k]
<1> DEFINE H == {i \in 0..k : g[i] = h[i]}
<1>1. 0 \in H
  BY DEF Joining
<1>2. ASSUME NEW i \in 0..k, i \in H, i + 1 <= k PROVE i + 1 \in H
  <2>1. i + 1 \in 1..n /\ i + 1 \in 1..m /\ i + 1 \in 1..k /\ (i + 1) - 1 = i /\ i + 1 \in 0..k
    BY <1>2
  <2>2. g[i + 1] = g[i] \o p[i + 1] /\ h[i + 1] = h[i] \o q[i + 1]
    BY <2>1 DEF Joining
  <2> QED
    BY <1>2, <2>1, <2>2
<1>3. 0..k \subseteq H
  <2> HIDE DEF H
  <2> QED
    BY <1>1, <1>2, Upward
<1> QED
  BY <1>3

LEMMA JoinSteps ==
  ASSUME NEW n, NEW p, BytePieces(n, p)
  PROVE  \E g : Joining(n, p, g) /\ Join(n, p) = g[n]
<1> DEFINE F == [y \in Seq(Byte) \X (1..n) |-> y[1] \o p[y[2]]]
           Body(g, i) == IF i = 0 THEN <<>> ELSE g[i - 1] \o p[i]
<1>1. n \in Nat /\ \A i \in 1..n : p[i] \in Seq(Byte)
  BY DEF BytePieces
<1>2. F \in [Seq(Byte) \X (1..n) -> Seq(Byte)]
  <2>1. \A x \in Seq(Byte), i \in 1..n : x \o p[i] \in Seq(Byte)
    BY <1>1, CatFacts
  <2> QED
    BY <2>1
<1>3. \A x \in Seq(Byte), i \in 1..n : F[<<x, i>>] = x \o p[i]
  OBVIOUS
<1> HIDE DEF F
<1>4. PICK d : Iteration(Seq(Byte), <<>>, n, F, d)
  <2>1. Steps(Seq(Byte), <<>>, n, F)
    BY <1>1, <1>2, CatFacts DEF Steps
  <2> QED
    BY <2>1, Iterates
<1>5. d \in [0..n -> Seq(Byte)] /\ d[0] = <<>> /\ \A i \in 1..n : d[i] = F[<<d[i - 1], i>>]
  BY <1>4 DEF Iteration
<1>6. \A i \in 1..n : d[i] = d[i - 1] \o p[i]
  <2> SUFFICES ASSUME NEW i \in 1..n PROVE d[i] = d[i - 1] \o p[i]
    OBVIOUS
  <2>1. d[i - 1] \in Seq(Byte)
    BY <1>1, <1>5
  <2> QED
    BY <1>3, <1>5, <2>1
<1>7. d = [i \in 0..n |-> Body(d, i)]
  <2>1. \A i \in 0..n : d[i] = Body(d, i)
    <3>1. \A i \in 0..n : i = 0 \/ i \in 1..n
      BY <1>1
    <3> QED
      BY <1>5, <1>6, <3>1
  <2> HIDE DEF Body
  <2> QED
    BY <1>5, <2>1
<1>8. PICK c : c = [i \in 0..n |-> Body(c, i)] /\ Join(n, p) = c[n]
  <2>1. \E c : c = [i \in 0..n |-> Body(c, i)]
    BY <1>7
  <2> QED
    BY <2>1, Zenon DEF Join
<1>9. \A i \in 0..n : c[i] = Body(c, i)
  <2> HIDE DEF Body
  <2> QED
    BY <1>8
<1>10. 0..n \subseteq {i \in 0..n : c[i] = d[i]}
  <2> DEFINE H == {i \in 0..n : c[i] = d[i]}
  <2>1. 0 \in H
    BY <1>1, <1>5, <1>9
  <2>2. ASSUME NEW k \in 0..n, k \in H, k + 1 <= n PROVE k + 1 \in H
    <3>1. k + 1 \in 1..n /\ (k + 1) - 1 = k /\ k + 1 # 0 /\ k + 1 \in 0..n
      BY <1>1, <2>2
    <3>2. c[k + 1] = c[k] \o p[k + 1]
      BY <1>9, <3>1
    <3>3. d[k + 1] = d[k] \o p[k + 1]
      BY <1>6, <3>1
    <3> QED
      BY <2>2, <3>1, <3>2, <3>3
  <2> HIDE DEF H
  <2>3. 0..n \subseteq H
    BY <1>1, <2>1, <2>2, Upward
  <2> QED
    BY <2>3 DEF H
<1>11. d[n] = Join(n, p)
  BY <1>1, <1>8, <1>10
<1> QED
  BY <1>5, <1>6, <1>11 DEF Joining

LEMMA JoinFacts ==
  ASSUME NEW n, NEW p, BytePieces(n, p)
  PROVE  /\ Join(n, p) \in Seq(Byte)
         /\ n = 0 => Join(n, p) = <<>>
         /\ \A q : BytePieces(n, q) /\ (\A i \in 1..n : p[i] = q[i]) => Join(n, q) = Join(n, p)
<1>1. PICK g : Joining(n, p, g) /\ Join(n, p) = g[n]
  BY JoinSteps
<1>2. n \in Nat
  BY DEF BytePieces
<1>3. Join(n, p) \in Seq(Byte) /\ (n = 0 => Join(n, p) = <<>>)
  BY <1>1, <1>2 DEF Joining
<1>4. ASSUME NEW q, BytePieces(n, q), \A i \in 1..n : p[i] = q[i] PROVE Join(n, q) = Join(n, p)
  <2>1. PICK h : Joining(n, q, h) /\ Join(n, q) = h[n]
    BY <1>4, JoinSteps
  <2> QED
    BY <1>1, <1>2, <1>4, <2>1, JoiningAgree
<1> QED
  BY <1>3, <1>4

LEMMA JoinMore ==
  ASSUME NEW n \in Nat, NEW p, BytePieces(n + 1, p)
  PROVE  /\ BytePieces(n, p) /\ p[n + 1] \in Seq(Byte)
         /\ Join(n + 1, p) = Join(n, p) \o p[n + 1]
<1>1. BytePieces(n, p) /\ p[n + 1] \in Seq(Byte)
  BY DEF BytePieces
<1>2. PICK g : Joining(n, p, g) /\ Join(n, p) = g[n]
  BY <1>1, JoinSteps
<1>3. PICK h : Joining(n + 1, p, h) /\ Join(n + 1, p) = h[n + 1]
  BY JoinSteps
<1>4. n + 1 \in Nat /\ n + 1 \in 1..(n + 1) /\ (n + 1) - 1 = n /\ n <= n + 1 /\ n <= n
  OBVIOUS
<1>5. g[n] = h[n]
  BY <1>2, <1>3, <1>4, JoiningAgree
<1>6. h[n + 1] = h[n] \o p[n + 1]
  BY <1>3, <1>4 DEF Joining
<1> QED
  BY <1>1, <1>2, <1>3, <1>5, <1>6

(* From the left. *)
LEMMA JoinFirst ==
  ASSUME NEW n \in Nat, NEW p, BytePieces(n + 1, p), NEW q, \A i \in 1..n : q[i] = p[i + 1]
  PROVE  /\ BytePieces(n, q) /\ p[1] \in Seq(Byte)
         /\ Join(n + 1, p) = p[1] \o Join(n, q)
<1> DEFINE Good(k) == Join(k + 1, p) = p[1] \o Join(k, q)
           H == {k \in 0..n : Good(k)}
<1>1. \A i \in 1..(n + 1) : p[i] \in Seq(Byte)
  BY DEF BytePieces
<1>2. ASSUME NEW k \in 0..n PROVE BytePieces(k + 1, p) /\ BytePieces(k, q)
  <2>1. \A i \in 1..(k + 1) : p[i] \in Seq(Byte)
    BY <1>1
  <2>2. \A i \in 1..k : i \in 1..n /\ i + 1 \in 1..(n + 1)
    OBVIOUS
  <2>3. \A i \in 1..k : q[i] \in Seq(Byte)
    BY <1>1, <2>2
  <2> QED
    BY <2>1, <2>3 DEF BytePieces
<1>3. p[1] \in Seq(Byte)
  BY <1>1
<1>4. 0 \in H
  <2>1. BytePieces(0, p) /\ BytePieces(0 + 1, p) /\ BytePieces(0, q)
    <3>1. 0 \in 0..n
      OBVIOUS
    <3> QED
      BY <1>2, <3>1 DEF BytePieces
  <2>2. Join(0, p) = <<>> /\ Join(0, q) = <<>>
    BY <2>1, JoinFacts
  <2>3. Join(0 + 1, p) = Join(0, p) \o p[0 + 1]
    BY <2>1, JoinMore
  <2>4. Join(0 + 1, p) = <<>> \o p[1]
    <3>1. p[0 + 1] = p[1]
      OBVIOUS
    <3> QED
      BY <2>2, <2>3, <3>1
  <2>5. <<>> \o p[1] = p[1] /\ p[1] \o <<>> = p[1]
    BY <1>3, CatFacts
  <2>6. Good(0)
    BY <2>2, <2>4, <2>5
  <2> HIDE DEF Good
  <2> QED
    BY <2>6
<1>5. ASSUME NEW k \in 0..n, k \in H, k + 1 <= n PROVE k + 1 \in H
  <2>1. k + 1 \in 0..n /\ k \in Nat /\ k + 1 \in Nat /\ k + 1 \in 1..n
    BY <1>5
  <2>2. BytePieces((k + 1) + 1, p) /\ BytePieces(k + 1, q) /\ BytePieces(k, q)
    BY <1>2, <2>1
  <2>3. Join((k + 1) + 1, p) = Join(k + 1, p) \o p[(k + 1) + 1]
    BY <2>1, <2>2, JoinMore
  <2>4. Join(k + 1, q) = Join(k, q) \o q[k + 1] /\ q[k + 1] \in Seq(Byte)
    BY <2>1, <2>2, JoinMore
  <2>5. q[k + 1] = p[(k + 1) + 1] /\ Join(k, q) \in Seq(Byte)
    BY <2>1, <2>2, JoinFacts
  <2>6. Join((k + 1) + 1, p) = (p[1] \o Join(k, q)) \o q[k + 1]
    BY <1>5, <2>3, <2>5
  <2>7. (p[1] \o Join(k, q)) \o q[k + 1] = p[1] \o (Join(k, q) \o q[k + 1])
    <3>1. p[1] \in Seq(Byte) /\ Join(k, q) \in Seq(Byte) /\ q[k + 1] \in Seq(Byte)
      BY <1>3, <2>4, <2>5
    <3>2. \A x1, x2, c \in Seq(Byte) : (x1 \o x2) \o c = x1 \o (x2 \o c)
      BY CatFacts
    <3> QED
      BY <3>1, <3>2
  <2>8. Good(k + 1)
    BY <2>4, <2>6, <2>7
  <2> HIDE DEF Good
  <2> QED
    BY <2>1, <2>8
<1>6. 0..n \subseteq H
  <2> HIDE DEF H
  <2> QED
    BY <1>4, <1>5, Upward
<1>7. Good(n)
  BY <1>6
<1>8. BytePieces(n, q)
  BY <1>2
<1> QED
  BY <1>3, <1>7, <1>8

-----------------------------------------------------------------------------
(* What a decoder takes from the front of the bytes is the encoding of what it
   makes of it. *)
LEMMA WidthsFacts == {U16Width, U32Width, U64Width} \subseteq Nat
BY CodecAssumption DEF CodecAssumption

LEMMA UintRead ==
  ASSUME NEW r \in Seq(Byte), NEW w \in Nat, Len(r) >= w
  PROVE  LET n == DecodeUint(SubSeq(r, 1, w))
         IN  /\ n \in Nat /\ EncodeUint(n, w) = SubSeq(r, 1, w)
             /\ EncodeUint(n, w) \in Seq(Byte) /\ Len(EncodeUint(n, w)) = w
             /\ SubSeq(r, w + 1, Len(r)) \in Seq(Byte)
             /\ r = EncodeUint(n, w) \o SubSeq(r, w + 1, Len(r))
<1> DEFINE s == SubSeq(r, 1, w)
<1>1. /\ s \in Seq(Byte) /\ Len(s) = w
      /\ SubSeq(r, w + 1, Len(r)) \in Seq(Byte)
      /\ r = s \o SubSeq(r, w + 1, Len(r))
  <2>1. w \in 0..Len(r)
    OBVIOUS
  <2>2. SplitsAt(Byte, r, w)
    BY <2>1, SplitFacts
  <2> QED
    BY <2>2 DEF SplitsAt
<1> HIDE DEF s
<1>2. DecodeUint(s) \in Nat /\ EncodeUint(DecodeUint(s), Len(s)) = s
  BY <1>1, NumbersAreCanonical
<1> QED
  BY <1>1, <1>2 DEF s

LEMMA BytesRead ==
  ASSUME NEW r \in Seq(Byte), NEW n \in Nat, U32Width <= Len(r),
         n = DecodeUint(SubSeq(r, 1, U32Width)), n <= Len(r) - U32Width
  PROVE  LET s == SubSeq(r, U32Width + 1, U32Width + n)
             t == SubSeq(r, U32Width + n + 1, Len(r))
         IN  /\ s \in Seq(Byte) /\ Len(s) = n /\ t \in Seq(Byte)
             /\ EncodeBytes(s) \in Seq(Byte) /\ r = EncodeBytes(s) \o t
<1> DEFINE w == U32Width
           x1 == SubSeq(r, 1, w)
           u == SubSeq(r, w + 1, Len(r))
           s == SubSeq(r, w + 1, w + n)
           t == SubSeq(r, w + n + 1, Len(r))
<1>1. w \in Nat /\ Len(r) \in Nat /\ w \in 0..Len(r)
  BY WidthsFacts
<1>2. /\ x1 \in Seq(Byte) /\ Len(x1) = w /\ u \in Seq(Byte) /\ Len(u) = Len(r) - w
      /\ r = x1 \o u /\ EncodeUint(n, w) = x1
  <2>1. Len(r) >= w
    BY <1>1
  <2> HIDE DEF w
  <2>2. EncodeUint(n, w) = x1
    BY <1>1, <2>1, UintRead DEF w
  <2> QED
    BY <1>1, <2>2, SplitFacts DEF SplitsAt
<1>3. /\ SubSeq(u, 1, n) \in Seq(Byte) /\ Len(SubSeq(u, 1, n)) = n
      /\ SubSeq(u, n + 1, Len(u)) \in Seq(Byte)
      /\ Len(SubSeq(u, n + 1, Len(u))) = Len(u) - n
      /\ u = SubSeq(u, 1, n) \o SubSeq(u, n + 1, Len(u))
  <2>1. n \in 0..Len(u)
    BY <1>1, <1>2
  <2> HIDE DEF u
  <2>2. SplitsAt(Byte, u, n)
    BY <1>2, <2>1, SplitFacts
  <2> QED
    BY <2>2 DEF SplitsAt
<1>4. s \in Seq(Byte) /\ Len(s) = n /\ \A i \in 1..n : s[i] = r[w + i]
  <2>1. w + 1 \in Int /\ w + n \in Int /\ (w + n) - (w + 1) + 1 = n /\ 1 <= w + 1 /\ w + n <= Len(r)
    BY <1>1
  <2>2. s \in Seq(Byte)
    BY <1>1, <2>1
  <2>3. Len(s) = n
    BY <1>1, <2>1
  <2>4. \A i \in 1..n : s[i] = r[w + i]
    BY <1>1, <2>1
  <2> QED
    BY <2>2, <2>3, <2>4
<1>5. t \in Seq(Byte) /\ Len(t) = Len(r) - w - n /\ \A i \in 1..(Len(r) - w - n) : t[i] = r[w + n + i]
  BY <1>1
<1>6. \A i \in 1..(Len(r) - w) : u[i] = r[w + i]
  BY <1>1
<1> HIDE DEF w, x1, u, s, t
<1>7. SubSeq(u, 1, n) = s
  <2>1. \A i \in 1..n : SubSeq(u, 1, n)[i] = s[i]
    <3> SUFFICES ASSUME NEW i \in 1..n PROVE SubSeq(u, 1, n)[i] = s[i]
      OBVIOUS
    <3>1. SubSeq(u, 1, n)[i] = u[i]
      BY <1>2
    <3>2. i \in 1..(Len(r) - w)
      BY <1>1 DEF w
    <3> QED
      BY <1>4, <1>6, <3>1, <3>2
  <2> QED
    BY <1>3, <1>4, <2>1, SameEntries
<1>8. SubSeq(u, n + 1, Len(u)) = t
  <2>1. \A i \in 1..(Len(r) - w - n) : SubSeq(u, n + 1, Len(u))[i] = t[i]
    <3> SUFFICES ASSUME NEW i \in 1..(Len(r) - w - n) PROVE SubSeq(u, n + 1, Len(u))[i] = t[i]
      OBVIOUS
    <3>1. SubSeq(u, n + 1, Len(u))[i] = u[n + i]
      <4>1. u \in Seq(Byte) /\ Len(u) = Len(r) - w /\ n \in Nat /\ Len(u) \in Nat
        BY <1>1, <1>2
      <4>2. i \in 1..(Len(u) - n)
        BY <4>1
      <4> QED
        BY <4>1, <4>2
    <3>2. n + i \in 1..(Len(r) - w) /\ w + (n + i) = w + n + i
      BY <1>1 DEF w
    <3> QED
      BY <1>5, <1>6, <3>1, <3>2
  <2>2. Len(SubSeq(u, n + 1, Len(u))) = Len(t)
    BY <1>1, <1>2, <1>3, <1>5
  <2> QED
    BY <1>3, <1>5, <2>1, <2>2, SameEntries
<1>9. EncodeBytes(s) = x1 \o s
  BY <1>2, <1>4 DEF EncodeBytes, w
<1>10. EncodeBytes(s) \in Seq(Byte) /\ r = (x1 \o s) \o t
  <2>1. x1 \o s \in Seq(Byte) /\ (x1 \o s) \o t = x1 \o (s \o t)
    <3>1. x1 \in Seq(Byte) /\ s \in Seq(Byte) /\ t \in Seq(Byte)
      BY <1>2, <1>4, <1>5
    <3>2. \A x, y, z \in Seq(Byte) : (x \o y) \o z = x \o (y \o z)
      BY CatFacts
    <3>3. x1 \o s \in Seq(Byte)
      BY <3>1
    <3>4. (x1 \o s) \o t = x1 \o (s \o t)
      BY <3>1, <3>2
    <3> QED
      BY <3>3, <3>4
  <2> QED
    BY <1>2, <1>3, <1>7, <1>8, <1>9, <2>1
<1> QED
  BY <1>4, <1>5, <1>9, <1>10 DEF s, t, w

-----------------------------------------------------------------------------
(* A number with so many digits is written in so many bytes, and read again. *)
LEMMA FitsFacts ==
  ASSUME NEW w \in Nat, NEW n, FitsWidth(n, w)
  PROVE  /\ n \in Nat
         /\ EncodeUint(n, w) \in Seq(Byte) /\ Len(EncodeUint(n, w)) = w
         /\ DecodeUint(EncodeUint(n, w)) = n
<1>1. PICK s \in [1..w -> Byte] : DecodeUint(s) = n
  BY DEF FitsWidth
<1>2. s \in Seq(Byte) /\ Len(s) = w
  OBVIOUS
<1>3. DecodeUint(s) \in Nat /\ EncodeUint(DecodeUint(s), Len(s)) = s
  BY <1>2, NumbersAreCanonical
<1> QED
  BY <1>1, <1>2, <1>3

LEMMA DomainFacts ==
  ASSUME NEW k \in Kinds
  PROVE  /\ EncodeDomain(k) \in Seq(Byte)
         /\ k = "Ping" => EncodeDomain(k) = <<>>
         /\ k # "Ping" => /\ Domain[k] \in Seq(Byte)
                          /\ EncodeDomain(k) = EncodeBytes(Domain[k])
                          /\ FitsWidth(Len(Domain[k]), U32Width)
<1>1. k = "Ping" => EncodeDomain(k) = <<>>
  BY DEF EncodeDomain
<1>2. ASSUME k # "Ping"
      PROVE  /\ Domain[k] \in Seq(Byte) /\ EncodeDomain(k) = EncodeBytes(Domain[k])
             /\ FitsWidth(Len(Domain[k]), U32Width) /\ EncodeDomain(k) \in Seq(Byte)
  <2>1. k \in DOMAIN Domain
    BY <1>2, CodecAssumption DEF CodecAssumption
  <2>2. Domain[k] \in Seq(Byte)
    BY <2>1, CodecAssumption DEF CodecAssumption
  <2>3. FitsWidth(Len(Domain[k]), U32Width)
    BY <2>1, LimitsFit DEF LimitsFit
  <2>4. EncodeDomain(k) = EncodeBytes(Domain[k])
    BY <1>2 DEF EncodeDomain
  <2>5. EncodeUint(Len(Domain[k]), U32Width) \in Seq(Byte)
    BY <2>3, FitsFacts, WidthsFacts
  <2>6. EncodeBytes(Domain[k]) \in Seq(Byte)
    BY <2>2, <2>5 DEF EncodeBytes
  <2> QED
    BY <2>2, <2>3, <2>4, <2>6
<1>3. <<>> \in Seq(Byte)
  OBVIOUS
<1> QED
  BY <1>1, <1>2, <1>3

-----------------------------------------------------------------------------
(* Only the last field of two kinds is a sequence. *)
SequenceKinds == {"BlockLocator", "Block"}
SequenceTypes == {"items", "hashes"}
PlainTypes    == {"uint", "bytes", "exact", "number", "text"}
FieldRecords  == [type : PlainTypes \cup SequenceTypes \cup {"domain"}, size : Nat, items : Nat]

LayoutOf(k, fs) ==
  /\ fs \in Seq(FieldRecords) /\ Len(fs) \in Nat /\ Len(fs) # 0
  /\ \A i \in 1..Len(fs) : i # Len(fs) => fs[i].type \in PlainTypes
  /\ fs[Len(fs)].type \in IF k \in SequenceKinds THEN SequenceTypes ELSE PlainTypes

PlainFields == {f \in FieldRecords : f.type \in PlainTypes}

LEMMA PlainLayout ==
  ASSUME NEW k, k \notin SequenceKinds, NEW fs \in Seq(PlainFields), Len(fs) # 0
  PROVE  LayoutOf(k, fs)
<1>1. Len(fs) \in Nat /\ \A i \in 1..Len(fs) : fs[i] \in PlainFields
  OBVIOUS
<1>2. PlainFields \subseteq FieldRecords
  BY DEF PlainFields
<1>3. fs \in Seq(FieldRecords)
  BY <1>1, <1>2
<1>4. \A i \in 1..Len(fs) : fs[i].type \in PlainTypes
  BY <1>1 DEF PlainFields
<1> QED
  BY <1>1, <1>3, <1>4 DEF LayoutOf

LEMMA ListLayout ==
  ASSUME NEW k \in SequenceKinds, NEW last \in FieldRecords, last.type \in SequenceTypes
  PROVE  LayoutOf(k, <<last>>)
<1> DEFINE fs == <<last>>
<1>1. fs \in Seq(FieldRecords) /\ Len(fs) = 1 /\ fs[1] = last
  OBVIOUS
<1> HIDE DEF fs
<1>2. Len(fs) \in Nat /\ Len(fs) # 0
  BY <1>1
<1>3. \A i \in 1..Len(fs) : i = Len(fs)
  BY <1>1
<1>4. fs[Len(fs)].type \in IF k \in SequenceKinds THEN SequenceTypes ELSE PlainTypes
  BY <1>1
<1>5. LayoutOf(k, fs)
  BY <1>1, <1>2, <1>3, <1>4 DEF LayoutOf
<1> QED
  BY <1>5 DEF fs

LEMMA SequenceLayout ==
  ASSUME NEW k \in SequenceKinds, NEW f \in FieldRecords, f.type \in PlainTypes,
         NEW last \in FieldRecords, last.type \in SequenceTypes
  PROVE  LayoutOf(k, <<f, f, last>>)
<1> DEFINE fs == <<f, f, last>>
<1>1. fs \in Seq(FieldRecords) /\ Len(fs) = 3 /\ fs[1] = f /\ fs[2] = f /\ fs[3] = last
  OBVIOUS
<1>2. \A i \in 1..3 : i = 1 \/ i = 2 \/ i = 3
  OBVIOUS
<1> HIDE DEF fs
<1>3. \A i \in 1..Len(fs) : i # Len(fs) => fs[i].type \in PlainTypes
  BY <1>1, <1>2
<1>4. fs[Len(fs)].type \in IF k \in SequenceKinds THEN SequenceTypes ELSE PlainTypes
  BY <1>1
<1>5. Len(fs) \in Nat /\ Len(fs) # 0
  BY <1>1
<1>6. LayoutOf(k, fs)
  BY <1>1, <1>3, <1>4, <1>5 DEF LayoutOf
<1> QED
  BY <1>6 DEF fs

LEMMA PlainFieldFacts ==
  \A n \in Nat : {Uint(n), Bytes(n), Exact(n), Number(n), Text(n)} \subseteq PlainFields
<1> USE DEF Field, FieldRecords, PlainTypes, PlainFields
<1> QED
  BY DEF Uint, Bytes, Exact, Number, Text

LEMMA FieldFacts ==
  /\ \A n \in Nat : /\ Uint(n) \in FieldRecords /\ Uint(n).type = "uint"
                    /\ Bytes(n) \in FieldRecords /\ Bytes(n).type = "bytes"
                    /\ Exact(n) \in FieldRecords /\ Exact(n).type = "exact"
                    /\ Number(n) \in FieldRecords /\ Number(n).type = "number"
                    /\ Text(n) \in FieldRecords /\ Text(n).type = "text"
                    /\ Field("domain", n) \in FieldRecords /\ Field("domain", n).type = "domain"
                    /\ Field("domain", n).size = n
                    /\ Hashes(n) \in FieldRecords /\ Hashes(n).type = "hashes"
                    /\ \A m \in Nat : Items(n, m) \in FieldRecords /\ Items(n, m).type = "items"
<1> USE DEF Field, FieldRecords, PlainTypes, SequenceTypes
<1>1. HashLength \in Nat
  BY CodecAssumption DEF CodecAssumption
<1> QED
  BY <1>1 DEF Uint, Bytes, Exact, Number, Text, Hashes, Items

LEMMA LayoutFacts ==
  ASSUME NEW k \in Kinds
  PROVE  LayoutOf(k, Layout(k))
<1>1. {U16Width, U32Width, U64Width, NodeIdLength, HashLength, WorkLength, TargetLength,
       PublicKeyLength, SignatureLength, MaxChainId, MaxAddress, MaxReason, MaxLocator,
       MaxBlockTransactions, MaxPart} \subseteq Nat
  BY CodecAssumption DEF CodecAssumption
<1> USE <1>1, FieldFacts, PlainFieldFacts DEF PlainTypes, SequenceTypes, SequenceKinds
<1>2. CASE k = "Hello"
  <2> DEFINE fs == <<Exact(NodeIdLength), Text(MaxChainId), Exact(HashLength), Exact(HashLength),
                     Uint(U64Width), Number(WorkLength), Uint(U16Width)>>
  <2>1. Layout(k) = fs
    BY <1>2 DEF Layout
  <2>2. fs \in Seq(PlainFields) /\ Len(fs) # 0
    <3>1. {Exact(NodeIdLength), Text(MaxChainId), Exact(HashLength), Uint(U64Width),
           Number(WorkLength), Uint(U16Width)} \subseteq PlainFields
      OBVIOUS
    <3> QED
      BY <3>1
  <2>3. LayoutOf(k, fs)
    <3>1. k \notin SequenceKinds
      BY <1>2
    <3> HIDE DEF fs, SequenceKinds
    <3> QED
      BY <2>2, <3>1, PlainLayout
  <2> QED
    BY <2>1, <2>3
<1>3. CASE k = "BlockLocator"
  <2> DEFINE last == Hashes(MaxLocator)
             fs == <<last>>
  <2>1. Layout(k) = fs
    BY <1>3 DEF Layout
  <2>2. last \in FieldRecords /\ last.type \in SequenceTypes
    OBVIOUS
  <2>3. k \in SequenceKinds
    BY <1>3
  <2> HIDE DEF last, SequenceKinds, SequenceTypes
  <2>4. LayoutOf(k, fs)
    BY <2>2, <2>3, ListLayout
  <2> QED
    BY <2>1, <2>4
<1>4. CASE k = "ChainSummary"
  <2> DEFINE fs == <<Exact(HashLength), Uint(U64Width), Number(WorkLength)>>
  <2>1. Layout(k) = fs
    BY <1>4 DEF Layout
  <2>2. fs \in Seq(PlainFields) /\ Len(fs) # 0
    <3>1. {Exact(HashLength), Uint(U64Width), Number(WorkLength)} \subseteq PlainFields
      OBVIOUS
    <3> QED
      BY <3>1
  <2>3. LayoutOf(k, fs)
    <3>1. k \notin SequenceKinds
      BY <1>4
    <3> HIDE DEF fs, SequenceKinds
    <3> QED
      BY <2>2, <3>1, PlainLayout
  <2> QED
    BY <2>1, <2>3
<1>5. CASE k = "Reject"
  <2> DEFINE fs == <<Uint(U16Width), Text(MaxReason)>>
  <2>1. Layout(k) = fs
    BY <1>5 DEF Layout
  <2>2. fs \in Seq(PlainFields) /\ Len(fs) # 0
    <3>1. {Uint(U16Width), Text(MaxReason)} \subseteq PlainFields
      OBVIOUS
    <3> QED
      BY <3>1
  <2>3. LayoutOf(k, fs)
    <3>1. k \notin SequenceKinds
      BY <1>5
    <3> HIDE DEF fs, SequenceKinds
    <3> QED
      BY <2>2, <3>1, PlainLayout
  <2> QED
    BY <2>1, <2>3
<1>6. CASE k = "Ping"
  <2> DEFINE fs == <<Uint(U64Width)>>
  <2>1. Layout(k) = fs
    BY <1>6 DEF Layout
  <2>2. fs \in Seq(PlainFields) /\ Len(fs) # 0
    <3>1. {Uint(U64Width)} \subseteq PlainFields
      OBVIOUS
    <3> QED
      BY <3>1
  <2>3. LayoutOf(k, fs)
    <3>1. k \notin SequenceKinds
      BY <1>6
    <3> HIDE DEF fs, SequenceKinds
    <3> QED
      BY <2>2, <3>1, PlainLayout
  <2> QED
    BY <2>1, <2>3
<1>7. CASE k = "Transaction"
  <2> DEFINE fs == <<Uint(U16Width), Text(MaxChainId), Bytes(PublicKeyLength),
           Text(MaxAddress), Text(MaxAddress), Uint(U64Width), Uint(U64Width),
           Uint(U64Width), Uint(U64Width), Bytes(SignatureLength)>>
  <2>1. Layout(k) = fs
    BY <1>7 DEF Layout
  <2>2. fs \in Seq(PlainFields) /\ Len(fs) # 0
    <3>1. {Uint(U16Width), Text(MaxChainId), Bytes(PublicKeyLength), Text(MaxAddress),
           Uint(U64Width), Bytes(SignatureLength)} \subseteq PlainFields
      OBVIOUS
    <3> QED
      BY <3>1
  <2>3. LayoutOf(k, fs)
    <3>1. k \notin SequenceKinds
      BY <1>7
    <3> HIDE DEF fs, SequenceKinds
    <3> QED
      BY <2>2, <3>1, PlainLayout
  <2> QED
    BY <2>1, <2>3
<1>8. CASE k = "RewardTransaction"
  <2> DEFINE fs == <<Uint(U16Width), Text(MaxChainId), Uint(U64Width), Text(MaxAddress),
           Uint(U64Width)>>
  <2>1. Layout(k) = fs
    BY <1>8 DEF Layout
  <2>2. fs \in Seq(PlainFields) /\ Len(fs) # 0
    <3>1. {Uint(U16Width), Text(MaxChainId), Uint(U64Width), Text(MaxAddress)} \subseteq PlainFields
      OBVIOUS
    <3> QED
      BY <3>1
  <2>3. LayoutOf(k, fs)
    <3>1. k \notin SequenceKinds
      BY <1>8
    <3> HIDE DEF fs, SequenceKinds
    <3> QED
      BY <2>2, <3>1, PlainLayout
  <2> QED
    BY <2>1, <2>3
<1>9. CASE k = "BlockHeader"
  <2> DEFINE fs == <<Uint(U16Width), Text(MaxChainId), Uint(U64Width), Exact(HashLength),
           Exact(HashLength), Exact(HashLength), Uint(U64Width),
           Number(TargetLength), Uint(U64Width), Text(MaxAddress)>>
  <2>1. Layout(k) = fs
    BY <1>9 DEF Layout
  <2>2. fs \in Seq(PlainFields) /\ Len(fs) # 0
    <3>1. {Uint(U16Width), Text(MaxChainId), Uint(U64Width), Exact(HashLength),
           Number(TargetLength), Text(MaxAddress)} \subseteq PlainFields
      OBVIOUS
    <3> QED
      BY <3>1
  <2>3. LayoutOf(k, fs)
    <3>1. k \notin SequenceKinds
      BY <1>9
    <3> HIDE DEF fs, SequenceKinds
    <3> QED
      BY <2>2, <3>1, PlainLayout
  <2> QED
    BY <2>1, <2>3
<1>10. CASE k = "Block"
  <2> DEFINE f == Bytes(MaxPart)
             last == Items(MaxBlockTransactions, MaxPart)
             fs == <<f, f, last>>
  <2>1. Layout(k) = fs
    BY <1>10 DEF Layout
  <2>2. /\ f \in FieldRecords /\ f.type \in PlainTypes
        /\ last \in FieldRecords /\ last.type \in SequenceTypes
    BY SMTT(20)
  <2>3. k \in SequenceKinds
    BY <1>10
  <2> HIDE DEF f, last, SequenceKinds, SequenceTypes, PlainTypes
  <2>4. LayoutOf(k, fs)
    BY <2>2, <2>3, SequenceLayout
  <2> QED
    BY <2>1, <2>4
<1> QED
  BY <1>2, <1>3, <1>4, <1>5, <1>6, <1>7, <1>8, <1>9, <1>10 DEF Kinds, Flat

-----------------------------------------------------------------------------
(* How far a decoder is with the bytes P of a value of kind k, when fs are the
   fields to be read, g what has been read, and r the bytes that remain. *)
Content == Nat \cup Seq(Byte)

WrittenFields(k, g) == [i \in 1..Len(g) |-> EncodeField(Layout(k)[i], g[i])]
WrittenItems(s) == [i \in 1..Len(s) |-> EncodeBytes(s[i])]

AtDomain(k, fs, g, r, P) ==
  k # "Ping" /\ fs = DomainField(k) \o Layout(k) /\ g = <<>> /\ r = P

(* The fields g of the layout have been read. *)
AtField(k, fs, g, r, P) ==
  LET n == Len(Layout(k))
      j == Len(g)
  IN  /\ j <= n /\ (j = n => k \notin SequenceKinds)
      /\ Len(fs) = n - j /\ \A i \in 1..(n - j) : fs[i] = Layout(k)[j + i]
      /\ BytePieces(j, WrittenFields(k, g))
      /\ P = (EncodeDomain(k) \o Join(j, WrittenFields(k, g))) \o r

(* Of c items of the last field, s have been read; h are the fields before. *)
AtItem(k, fs, h, s, c, r, P) ==
  LET n == Len(Layout(k)) - 1
      m == Len(s)
  IN  /\ k \in SequenceKinds /\ Len(h) = n
      /\ c \in Nat /\ m <= c
      /\ Len(fs) = c - m /\ \A i \in 1..(c - m) : fs[i] = Item(Layout(k)[n + 1])
      /\ BytePieces(n, WrittenFields(k, h)) /\ BytePieces(m, WrittenItems(s))
      /\ EncodeUint(c, U32Width) \in Seq(Byte)
      /\ P = (((EncodeDomain(k) \o Join(n, WrittenFields(k, h))) \o EncodeUint(c, U32Width))
                 \o Join(m, WrittenItems(s))) \o r

Stage(k, fs, g, r, P) ==
  /\ k \in Kinds /\ r \in Seq(Byte) /\ P \in Seq(Byte)
  /\ fs \in Seq(FieldRecords) /\ g \in Seq(Content)
  /\ \/ AtDomain(k, fs, g, r, P)
     \/ AtField(k, fs, g, r, P)
     \/ \E h \in Seq(Content), s \in Seq(Seq(Byte)), c \in Nat :
          g = h \o s /\ AtItem(k, fs, h, s, c, r, P)

LEMMA BeginStage ==
  ASSUME NEW k \in Kinds, NEW P \in Seq(Byte)
  PROVE  Stage(k, DomainField(k) \o Layout(k), <<>>, P, P)
<1> DEFINE fs == DomainField(k) \o Layout(k)
<1>1. LayoutOf(k, Layout(k))
  BY LayoutFacts
<1>2. <<>> \in Seq(Content)
  OBVIOUS
<1>3. CASE k # "Ping"
  <2>1. DomainField(k) \in Seq(FieldRecords)
    <3>1. Len(Domain[k]) \in Nat
      BY <1>3, DomainFacts
    <3>2. Field("domain", Len(Domain[k])) \in FieldRecords
      BY <3>1, FieldFacts
    <3> QED
      BY <1>3, <3>2 DEF DomainField
  <2>2. fs \in Seq(FieldRecords)
    BY <1>1, <2>1 DEF LayoutOf
  <2> QED
    BY <1>2, <1>3, <2>2 DEF Stage, AtDomain
<1>4. CASE k = "Ping"
  <2>1. fs = Layout(k) /\ fs \in Seq(FieldRecords) /\ Len(fs) \in Nat /\ Len(fs) # 0
    BY <1>1, <1>4 DEF DomainField, LayoutOf
  <2>2. BytePieces(0, WrittenFields(k, <<>>)) /\ Join(0, WrittenFields(k, <<>>)) = <<>>
    <3>1. BytePieces(0, WrittenFields(k, <<>>))
      BY DEF BytePieces
    <3> QED
      BY <3>1, JoinFacts
  <2>3. (EncodeDomain(k) \o <<>>) \o P = P
    BY <1>4, DomainFacts, CatFacts
  <2>4. Len(<<>>) = 0
    OBVIOUS
  <2>5. AtField(k, fs, <<>>, P, P)
    BY <2>1, <2>2, <2>3, <2>4 DEF AtField
  <2> QED
    BY <1>2, <2>1, <2>5 DEF Stage
<1> QED
  BY <1>3, <1>4

LEMMA HeadFacts ==
  ASSUME NEW T, NEW fs \in Seq(T), fs # <<>>
  PROVE  /\ Len(fs) \in Nat /\ Len(fs) > 0 /\ Head(fs) = fs[1] /\ Head(fs) \in T
         /\ Tail(fs) \in Seq(T) /\ Len(Tail(fs)) = Len(fs) - 1
         /\ \A i \in 1..(Len(fs) - 1) : Tail(fs)[i] = fs[i + 1]
<1>1. Len(fs) \in Nat /\ Len(fs) > 0 /\ Head(fs) = fs[1] /\ Head(fs) \in T
  OBVIOUS
<1>2. Tail(fs) \in Seq(T) /\ Len(Tail(fs)) = Len(fs) - 1
  OBVIOUS
<1>3. \A i \in 1..(Len(fs) - 1) : Tail(fs)[i] = fs[i + 1]
  OBVIOUS
<1> QED
  BY <1>1, <1>2, <1>3

(* The domain. *)
LEMMA DomainFirst ==
  ASSUME NEW k \in Kinds, NEW fs, NEW g, NEW r, NEW P, AtDomain(k, fs, g, r, P)
  PROVE  /\ k # "Ping" /\ fs # <<>> /\ Head(fs) = Field("domain", Len(Domain[k]))
         /\ Head(fs).type = "domain" /\ Tail(fs) = Layout(k)
<1> DEFINE f == Field("domain", Len(Domain[k]))
           L == Layout(k)
<1>1. k # "Ping" /\ fs = <<f>> \o L
  BY DEF AtDomain, DomainField
<1>2. L \in Seq(FieldRecords) /\ Len(L) \in Nat /\ Len(L) # 0
  BY LayoutFacts DEF LayoutOf
<1>3. f \in FieldRecords /\ f.type = "domain"
  <2>1. Len(Domain[k]) \in Nat
    BY <1>1, DomainFacts
  <2> QED
    BY <2>1, FieldFacts
<1> HIDE DEF f, L
<1>4. fs # <<>> /\ Head(fs) = f /\ Tail(fs) = L
  <2>1. Len(<<f>>) = 1 /\ <<f>> \in Seq(FieldRecords) /\ <<f>>[1] = f
    BY <1>3
  <2>2. fs \in Seq(FieldRecords) /\ Len(fs) = Len(L) + 1 /\ fs[1] = f
    BY <1>1, <1>2, <2>1
  <2>3. \A i \in 1..Len(L) : fs[i + 1] = L[i]
    BY <1>1, <1>2, <2>1
  <2>4. fs # <<>>
    BY <1>2, <2>2
  <2>5. /\ Tail(fs) \in Seq(FieldRecords) /\ Len(Tail(fs)) = Len(L)
        /\ \A i \in 1..Len(L) : Tail(fs)[i] = L[i]
    BY <1>2, <2>2, <2>3, <2>4, HeadFacts
  <2>6. Tail(fs) = L
    BY <1>2, <2>5, SameEntries
  <2> QED
    BY <2>2, <2>4, <2>6
<1> QED
  BY <1>1, <1>3, <1>4 DEF f, L

LEMMA DomainRead ==
  ASSUME NEW k \in Kinds, NEW fs, NEW g, NEW r, NEW P, NEW t \in Seq(Byte),
         AtDomain(k, fs, g, r, P), r = EncodeBytes(Domain[k]) \o t
  PROVE  AtField(k, Tail(fs), g, t, P)
<1> DEFINE L == Layout(k)
<1>1. k # "Ping" /\ g = <<>> /\ P = EncodeDomain(k) \o t /\ Tail(fs) = L
  BY DomainFacts, DomainFirst DEF AtDomain
<1>2. L \in Seq(FieldRecords) /\ Len(L) \in Nat /\ Len(L) # 0
  BY LayoutFacts DEF LayoutOf
<1> HIDE DEF L
<1>3. BytePieces(0, WrittenFields(k, <<>>)) /\ Join(0, WrittenFields(k, <<>>)) = <<>>
  <2>1. BytePieces(0, WrittenFields(k, <<>>))
    BY DEF BytePieces
  <2> QED
    BY <2>1, JoinFacts
<1>4. (EncodeDomain(k) \o <<>>) \o t = EncodeDomain(k) \o t
  BY DomainFacts, CatFacts
<1>5. /\ Len(<<>>) = 0 /\ 0 <= Len(L) /\ 0 # Len(L) /\ Len(L) = Len(L) - 0
      /\ \A i \in 1..(Len(L) - 0) : L[i] = L[0 + i]
  BY <1>2
<1>6. AtField(k, L, <<>>, t, P)
  BY <1>1, <1>3, <1>4, <1>5 DEF AtField, L
<1> QED
  BY <1>1, <1>6

OneMore(n, p, q, x) ==
  /\ BytePieces(n, p) /\ x \in Seq(Byte)
  /\ \A i \in 1..n : q[i] = p[i]
  /\ q[n + 1] = x

LEMMA JoinAppend ==
  ASSUME NEW n, NEW p, NEW q, NEW x, OneMore(n, p, q, x)
  PROVE  /\ BytePieces(n + 1, q) /\ Join(n + 1, q) = Join(n, p) \o x /\ Join(n, p) \in Seq(Byte)
<1> USE DEF OneMore
<1>1. n \in Nat /\ \A i \in 1..n : p[i] \in Seq(Byte)
  BY DEF BytePieces
<1>2. \A i \in 1..(n + 1) : i \in 1..n \/ i = n + 1
  BY <1>1
<1>3. \A i \in 1..(n + 1) : q[i] \in Seq(Byte)
  BY <1>1, <1>2
<1>4. n + 1 \in Nat
  BY <1>1
<1>5. BytePieces(n + 1, q)
  BY <1>3, <1>4 DEF BytePieces
<1>6. BytePieces(n, q) /\ Join(n + 1, q) = Join(n, q) \o q[n + 1]
  BY <1>1, <1>5, JoinMore
<1>7. Join(n, q) = Join(n, p) /\ Join(n, p) \in Seq(Byte)
  BY <1>6, JoinFacts
<1> QED
  BY <1>5, <1>6, <1>7

LEMMA AppendCat ==
  ASSUME NEW h \in Seq(Content), NEW u \in Seq(Content), NEW v \in Content
  PROVE  Append(h \o u, v) = h \o Append(u, v)
<1>1. /\ h \o u \in Seq(Content) /\ Len(h \o u) = Len(h) + Len(u) /\ Len(h) \in Nat /\ Len(u) \in Nat
      /\ \A i \in 1..(Len(h) + Len(u)) : (h \o u)[i] = IF i <= Len(h) THEN h[i] ELSE u[i - Len(h)]
  OBVIOUS
<1>2. /\ Append(u, v) \in Seq(Content) /\ Len(Append(u, v)) = Len(u) + 1
      /\ Append(u, v)[Len(u) + 1] = v /\ \A i \in 1..Len(u) : Append(u, v)[i] = u[i]
  OBVIOUS
<1> DEFINE s == Append(h \o u, v)
           t == h \o Append(u, v)
           n == Len(h) + Len(u) + 1
<1>3. /\ s \in Seq(Content) /\ Len(s) = n /\ s[n] = v
      /\ \A i \in 1..(Len(h) + Len(u)) : s[i] = (h \o u)[i]
  BY <1>1
<1>4. /\ t \in Seq(Content) /\ Len(t) = n
      /\ \A i \in 1..n : t[i] = IF i <= Len(h) THEN h[i] ELSE Append(u, v)[i - Len(h)]
  BY <1>1, <1>2
<1> HIDE DEF s, t
<1>5. ASSUME NEW i \in 1..n PROVE s[i] = t[i]
  <2>1. CASE i = n
    <3>1. t[i] = Append(u, v)[Len(u) + 1]
      BY <1>1, <1>4, <2>1
    <3> QED
      BY <1>2, <1>3, <2>1, <3>1
  <2>2. CASE i # n
    <3>1. i \in 1..(Len(h) + Len(u))
      BY <1>1, <2>2
    <3>2. i <= Len(h) \/ i - Len(h) \in 1..Len(u)
      BY <1>1, <3>1
    <3> QED
      BY <1>1, <1>2, <1>3, <1>4, <3>1, <3>2
  <2> QED
    BY <2>1, <2>2
<1>6. s = t
  <2>1. DOMAIN s = 1..n /\ DOMAIN t = 1..n
    BY <1>3, <1>4
  <2>2. s = [i \in 1..n |-> s[i]] /\ t = [i \in 1..n |-> t[i]]
    BY <1>3, <1>4, <2>1
  <2> QED
    BY <1>5, <2>2
<1> QED
  BY <1>6 DEF s, t

LEMMA AddedFacts ==
  ASSUME NEW T, NEW s \in Seq(T), NEW v \in T
  PROVE  /\ Append(s, v) \in Seq(T) /\ Len(Append(s, v)) = Len(s) + 1 /\ Len(s) \in Nat
         /\ Append(s, v)[Len(s) + 1] = v
         /\ \A i \in 1..Len(s) : Append(s, v)[i] = s[i]
<1>1. Append(s, v) \in Seq(T) /\ Len(Append(s, v)) = Len(s) + 1 /\ Len(s) \in Nat
  OBVIOUS
<1>2. Append(s, v)[Len(s) + 1] = v
  OBVIOUS
<1>3. \A i \in 1..Len(s) : Append(s, v)[i] = s[i]
  OBVIOUS
<1> QED
  BY <1>1, <1>2, <1>3

Regroups(x1, x2, x, t) == (x1 \o x2) \o (x \o t) = (x1 \o (x2 \o x)) \o t

LEMMA Regroup ==
  ASSUME NEW x1 \in Seq(Byte), NEW x2 \in Seq(Byte), NEW x \in Seq(Byte), NEW t \in Seq(Byte)
  PROVE  Regroups(x1, x2, x, t)
<1>2. x1 \o x2 \in Seq(Byte) /\ x \o t \in Seq(Byte) /\ x2 \o x \in Seq(Byte)
  BY CatFacts
<1>3. (x1 \o x2) \o (x \o t) = ((x1 \o x2) \o x) \o t
  <2> DEFINE y == x1 \o x2
  <2>1. y \in Seq(Byte)
    BY <1>2
  <2> HIDE DEF y
  <2>2. (y \o x) \o t = y \o (x \o t)
    BY <2>1, CatAssoc
  <2> QED
    BY <2>2 DEF y
<1>4. (x1 \o x2) \o x = x1 \o (x2 \o x)
  BY CatAssoc
<1> QED
  BY <1>3, <1>4 DEF Regroups

(* A field that is no sequence. *)
LEMMA FieldRead ==
  ASSUME NEW k \in Kinds, NEW fs \in Seq(FieldRecords), fs # <<>>, Head(fs).type \in PlainTypes,
         NEW g \in Seq(Content), NEW v \in Content, NEW r, NEW P, NEW t \in Seq(Byte),
         AtField(k, fs, g, r, P),
         EncodeField(Head(fs), v) \in Seq(Byte), r = EncodeField(Head(fs), v) \o t
  PROVE  AtField(k, Tail(fs), Append(g, v), t, P)
<1> DEFINE L == Layout(k)
           n == Len(L)
           j == Len(g)
           x == EncodeField(Head(fs), v)
           p == WrittenFields(k, g)
           q == WrittenFields(k, Append(g, v))
           D == EncodeDomain(k)
<1>1. /\ j \in Nat /\ Append(g, v) \in Seq(Content) /\ Len(Append(g, v)) = j + 1
      /\ Append(g, v)[j + 1] = v /\ \A i \in 1..j : Append(g, v)[i] = g[i]
  BY AddedFacts
<1>2. /\ LayoutOf(k, L) /\ n \in Nat
      /\ Len(fs) \in Nat /\ Len(fs) > 0 /\ Head(fs) = fs[1] /\ Len(Tail(fs)) = Len(fs) - 1
      /\ \A i \in 1..(Len(fs) - 1) : Tail(fs)[i] = fs[i + 1]
  BY LayoutFacts, HeadFacts DEF LayoutOf
<1>3. /\ j <= n /\ Len(fs) = n - j /\ \A i \in 1..(n - j) : fs[i] = L[j + i]
      /\ BytePieces(j, p) /\ P = (D \o Join(j, p)) \o r
  BY DEF AtField
<1>4. D \in Seq(Byte) /\ x \in Seq(Byte) /\ r = x \o t
  BY DomainFacts
<1>5. \A i \in 1..j : q[i] = p[i]
  BY <1>1 DEF WrittenFields
<1>6. Head(fs) = L[j + 1] /\ j + 1 <= n
  <2> HIDE DEF n, j, L
  <2> QED
    BY <1>1, <1>2, <1>3
<1>7. q[j + 1] = x
  <2>1. j + 1 \in 1..Len(Append(g, v))
    BY <1>1
  <2>2. q[j + 1] = EncodeField(L[j + 1], Append(g, v)[j + 1])
    BY <2>1 DEF WrittenFields
  <2> QED
    BY <1>1, <1>6, <2>2
<1>8. j + 1 = n => k \notin SequenceKinds
  <2> SUFFICES ASSUME j + 1 = n, k \in SequenceKinds PROVE FALSE
    OBVIOUS
  <2>1. L[n].type \in SequenceTypes
    BY <1>2 DEF LayoutOf
  <2> QED
    BY <1>6, <2>1 DEF SequenceTypes, PlainTypes
<1> HIDE DEF L, n, j, x, p, q, D
<1>9. BytePieces(j + 1, q) /\ Join(j + 1, q) = Join(j, p) \o x /\ Join(j, p) \in Seq(Byte)
  <2>1. OneMore(j, p, q, x)
    BY <1>3, <1>4, <1>5, <1>7 DEF OneMore
  <2> QED
    BY <2>1, JoinAppend
<1>10. P = (D \o Join(j + 1, q)) \o t
  <2>1. (D \o Join(j, p)) \o (x \o t) = (D \o (Join(j, p) \o x)) \o t
    <3>1. Regroups(D, Join(j, p), x, t)
      BY <1>4, <1>9, Regroup
    <3> QED
      BY <3>1 DEF Regroups
  <2>2. P = (D \o Join(j, p)) \o (x \o t)
    BY <1>3, <1>4
  <2> QED
    BY <1>9, <2>1, <2>2
<1>11. Len(Tail(fs)) = n - (j + 1)
  BY <1>1, <1>2, <1>3
<1>12. \A i \in 1..(n - (j + 1)) : Tail(fs)[i] = L[(j + 1) + i]
  <2> SUFFICES ASSUME NEW i \in 1..(n - (j + 1)) PROVE Tail(fs)[i] = L[(j + 1) + i]
    OBVIOUS
  <2>1. i \in 1..(Len(fs) - 1) /\ i + 1 \in 1..(n - j) /\ j + (i + 1) = (j + 1) + i
    BY <1>1, <1>2, <1>3
  <2>2. Tail(fs)[i] = fs[i + 1]
    BY <1>2, <2>1
  <2>3. fs[i + 1] = L[j + (i + 1)]
    BY <1>3, <2>1
  <2> QED
    BY <2>1, <2>2, <2>3
<1> QED
  BY <1>1, <1>6, <1>8, <1>9, <1>10, <1>11, <1>12 DEF AtField, L, n, j, q, D

(* The number of items of a sequence. *)
LEMMA CountRead ==
  ASSUME NEW k \in Kinds, NEW fs \in Seq(FieldRecords), fs # <<>>, Head(fs).type \in SequenceTypes,
         NEW g \in Seq(Content), NEW c \in Nat, NEW r, NEW P, NEW t \in Seq(Byte),
         AtField(k, fs, g, r, P),
         EncodeUint(c, U32Width) \in Seq(Byte), r = EncodeUint(c, U32Width) \o t
  PROVE  /\ AtItem(k, [i \in 1..c |-> Item(Head(fs))] \o Tail(fs), g, <<>>, c, t, P)
         /\ Tail(fs) = <<>>
<1> DEFINE L == Layout(k)
           n == Len(L)
           j == Len(g)
           x == EncodeUint(c, U32Width)
           p == WrittenFields(k, g)
           D == EncodeDomain(k)
           items == [i \in 1..c |-> Item(Head(fs))]
<1>1. j \in Nat
  OBVIOUS
<1>2. /\ LayoutOf(k, L) /\ n \in Nat
      /\ Len(fs) \in Nat /\ Len(fs) > 0 /\ Head(fs) = fs[1] /\ Len(Tail(fs)) = Len(fs) - 1
      /\ Tail(fs) \in Seq(FieldRecords)
  BY LayoutFacts, HeadFacts DEF LayoutOf
<1>3. /\ j <= n /\ Len(fs) = n - j /\ \A i \in 1..(n - j) : fs[i] = L[j + i]
      /\ BytePieces(j, p) /\ P = (D \o Join(j, p)) \o r
  BY DEF AtField
<1>4. D \in Seq(Byte) /\ x \in Seq(Byte) /\ r = x \o t
  BY DomainFacts
<1>5. Head(fs) = L[j + 1] /\ j + 1 <= n
  <2> HIDE DEF n, j, L
  <2> QED
    BY <1>1, <1>2, <1>3
<1>6. j + 1 = n /\ k \in SequenceKinds
  <2>1. j + 1 # n => L[j + 1].type \in PlainTypes
    <3>1. j + 1 \in 1..Len(L)
      BY <1>1, <1>2, <1>5
    <3> QED
      BY <1>2, <3>1 DEF LayoutOf
  <2>2. L[j + 1].type \notin PlainTypes
    BY <1>5 DEF PlainTypes, SequenceTypes
  <2>3. j + 1 = n
    BY <2>1, <2>2
  <2>4. k \notin SequenceKinds => L[n].type \in PlainTypes
    BY <1>2 DEF LayoutOf
  <2> QED
    BY <2>2, <2>3, <2>4
<1>7. Tail(fs) = <<>>
  <2> HIDE DEF L, n, j
  <2>1. Len(Tail(fs)) = 0
    <3>1. Len(fs) = 1
      BY <1>1, <1>2, <1>3, <1>6
    <3> QED
      BY <1>2, <3>1
  <2> DEFINE u == Tail(fs)
  <2>2. u \in Seq(FieldRecords) /\ Len(u) = 0
    BY <1>2, <2>1
  <2> HIDE DEF u
  <2>3. u = <<>>
    BY <2>2
  <2> QED
    BY <2>3 DEF u
<1>8. items \o Tail(fs) = items /\ Len(items) = c /\ \A i \in 1..c : items[i] = Item(L[(n - 1) + 1])
  <2>1. items \in Seq({Item(Head(fs))})
    OBVIOUS
  <2>2. Len(items) = c
    OBVIOUS
  <2>3. (n - 1) + 1 = j + 1
    BY <1>1, <1>6
  <2>4. \A i \in 1..c : items[i] = Item(L[(n - 1) + 1])
    BY <1>5, <2>3
  <2> HIDE DEF items
  <2>5. items \o <<>> = items
    BY <2>1
  <2> QED
    BY <1>7, <2>2, <2>4, <2>5
<1>9. BytePieces(0, WrittenItems(<<>>)) /\ Join(0, WrittenItems(<<>>)) = <<>>
  <2>1. BytePieces(0, WrittenItems(<<>>))
    BY DEF BytePieces
  <2> QED
    BY <2>1, JoinFacts
<1> HIDE DEF L, n, j, x, p, D, items
<1>10. P = (((D \o Join(j, p)) \o x) \o <<>>) \o t
  <2>1. Join(j, p) \in Seq(Byte)
    BY <1>3, JoinFacts
  <2>2. D \o Join(j, p) \in Seq(Byte)
    BY <1>4, <2>1, CatFacts
  <2>3. (D \o Join(j, p)) \o x \in Seq(Byte)
    BY <1>4, <2>2, CatFacts
  <2>4. ((D \o Join(j, p)) \o x) \o <<>> = (D \o Join(j, p)) \o x
    BY <2>3, CatFacts
  <2>5. \A u, v, w \in Seq(Byte) : (u \o v) \o w = u \o (v \o w)
    BY CatFacts
  <2>6. ((D \o Join(j, p)) \o x) \o t = (D \o Join(j, p)) \o (x \o t)
    BY <1>4, <2>2, <2>5
  <2> QED
    BY <1>3, <1>4, <2>4, <2>6
<1>11. j = n - 1 /\ Len(<<>>) = 0 /\ 0 <= c /\ c - 0 = c
  BY <1>1, <1>6
<1>12. AtItem(k, items, g, <<>>, c, t, P)
  BY <1>3, <1>4, <1>6, <1>8, <1>9, <1>10, <1>11 DEF AtItem, L, n, j, x, p, D
<1> QED
  BY <1>7, <1>8, <1>12 DEF items

(* An item. *)
LEMMA ItemRead ==
  ASSUME NEW k \in Kinds, NEW fs \in Seq(FieldRecords), fs # <<>>,
         NEW h \in Seq(Content), NEW s \in Seq(Seq(Byte)), NEW v \in Seq(Byte), NEW c \in Nat,
         NEW r, NEW P, NEW t \in Seq(Byte),
         AtItem(k, fs, h, s, c, r, P),
         EncodeBytes(v) \in Seq(Byte), r = EncodeBytes(v) \o t
  PROVE  AtItem(k, Tail(fs), h, Append(s, v), c, t, P)
<1> DEFINE L == Layout(k)
           n == Len(L) - 1
           m == Len(s)
           x == EncodeBytes(v)
           p == WrittenItems(s)
           q == WrittenItems(Append(s, v))
           A == (EncodeDomain(k) \o Join(n, WrittenFields(k, h))) \o EncodeUint(c, U32Width)
<1>1. /\ m \in Nat /\ Append(s, v) \in Seq(Seq(Byte)) /\ Len(Append(s, v)) = m + 1
      /\ Append(s, v)[m + 1] = v /\ \A i \in 1..m : Append(s, v)[i] = s[i]
  BY AddedFacts
<1>2. /\ Len(fs) \in Nat /\ Len(fs) > 0 /\ Len(Tail(fs)) = Len(fs) - 1
      /\ \A i \in 1..(Len(fs) - 1) : Tail(fs)[i] = fs[i + 1]
  BY HeadFacts
<1>3. /\ k \in SequenceKinds /\ Len(h) = n /\ m <= c
      /\ Len(fs) = c - m /\ \A i \in 1..(c - m) : fs[i] = Item(L[n + 1])
      /\ BytePieces(n, WrittenFields(k, h)) /\ BytePieces(m, p)
      /\ EncodeUint(c, U32Width) \in Seq(Byte)
      /\ P = (A \o Join(m, p)) \o r
  BY DEF AtItem
<1>4. A \in Seq(Byte) /\ x \in Seq(Byte) /\ r = x \o t
  <2>1. Join(n, WrittenFields(k, h)) \in Seq(Byte)
    BY <1>3, JoinFacts
  <2>2. EncodeDomain(k) \in Seq(Byte)
    BY DomainFacts
  <2>3. EncodeDomain(k) \o Join(n, WrittenFields(k, h)) \in Seq(Byte)
    BY <2>1, <2>2, CatFacts
  <2>4. A \in Seq(Byte)
    BY <1>3, <2>3, CatFacts
  <2> QED
    BY <2>4
<1>5. \A i \in 1..m : q[i] = p[i]
  BY <1>1 DEF WrittenItems
<1>6. q[m + 1] = x
  <2>1. m + 1 \in 1..Len(Append(s, v))
    BY <1>1
  <2>2. q[m + 1] = EncodeBytes(Append(s, v)[m + 1])
    BY <2>1 DEF WrittenItems
  <2> QED
    BY <1>1, <2>2
<1> HIDE DEF L, n, m, x, p, q, A
<1>7. BytePieces(m + 1, q) /\ Join(m + 1, q) = Join(m, p) \o x /\ Join(m, p) \in Seq(Byte)
  <2>1. OneMore(m, p, q, x)
    BY <1>3, <1>4, <1>5, <1>6 DEF OneMore
  <2> QED
    BY <2>1, JoinAppend
<1>8. P = (A \o Join(m + 1, q)) \o t
  <2>1. (A \o Join(m, p)) \o (x \o t) = (A \o (Join(m, p) \o x)) \o t
    <3>1. Regroups(A, Join(m, p), x, t)
      BY <1>4, <1>7, Regroup
    <3> QED
      BY <3>1 DEF Regroups
  <2>2. P = (A \o Join(m, p)) \o (x \o t)
    BY <1>3, <1>4
  <2> QED
    BY <1>7, <2>1, <2>2
<1>9. Len(Tail(fs)) = c - (m + 1) /\ m + 1 <= c
  <2>1. Len(fs) = c - m /\ Len(fs) > 0
    BY <1>2, <1>3
  <2> QED
    BY <1>1, <1>2, <2>1
<1>10. \A i \in 1..(c - (m + 1)) : Tail(fs)[i] = Item(L[n + 1])
  <2> SUFFICES ASSUME NEW i \in 1..(c - (m + 1)) PROVE Tail(fs)[i] = Item(L[n + 1])
    OBVIOUS
  <2>1. i \in 1..(Len(fs) - 1) /\ i + 1 \in 1..(c - m)
    BY <1>1, <1>2, <1>3
  <2>2. Tail(fs)[i] = fs[i + 1]
    BY <1>2, <2>1
  <2>3. fs[i + 1] = Item(L[n + 1])
    BY <1>3, <2>1
  <2> QED
    BY <2>2, <2>3
<1> QED
  BY <1>1, <1>3, <1>7, <1>8, <1>9, <1>10 DEF AtItem, L, n, m, q, A

-----------------------------------------------------------------------------
(* The value that has been read: the items of a sequence are one field. *)
Gathered(k, g) ==
  LET n == Len(Layout(k)) - 1
  IN  IF k \in SequenceKinds THEN Append(SubSeq(g, 1, n), SubSeq(g, n + 1, Len(g))) ELSE g

(* A sequence's field is encoded last. *)
LEMMA EncodeWithItems ==
  ASSUME NEW k \in Kinds, NEW h \in Seq(Content), NEW s \in Seq(Seq(Byte)),
         k \in SequenceKinds, Len(h) = Len(Layout(k)) - 1,
         BytePieces(Len(h), WrittenFields(k, h)), BytePieces(Len(s), WrittenItems(s)),
         EncodeUint(Len(s), U32Width) \in Seq(Byte)
  PROVE  EncodeFlat(k, Append(h, s))
           = ((EncodeDomain(k) \o Join(Len(h), WrittenFields(k, h))) \o EncodeUint(Len(s), U32Width))
                \o Join(Len(s), WrittenItems(s))
<1> DEFINE L == Layout(k)
           n == Len(h)
           m == Len(s)
           v == Append(h, s)
           D == EncodeDomain(k)
           p == WrittenFields(k, h)
           q == [i \in 1..Len(L) |-> EncodeField(L[i], v[i])]
           E == EncodeUint(m, U32Width)
           J == Join(m, WrittenItems(s))
<1>1. n \in Nat /\ m \in Nat /\ Len(L) = n + 1 /\ LayoutOf(k, L)
  <2>1. LayoutOf(k, L)
    BY LayoutFacts
  <2>2. Len(L) \in Nat /\ n \in Nat /\ m \in Nat
    BY <2>1 DEF LayoutOf
  <2>3. n = Len(L) - 1
    OBVIOUS
  <2> HIDE DEF L, n, m
  <2> QED
    BY <2>1, <2>2, <2>3
<1>2. v[n + 1] = s /\ \A i \in 1..n : v[i] = h[i]
  <2>1. h \in Seq(Content \cup {s}) /\ s \in Content \cup {s}
    OBVIOUS
  <2> QED
    BY <2>1, AddedFacts
<1>3. L[n + 1].type \in SequenceTypes
  BY <1>1 DEF LayoutOf
<1>4. EncodeFlat(k, v) = D \o Join(n + 1, q)
  BY <1>1 DEF EncodeFlat
<1>5. q[n + 1] = E \o J
  <2>1. q[n + 1] = EncodeField(L[n + 1], s)
    BY <1>1, <1>2
  <2>2. EncodeField(L[n + 1], s) = EncodeItems(s)
    BY <1>3 DEF EncodeField, SequenceTypes
  <2>3. EncodeItems(s) = E \o J
    BY DEF EncodeItems, WrittenItems
  <2> QED
    BY <2>1, <2>2, <2>3
<1>6. \A i \in 1..n : q[i] = p[i]
  BY <1>1, <1>2 DEF WrittenFields
<1>7. D \in Seq(Byte) /\ E \in Seq(Byte) /\ J \in Seq(Byte) /\ BytePieces(n, p)
  BY DomainFacts, JoinFacts
<1> HIDE DEF L, n, m, v, D, p, q, E, J
<1>8. E \o J \in Seq(Byte)
  BY <1>7, CatFacts
<1>9. Join(n + 1, q) = Join(n, p) \o (E \o J) /\ Join(n, p) \in Seq(Byte)
  <2> DEFINE x == E \o J
  <2>1. OneMore(n, p, q, x)
    BY <1>5, <1>6, <1>7, <1>8 DEF OneMore
  <2> HIDE DEF x
  <2>2. Join(n + 1, q) = Join(n, p) \o x /\ Join(n, p) \in Seq(Byte)
    BY <2>1, JoinAppend
  <2> QED
    BY <2>2 DEF x
<1>10. D \o (Join(n, p) \o (E \o J)) = ((D \o Join(n, p)) \o E) \o J
  <2>1. \A x, y, z \in Seq(Byte) : (x \o y) \o z = x \o (y \o z)
    BY CatFacts
  <2>2. D \o Join(n, p) \in Seq(Byte)
    BY <1>7, <1>9, CatFacts
  <2>3. (D \o Join(n, p)) \o (E \o J) = D \o (Join(n, p) \o (E \o J))
    <3> DEFINE x == E \o J
               y == Join(n, p)
    <3>1. D \in Seq(Byte) /\ x \in Seq(Byte) /\ y \in Seq(Byte)
      BY <1>7, <1>8, <1>9
    <3> HIDE DEF x, y
    <3>2. (D \o y) \o x = D \o (y \o x)
      BY <3>1, CatAssoc
    <3> QED
      BY <3>2 DEF x, y
  <2>4. ((D \o Join(n, p)) \o E) \o J = (D \o Join(n, p)) \o (E \o J)
    BY <1>7, <2>1, <2>2
  <2> QED
    BY <2>3, <2>4
<1> QED
  BY <1>4, <1>9, <1>10 DEF L, n, m, v, D, p, q, E, J

(* When nothing is left to read, the bytes are the encoding of what was read. *)
LEMMA Completed ==
  ASSUME NEW k, NEW g, NEW P, Stage(k, <<>>, g, <<>>, P)
  PROVE  EncodeFlat(k, Gathered(k, g)) = P
<1> DEFINE L == Layout(k)
<1>1. k \in Kinds /\ P \in Seq(Byte) /\ g \in Seq(Content) /\ LayoutOf(k, L)
  BY LayoutFacts DEF Stage
<1>2. L \in Seq(FieldRecords) /\ Len(L) \in Nat /\ Len(L) # 0
  BY <1>1 DEF LayoutOf
<1>3. ~AtDomain(k, <<>>, g, <<>>, P)
  BY <1>1, DomainFirst
<1>4. CASE AtField(k, <<>>, g, <<>>, P)
  <2>1. /\ Len(g) = Len(L) /\ k \notin SequenceKinds
        /\ BytePieces(Len(g), WrittenFields(k, g))
        /\ P = (EncodeDomain(k) \o Join(Len(g), WrittenFields(k, g))) \o <<>>
    <3>1. Len(g) \in Nat /\ Len(<<>>) = 0
      BY <1>1
    <3>2. 0 = Len(L) - Len(g)
      BY <1>4, <3>1 DEF AtField
    <3>3. Len(g) = Len(L)
      BY <1>2, <3>1, <3>2
    <3> QED
      BY <1>4, <3>3 DEF AtField
  <2>2. EncodeFlat(k, g) = EncodeDomain(k) \o Join(Len(g), WrittenFields(k, g))
    BY <2>1 DEF EncodeFlat, WrittenFields
  <2>3. EncodeDomain(k) \o Join(Len(g), WrittenFields(k, g)) \in Seq(Byte)
    BY <1>1, <2>1, DomainFacts, JoinFacts, CatFacts
  <2>4. Gathered(k, g) = g
    BY <2>1 DEF Gathered
  <2> HIDE DEF L
  <2> QED
    BY <2>1, <2>2, <2>3, <2>4, CatFacts
<1>5. ASSUME NEW h \in Seq(Content), NEW s \in Seq(Seq(Byte)), NEW c \in Nat, g = h \o s,
             AtItem(k, <<>>, h, s, c, <<>>, P)
      PROVE  EncodeFlat(k, Gathered(k, g)) = P
  <2> DEFINE n == Len(h)
  <2>1. n \in Nat /\ Len(s) \in Nat /\ Len(<<>>) = 0
    OBVIOUS
  <2>2. n = Len(L) - 1 /\ k \in SequenceKinds /\ 0 = c - Len(s)
        /\ BytePieces(n, WrittenFields(k, h)) /\ BytePieces(Len(s), WrittenItems(s))
        /\ EncodeUint(c, U32Width) \in Seq(Byte)
        /\ P = (((EncodeDomain(k) \o Join(n, WrittenFields(k, h))) \o EncodeUint(c, U32Width))
                   \o Join(Len(s), WrittenItems(s))) \o <<>>
    BY <1>5, <2>1 DEF AtItem
  <2>3. c = Len(s)
    BY <2>1, <2>2
  <2>4. Gathered(k, g) = Append(h, s)
    <3>1. h \in Seq(Content) /\ s \in Seq(Content)
      <4>1. Seq(Byte) \subseteq Content
        BY DEF Content
      <4> QED
        BY <4>1
    <3>2. SubSeq(h \o s, 1, Len(h)) = h /\ SubSeq(h \o s, Len(h) + 1, Len(h \o s)) = s
      BY <3>1, UnCat
    <3> QED
      BY <1>5, <2>2, <3>2 DEF Gathered
  <2> DEFINE V == ((EncodeDomain(k) \o Join(n, WrittenFields(k, h))) \o EncodeUint(Len(s), U32Width))
                    \o Join(Len(s), WrittenItems(s))
  <2>5. EncodeFlat(k, Append(h, s)) = V
    BY <1>1, <2>2, <2>3, EncodeWithItems
  <2>6. V \in Seq(Byte)
    <3>1. EncodeDomain(k) \in Seq(Byte) /\ Join(n, WrittenFields(k, h)) \in Seq(Byte)
          /\ Join(Len(s), WrittenItems(s)) \in Seq(Byte) /\ EncodeUint(Len(s), U32Width) \in Seq(Byte)
      BY <1>1, <2>2, <2>3, DomainFacts, JoinFacts
    <3> QED
      BY <3>1, CatFacts
  <2>7. P = V \o <<>>
    BY <2>2, <2>3
  <2> HIDE DEF V
  <2>8. V \o <<>> = V
    BY <2>6, CatFacts
  <2> QED
    BY <2>4, <2>5, <2>7, <2>8
<1> QED
  BY <1>3, <1>4, <1>5 DEF Stage

-----------------------------------------------------------------------------
(* What comes next in each stage. *)
LEMMA NextField ==
  ASSUME NEW k \in Kinds, NEW fs \in Seq(FieldRecords), fs # <<>>, NEW g, NEW r, NEW P
  PROVE  /\ AtField(k, fs, g, r, P) => Head(fs).type \in PlainTypes \cup SequenceTypes
         /\ \A h, c : \A s \in Seq(Seq(Byte)) :
              AtItem(k, fs, h, s, c, r, P) =>
                Head(fs) = Item(Layout(k)[Len(Layout(k))]) /\ Head(fs).type \in {"exact", "bytes"}
<1> DEFINE L == Layout(k)
<1>1. LayoutOf(k, L) /\ Len(L) \in Nat
  BY LayoutFacts DEF LayoutOf
<1>2. Len(fs) \in Nat /\ Len(fs) > 0 /\ Head(fs) = fs[1]
  BY HeadFacts
<1>3. ASSUME AtField(k, fs, g, r, P) PROVE Head(fs).type \in PlainTypes \cup SequenceTypes
  <2> DEFINE j == Len(g)
  <2>1. j <= Len(L) /\ Len(fs) = Len(L) - j /\ \A i \in 1..(Len(L) - j) : fs[i] = L[j + i]
    BY <1>3 DEF AtField
  <2>2. 1 \in 1..(Len(L) - j)
    BY <1>2, <2>1
  <2>3. Head(fs) = L[j + 1]
    BY <1>2, <2>1, <2>2
  <2>4. ASSUME j \in Int PROVE j + 1 \in 1..Len(L) \/ j < 0
    BY <1>1, <1>2, <2>1, <2>4
  <2>5. Head(fs) \in FieldRecords
    BY HeadFacts
  <2>6. Head(fs).type # "domain"
    <3>1. j \in Nat
      BY <1>3 DEF AtField, BytePieces
    <3>2. j + 1 \in 1..Len(L)
      BY <2>4, <3>1
    <3>3. L[j + 1].type \in PlainTypes \cup SequenceTypes
      <4>1. CASE j + 1 = Len(L)
        BY <1>1, <4>1 DEF LayoutOf
      <4>2. CASE j + 1 # Len(L)
        BY <1>1, <3>2, <4>2 DEF LayoutOf
      <4> QED
        BY <4>1, <4>2
    <3> QED
      BY <2>3, <3>3 DEF PlainTypes, SequenceTypes
  <2> QED
    BY <2>5, <2>6 DEF FieldRecords
<1>4. ASSUME NEW h, NEW c, NEW s \in Seq(Seq(Byte)), AtItem(k, fs, h, s, c, r, P)
      PROVE  Head(fs) = Item(L[Len(L)]) /\ Head(fs).type \in {"exact", "bytes"}
  <2> DEFINE m == Len(s)
  <2>1. /\ c \in Nat /\ m \in Nat /\ Len(fs) = c - m
        /\ \A i \in 1..(c - m) : fs[i] = Item(L[(Len(L) - 1) + 1])
    BY <1>4 DEF AtItem
  <2>2. 1 \in 1..(c - m) /\ (Len(L) - 1) + 1 = Len(L)
    BY <1>1, <1>2, <2>1
  <2>3. Head(fs) = Item(L[Len(L)])
    BY <1>2, <2>1, <2>2
  <2>4. Item(L[Len(L)]).type \in {"exact", "bytes"}
    BY DEF Item, Field
  <2> QED
    BY <2>3, <2>4
<1> QED
  BY <1>3, <1>4

LEMMA ReadUintStage ==
  ASSUME NEW P, Stage(current, fields, got, rest, P), ReadUint
  PROVE  Stage(current', fields', got', rest', P) /\ current' = current
<1> DEFINE f == Head(fields)
           w == f.size
           v == DecodeUint(Take(w))
           t == Leave(w)
<1>1. /\ current \in Kinds /\ rest \in Seq(Byte) /\ P \in Seq(Byte)
      /\ fields \in Seq(FieldRecords) /\ got \in Seq(Content)
  BY DEF Stage
<1>2. fields # <<>> /\ f.type = "uint" /\ Len(rest) >= w
  BY DEF ReadUint, Expects, HasUint
<1>3. current' = current /\ got' = Append(got, v) /\ rest' = t /\ fields' = Tail(fields)
  BY DEF ReadUint, Got
<1>4. f \in FieldRecords /\ Tail(fields) \in Seq(FieldRecords)
  BY <1>1, <1>2, HeadFacts
<1>5. w \in Nat
  BY <1>4 DEF FieldRecords
<1>6. /\ v \in Nat /\ EncodeUint(v, w) \in Seq(Byte)
      /\ t \in Seq(Byte) /\ rest = EncodeUint(v, w) \o t
  <2> HIDE DEF w
  <2> QED
    BY <1>1, <1>2, <1>5, UintRead DEF Take, Leave
<1>7. EncodeField(f, v) = EncodeUint(v, w)
  BY <1>2 DEF EncodeField
<1>8. AtField(current, fields, got, rest, P)
  <2>1. ~AtDomain(current, fields, got, rest, P)
    BY <1>1, <1>2, DomainFirst
  <2>2. \A h, c : \A s \in Seq(Seq(Byte)) : ~AtItem(current, fields, h, s, c, rest, P)
    BY <1>1, <1>2, NextField
  <2> QED
    BY <2>1, <2>2 DEF Stage
<1>9. v \in Content
  BY <1>6 DEF Content
<1> HIDE DEF w, v, t
<1>10. AtField(current, Tail(fields), Append(got, v), t, P)
  <2>1. f.type \in PlainTypes
    BY <1>2 DEF PlainTypes
  <2>2. EncodeField(f, v) \in Seq(Byte) /\ rest = EncodeField(f, v) \o t
    BY <1>6, <1>7
  <2> QED
    BY <1>1, <1>2, <1>6, <1>8, <1>9, <2>1, <2>2, FieldRead
<1>11. Append(got, v) \in Seq(Content)
  BY <1>1, <1>9
<1> QED
  BY <1>1, <1>3, <1>4, <1>6, <1>10, <1>11 DEF Stage

LEMMA ReadCountStage ==
  ASSUME NEW P, Stage(current, fields, got, rest, P), ReadCount
  PROVE  Stage(current', fields', got', rest', P) /\ current' = current
<1> DEFINE f == Head(fields)
           c == Length
           t == Leave(U32Width)
           items == [i \in 1..c |-> Item(f)]
<1>1. /\ current \in Kinds /\ rest \in Seq(Byte) /\ P \in Seq(Byte)
      /\ fields \in Seq(FieldRecords) /\ got \in Seq(Content)
  BY DEF Stage
<1>2. fields # <<>> /\ f.type \in SequenceTypes /\ Len(rest) >= U32Width
  BY DEF ReadCount, Expects, HasCount, HasUint, SequenceTypes
<1>3. current' = current /\ got' = got /\ rest' = t /\ fields' = items \o Tail(fields)
  BY DEF ReadCount
<1>4. f \in FieldRecords /\ Tail(fields) \in Seq(FieldRecords)
  BY <1>1, <1>2, HeadFacts
<1>5. /\ c \in Nat /\ EncodeUint(c, U32Width) \in Seq(Byte)
      /\ t \in Seq(Byte) /\ rest = EncodeUint(c, U32Width) \o t
  BY <1>1, <1>2, UintRead, WidthsFacts DEF Take, Leave, Length
<1>6. AtField(current, fields, got, rest, P)
  <2>1. ~AtDomain(current, fields, got, rest, P)
    BY <1>1, <1>2, DomainFirst DEF SequenceTypes
  <2>2. \A h, n : \A s \in Seq(Seq(Byte)) : ~AtItem(current, fields, h, s, n, rest, P)
    BY <1>1, <1>2, NextField DEF SequenceTypes
  <2> QED
    BY <2>1, <2>2 DEF Stage
<1> HIDE DEF c, t
<1>7. AtItem(current, items \o Tail(fields), got, <<>>, c, t, P) /\ Tail(fields) = <<>>
  BY <1>1, <1>2, <1>5, <1>6, CountRead
<1>8. items \o Tail(fields) \in Seq(FieldRecords)
  <2>1. Item(f) \in FieldRecords
    BY <1>4 DEF Item, Field, FieldRecords, PlainTypes
  <2>2. items \in Seq(FieldRecords)
    BY <1>5, <2>1
  <2> HIDE DEF items
  <2> QED
    BY <1>4, <2>2
<1>9. got = got \o <<>> /\ <<>> \in Seq(Seq(Byte))
  BY <1>1
<1> HIDE DEF items
<1>10. \E h \in Seq(Content), s \in Seq(Seq(Byte)), n \in Nat :
         got' = h \o s /\ AtItem(current, items \o Tail(fields), h, s, n, t, P)
  BY <1>1, <1>3, <1>5, <1>7, <1>9
<1> QED
  BY <1>1, <1>3, <1>5, <1>8, <1>10 DEF Stage

LEMMA ReadBytesStage ==
  ASSUME NEW P, Stage(current, fields, got, rest, P), ReadBytes
  PROVE  Stage(current', fields', got', rest', P) /\ current' = current
<1> DEFINE f == Head(fields)
           n == Length
           s == NextBytes
           t == Leave(U32Width + Length)
           v == IF f.type = "number" THEN DecodeUint(s) ELSE s
<1>1. /\ current \in Kinds /\ rest \in Seq(Byte) /\ P \in Seq(Byte)
      /\ fields \in Seq(FieldRecords) /\ got \in Seq(Content)
  BY DEF Stage
<1>2. /\ fields # <<>> /\ f.type \in {"domain", "bytes", "exact", "number", "text"}
      /\ HasBytes(f.size) /\ Proper(f, s)
  BY DEF ReadBytes, Expects
<1>3. /\ current' = current /\ rest' = t /\ fields' = Tail(fields)
      /\ got' = IF f.type = "domain" THEN got ELSE Append(got, v)
  BY <1>2 DEF ReadBytes
<1>4. f \in FieldRecords /\ Tail(fields) \in Seq(FieldRecords)
  BY <1>1, <1>2, HeadFacts
<1>5. /\ s \in Seq(Byte) /\ Len(s) = n /\ t \in Seq(Byte)
      /\ EncodeBytes(s) \in Seq(Byte) /\ rest = EncodeBytes(s) \o t
  <2>1. n = DecodeUint(SubSeq(rest, 1, U32Width)) /\ U32Width \in Nat
    BY WidthsFacts DEF Length, Take
  <2>2. U32Width <= Len(rest) /\ n <= Len(rest) - U32Width
    BY <1>2, <2>1 DEF HasBytes, HasUint
  <2>3. n \in Nat
    BY <1>1, <2>1, <2>2, UintRead
  <2>4. s = SubSeq(rest, U32Width + 1, U32Width + n) /\ t = SubSeq(rest, U32Width + n + 1, Len(rest))
    BY DEF NextBytes, Leave
  <2> HIDE DEF n, s, t
  <2> QED
    BY <1>1, <2>1, <2>2, <2>3, <2>4, BytesRead
<1> HIDE DEF n, s, t
<1>6. CASE f.type = "domain"
  <2>1. AtDomain(current, fields, got, rest, P)
    <3>1. ~AtField(current, fields, got, rest, P)
      BY <1>1, <1>2, <1>6, NextField DEF PlainTypes, SequenceTypes
    <3>2. \A h, c : \A u \in Seq(Seq(Byte)) : ~AtItem(current, fields, h, u, c, rest, P)
      BY <1>1, <1>2, <1>6, NextField
    <3> QED
      BY <3>1, <3>2 DEF Stage
  <2>2. s = Domain[current]
    BY <1>2, <1>6 DEF Proper
  <2>3. AtField(current, Tail(fields), got, t, P)
    BY <1>1, <1>5, <2>1, <2>2, DomainRead
  <2> QED
    BY <1>1, <1>3, <1>4, <1>5, <1>6, <2>3 DEF Stage
<1>7. CASE f.type # "domain"
  <2>1. EncodeField(f, v) = EncodeBytes(s) /\ v \in Content
    <3>1. CASE f.type \in {"bytes", "exact"}
      BY <1>5, <3>1 DEF EncodeField, Content
    <3>2. CASE f.type = "number"
      <4>1. EncodeField(f, v) = EncodeBytes(EncodeUint(DecodeUint(s), f.size))
        BY <3>2 DEF EncodeField
      <4>2. Len(s) = f.size
        BY <1>2, <3>2 DEF Proper
      <4>3. DecodeUint(s) \in Nat /\ EncodeUint(DecodeUint(s), f.size) = s
        BY <1>5, <4>2, NumbersAreCanonical
      <4> QED
        BY <3>2, <4>1, <4>3 DEF Content
    <3>3. CASE f.type = "text"
      <4>1. EncodeField(f, v) = EncodeText(s)
        BY <3>3 DEF EncodeField
      <4>2. Nfc[s] = s
        BY <1>2, <3>3 DEF Proper
      <4> QED
        BY <1>5, <3>3, <4>1, <4>2 DEF EncodeText, Content
    <3> QED
      BY <1>2, <1>7, <3>1, <3>2, <3>3
  <2>2. ~AtDomain(current, fields, got, rest, P)
    BY <1>1, <1>2, <1>7, DomainFirst
  <2>3. CASE AtField(current, fields, got, rest, P)
    <3>1. f.type \in PlainTypes
      BY <1>2, <1>7 DEF PlainTypes
    <3>2. EncodeField(f, v) \in Seq(Byte) /\ rest = EncodeField(f, v) \o t
      BY <1>5, <2>1
    <3> HIDE DEF v
    <3>3. AtField(current, Tail(fields), Append(got, v), t, P)
      BY <1>1, <1>2, <1>5, <2>1, <2>3, <3>1, <3>2, FieldRead
    <3>4. Append(got, v) \in Seq(Content)
      BY <1>1, <2>1
    <3> QED
      BY <1>1, <1>3, <1>4, <1>5, <1>7, <3>3, <3>4 DEF Stage
  <2>4. ASSUME NEW h \in Seq(Content), NEW u \in Seq(Seq(Byte)), NEW c \in Nat, got = h \o u,
               AtItem(current, fields, h, u, c, rest, P)
        PROVE  Stage(current', fields', got', rest', P)
    <3>1. f.type \in {"exact", "bytes"}
      BY <1>1, <1>2, <2>4, NextField
    <3>2. v = s
      BY <3>1
    <3>3. AtItem(current, Tail(fields), h, Append(u, s), c, t, P)
      BY <1>1, <1>2, <1>5, <2>4, ItemRead
    <3>4. Append(got, v) = h \o Append(u, s) /\ Append(u, s) \in Seq(Seq(Byte))
      <4>1. u \in Seq(Content) /\ s \in Content
        <5>1. Seq(Byte) \subseteq Content
          BY DEF Content
        <5> QED
          BY <1>5, <5>1
      <4>2. Append(h \o u, s) = h \o Append(u, s)
        <5>1. h \in Seq(Content)
          BY <2>4
        <5> QED
          BY <4>1, <5>1, AppendCat
      <4>3. Append(u, s) \in Seq(Seq(Byte))
        BY <1>5
      <4> QED
        BY <2>4, <3>2, <4>2, <4>3
    <3>5. Append(got, v) \in Seq(Content)
      BY <1>1, <2>1
    <3> HIDE DEF v
    <3> QED
      BY <1>1, <1>3, <1>4, <1>5, <1>7, <3>3, <3>4, <3>5 DEF Stage
  <2> QED
    BY <1>3, <2>2, <2>3, <2>4 DEF Stage
<1> QED
  BY <1>3, <1>6, <1>7

-----------------------------------------------------------------------------
(* The normal form, letter after letter. *)
Composing(done, letter) ==
  IF letter = Combining /\ done # <<>> /\ Last(done) = Letter
    THEN Append(Front(done), Composed)
    ELSE Append(done, letter)

Normalizing(s, d) ==
  /\ d \in [0..Len(s) -> Seq(Byte)] /\ d[0] = <<>>
  /\ \A i \in 1..Len(s) : d[i] = Composing(d[i - 1], s[i])

(* No letter stands before a mark. *)
IsNormal(t) == \A i \in 1..Len(t) : i + 1 <= Len(t) => ~(t[i] = Letter /\ t[i + 1] = Combining)

LEMMA Letters == {Malformed, Letter, Composed, Combining} \subseteq Byte
BY ByteFacts DEF Byte, Malformed, Letter, Composed, Combining

LEMMA FrontFacts ==
  ASSUME NEW s \in Seq(Byte), s # <<>>
  PROVE  /\ Front(s) \in Seq(Byte) /\ Len(Front(s)) = Len(s) - 1
         /\ \A i \in 1..(Len(s) - 1) : Front(s)[i] = s[i]
         /\ Last(s) = s[Len(s)] /\ Len(s) \in Nat /\ Len(s) >= 1
<1>1. Len(s) \in Nat /\ Len(s) >= 1
  OBVIOUS
<1>2. Front(s) \in Seq(Byte)
  BY <1>1 DEF Front
<1>3. Len(Front(s)) = Len(s) - 1
  <2>1. \A m \in Nat : m <= Len(s) => Len(SubSeq(s, 1, m)) = m
    OBVIOUS
  <2>2. Len(s) - 1 \in Nat /\ Len(s) - 1 <= Len(s)
    BY <1>1
  <2>3. Front(s) = SubSeq(s, 1, Len(s) - 1)
    BY DEF Front
  <2> QED
    BY <2>1, <2>2, <2>3
<1>4. \A i \in 1..(Len(s) - 1) : Front(s)[i] = s[i]
  BY <1>1 DEF Front
<1>5. Last(s) = s[Len(s)]
  BY DEF Last
<1> QED
  BY <1>1, <1>2, <1>3, <1>4, <1>5

LEMMA ComposingFacts ==
  ASSUME NEW done \in Seq(Byte), NEW letter \in Byte
  PROVE  /\ Composing(done, letter) \in Seq(Byte)
         /\ IsNormal(done) => IsNormal(Composing(done, letter))
         /\ (\A i \in 1..Len(done) : done[i] # Malformed) /\ letter # Malformed =>
              \A i \in 1..Len(Composing(done, letter)) : Composing(done, letter)[i] # Malformed
<1> DEFINE n == Len(done)
<1>1. n \in Nat /\ \A i \in 1..n : done[i] \in Byte
  OBVIOUS
<1>2. CASE letter = Combining /\ done # <<>> /\ Last(done) = Letter
  <2> DEFINE u == Front(done)
             t == Append(u, Composed)
  <2>1. /\ u \in Seq(Byte) /\ Len(u) = n - 1 /\ n >= 1
        /\ \A i \in 1..(n - 1) : u[i] = done[i]
    BY <1>2, FrontFacts
  <2>2. Composing(done, letter) = t
    BY <1>2 DEF Composing
  <2> HIDE DEF u
  <2>3. t \in Seq(Byte) /\ Len(t) = n /\ t[n] = Composed /\ \A i \in 1..(n - 1) : t[i] = done[i]
    <3>1. Composed \in Byte
      BY Letters
    <3>2. t \in Seq(Byte) /\ Len(t) = Len(u) + 1 /\ t[Len(u) + 1] = Composed
          /\ \A i \in 1..Len(u) : t[i] = u[i]
      BY <2>1, <3>1, AddedFacts
    <3>3. Len(u) + 1 = n
      BY <1>1, <2>1
    <3> HIDE DEF t
    <3> QED
      BY <2>1, <3>2, <3>3
  <2> HIDE DEF t, n
  <2>4. IsNormal(done) => IsNormal(t)
    <3> SUFFICES ASSUME IsNormal(done), NEW i \in 1..Len(t), i + 1 <= Len(t)
                 PROVE  ~(t[i] = Letter /\ t[i + 1] = Combining)
      BY DEF IsNormal
    <3>1. CASE i + 1 = n
      BY <2>3, <3>1 DEF Composed, Combining
    <3>2. CASE i + 1 # n
      <4>1. i \in 1..n /\ i + 1 <= n /\ i \in 1..(n - 1) /\ i + 1 \in 1..(n - 1)
        BY <1>1, <2>3, <3>2
      <4>2. ~(done[i] = Letter /\ done[i + 1] = Combining)
        BY <4>1 DEF IsNormal, n
      <4> QED
        BY <2>3, <4>1, <4>2
    <3> QED
      BY <3>1, <3>2
  <2>5. (\A i \in 1..n : done[i] # Malformed) => \A i \in 1..n : t[i] # Malformed
    <3> SUFFICES ASSUME \A i \in 1..n : done[i] # Malformed, NEW i \in 1..n PROVE t[i] # Malformed
      OBVIOUS
    <3>1. CASE i = n
      BY <2>3, <3>1 DEF Composed, Malformed
    <3>2. CASE i # n
      <4>1. i \in 1..(n - 1)
        BY <1>1, <3>2
      <4> QED
        BY <2>3, <4>1
    <3> QED
      BY <3>1, <3>2
  <2> QED
    BY <2>2, <2>3, <2>4, <2>5 DEF n
<1>3. CASE ~(letter = Combining /\ done # <<>> /\ Last(done) = Letter)
  <2> DEFINE t == Append(done, letter)
  <2>1. Composing(done, letter) = t
    BY <1>3 DEF Composing
  <2>2. t \in Seq(Byte) /\ Len(t) = n + 1 /\ t[n + 1] = letter /\ \A i \in 1..n : t[i] = done[i]
    BY AddedFacts
  <2>3. n >= 1 => ~(done[n] = Letter /\ letter = Combining)
    <3> SUFFICES ASSUME n >= 1 PROVE ~(done[n] = Letter /\ letter = Combining)
      OBVIOUS
    <3>1. done # <<>>
      OBVIOUS
    <3>2. Last(done) = done[n]
      BY <3>1, FrontFacts
    <3> QED
      BY <1>3, <3>1, <3>2
  <2> HIDE DEF t, n
  <2>4. IsNormal(done) => IsNormal(t)
    <3> SUFFICES ASSUME IsNormal(done), NEW i \in 1..Len(t), i + 1 <= Len(t)
                 PROVE  ~(t[i] = Letter /\ t[i + 1] = Combining)
      BY DEF IsNormal
    <3>1. CASE i = n
      BY <1>1, <2>2, <2>3, <3>1
    <3>2. CASE i # n
      <4>1. i \in 1..n /\ i + 1 <= n /\ i + 1 \in 1..n
        BY <1>1, <2>2, <3>2
      <4>2. ~(done[i] = Letter /\ done[i + 1] = Combining)
        BY <4>1 DEF IsNormal, n
      <4> QED
        BY <2>2, <4>1, <4>2
    <3> QED
      BY <3>1, <3>2
  <2>5. (\A i \in 1..n : done[i] # Malformed) /\ letter # Malformed => \A i \in 1..(n + 1) : t[i] # Malformed
    <3>1. \A i \in 1..(n + 1) : i \in 1..n \/ i = n + 1
      BY <1>1
    <3> QED
      BY <2>2, <3>1
  <2> QED
    BY <2>1, <2>2, <2>4, <2>5 DEF n
<1> QED
  BY <1>2, <1>3

LEMMA NormalSteps ==
  ASSUME NEW s \in Seq(Byte)
  PROVE  \E d : Normalizing(s, d) /\ Nfc[s] = d[Len(s)]
<1> DEFINE n == Len(s)
           F == [y \in Seq(Byte) \X (1..n) |-> Composing(y[1], s[y[2]])]
           Body(g, i) ==
             IF i = 0 THEN <<>>
             ELSE LET done == g[i - 1]
                  IN  IF s[i] = Combining /\ done # <<>> /\ Last(done) = Letter
                        THEN Append(Front(done), Composed)
                        ELSE Append(done, s[i])
<1>1. n \in Nat /\ \A i \in 1..n : s[i] \in Byte
  OBVIOUS
<1>2. F \in [Seq(Byte) \X (1..n) -> Seq(Byte)]
  <2>1. \A x \in Seq(Byte), i \in 1..n : Composing(x, s[i]) \in Seq(Byte)
    BY <1>1, ComposingFacts
  <2> QED
    BY <2>1
<1>3. \A x \in Seq(Byte), i \in 1..n : F[<<x, i>>] = Composing(x, s[i])
  OBVIOUS
<1> HIDE DEF F
<1>4. PICK d : Iteration(Seq(Byte), <<>>, n, F, d)
  <2>1. Steps(Seq(Byte), <<>>, n, F)
    BY <1>1, <1>2, CatFacts DEF Steps
  <2> HIDE DEF n
  <2> QED
    BY <2>1, Iterates
<1>5. d \in [0..n -> Seq(Byte)] /\ d[0] = <<>> /\ \A i \in 1..n : d[i] = F[<<d[i - 1], i>>]
  BY <1>4 DEF Iteration
<1>6. \A i \in 1..n : d[i] = Composing(d[i - 1], s[i])
  <2> SUFFICES ASSUME NEW i \in 1..n PROVE d[i] = Composing(d[i - 1], s[i])
    OBVIOUS
  <2>1. d[i - 1] \in Seq(Byte)
    BY <1>1, <1>5
  <2> QED
    BY <1>3, <1>5, <2>1
<1> HIDE DEF n
<1>7. d = [i \in 0..n |-> Body(d, i)]
  <2>1. \A i \in 0..n : d[i] = Body(d, i)
    <3>1. \A i \in 0..n : i = 0 \/ i \in 1..n
      BY <1>1
    <3>2. \A i \in 1..n : i # 0 /\ d[i] = Body(d, i)
      <4> SUFFICES ASSUME NEW i \in 1..n PROVE i # 0 /\ d[i] = Body(d, i)
        OBVIOUS
      <4>1. i # 0 /\ d[i] = Composing(d[i - 1], s[i])
        BY <1>1, <1>6
      <4> QED
        BY <4>1 DEF Composing
    <3>3. d[0] = Body(d, 0)
      BY <1>5
    <3> HIDE DEF Body
    <3> QED
      BY <3>1, <3>2, <3>3
  <2> HIDE DEF Body
  <2> QED
    BY <1>5, <2>1
<1>8. PICK c : c = [i \in 0..n |-> Body(c, i)] /\ Nfc[s] = c[n]
  <2>1. \E c : c = [i \in 0..Len(s) |-> Body(c, i)]
    BY <1>7 DEF n
  <2>2. \E c : c = [i \in 0..Len(s) |-> Body(c, i)] /\ Nfc[s] = c[Len(s)]
    BY <2>1, Zenon DEF Nfc
  <2> QED
    BY <2>2 DEF n
<1>9. \A i \in 0..n : c[i] = Body(c, i)
  <2> HIDE DEF Body
  <2> QED
    BY <1>8
<1>10. 0..n \subseteq {i \in 0..n : c[i] = d[i]}
  <2> DEFINE H == {i \in 0..n : c[i] = d[i]}
  <2>1. 0 \in H
    BY <1>1, <1>5, <1>9
  <2>2. ASSUME NEW k \in 0..n, k \in H, k + 1 <= n PROVE k + 1 \in H
    <3>1. k + 1 \in 1..n /\ (k + 1) - 1 = k /\ k + 1 # 0 /\ k + 1 \in 0..n
      BY <1>1, <2>2
    <3>2. c[k + 1] = Composing(c[k], s[k + 1])
      <4>1. c[k + 1] = Body(c, k + 1)
        BY <1>9, <3>1
      <4> QED
        BY <3>1, <4>1 DEF Composing
    <3>3. d[k + 1] = Composing(d[k], s[k + 1])
      BY <1>6, <3>1
    <3> QED
      BY <2>2, <3>1, <3>2, <3>3
  <2> HIDE DEF H
  <2>3. 0..n \subseteq H
    BY <1>1, <2>1, <2>2, Upward
  <2> QED
    BY <2>3 DEF H
<1>11. d[n] = Nfc[s]
  BY <1>1, <1>8, <1>10
<1> QED
  BY <1>5, <1>6, <1>11 DEF Normalizing, n

(* A normal form is one: of bytes, normal, without the malformed byte that the text
   had not, and its own normal form. *)
LEMMA NormalFacts ==
  ASSUME NEW s \in Seq(Byte)
  PROVE  /\ Nfc[s] \in Seq(Byte) /\ IsNormal(Nfc[s])
         /\ Utf8(s) => Utf8(Nfc[s])
         /\ IsNormal(s) => Nfc[s] = s
<1> DEFINE n == Len(s)
           Clean(t) == \A j \in 1..Len(t) : t[j] # Malformed
<1>1. PICK d : Normalizing(s, d) /\ Nfc[s] = d[n]
  BY NormalSteps
<1>2. n \in Nat /\ \A i \in 1..n : s[i] \in Byte
  OBVIOUS
<1>3. \A t \in Seq(Byte) : Utf8(t) <=> Clean(t)
  BY DEF Utf8, Range
<1> HIDE DEF n, Clean
<1>4. /\ d \in [0..n -> Seq(Byte)] /\ d[0] = <<>>
      /\ \A i \in 1..n : d[i] = Composing(d[i - 1], s[i])
  BY <1>1 DEF Normalizing, n
<1>5. \A i \in 1..n : i - 1 \in 0..n /\ i \in 0..n /\ d[i - 1] \in Seq(Byte)
  BY <1>2, <1>4
<1>6. IsNormal(d[n])
  <2> DEFINE H == {i \in 0..n : IsNormal(d[i])}
  <2>1. 0 \in H
    BY <1>2, <1>4 DEF IsNormal
  <2>2. ASSUME NEW k \in 0..n, k \in H, k + 1 <= n PROVE k + 1 \in H
    <3>1. k + 1 \in 1..n /\ (k + 1) - 1 = k
      BY <1>2, <2>2
    <3>2. d[k + 1] = Composing(d[k], s[k + 1]) /\ d[k] \in Seq(Byte) /\ s[k + 1] \in Byte /\ k + 1 \in 0..n
      BY <1>2, <1>4, <1>5, <3>1
    <3>3. IsNormal(d[k + 1])
      BY <2>2, <3>2, ComposingFacts
    <3> QED
      BY <3>2, <3>3
  <2> HIDE DEF H
  <2>3. 0..n \subseteq H
    BY <1>2, <2>1, <2>2, Upward
  <2>4. n \in H
    BY <1>2, <2>3
  <2> QED
    BY <2>4 DEF H
<1>7. ASSUME Clean(s) PROVE Clean(d[n])
  <2> DEFINE H == {i \in 0..n : Clean(d[i])}
  <2>1. 0 \in H
    BY <1>2, <1>4 DEF Clean
  <2>2. ASSUME NEW k \in 0..n, k \in H, k + 1 <= n PROVE k + 1 \in H
    <3>1. k + 1 \in 1..n /\ (k + 1) - 1 = k
      BY <1>2, <2>2
    <3>2. d[k + 1] = Composing(d[k], s[k + 1]) /\ d[k] \in Seq(Byte) /\ s[k + 1] \in Byte /\ k + 1 \in 0..n
      BY <1>2, <1>4, <1>5, <3>1
    <3>3. s[k + 1] # Malformed
      BY <1>7, <3>1 DEF Clean, n
    <3>4. Clean(d[k + 1])
      BY <2>2, <3>2, <3>3, ComposingFacts DEF Clean
    <3> QED
      BY <3>2, <3>4
  <2> HIDE DEF H
  <2>3. 0..n \subseteq H
    BY <1>2, <2>1, <2>2, Upward
  <2>4. n \in H
    BY <1>2, <2>3
  <2> QED
    BY <2>4 DEF H
<1>8. ASSUME IsNormal(s) PROVE d[n] = s
  <2> DEFINE H == {i \in 0..n : Len(d[i]) = i /\ \A j \in 1..i : d[i][j] = s[j]}
  <2>1. 0 \in H
    BY <1>2, <1>4
  <2>2. ASSUME NEW k \in 0..n, k \in H, k + 1 <= n PROVE k + 1 \in H
    <3>1. k + 1 \in 1..n /\ (k + 1) - 1 = k /\ k + 1 \in 0..n /\ k \in Nat
      BY <1>2, <2>2
    <3>2. d[k + 1] = Composing(d[k], s[k + 1]) /\ d[k] \in Seq(Byte) /\ s[k + 1] \in Byte
      BY <1>2, <1>4, <1>5, <3>1
    <3>3. Len(d[k]) = k /\ \A j \in 1..k : d[k][j] = s[j]
      BY <2>2
    <3>4. d[k + 1] = Append(d[k], s[k + 1])
      <4>1. ~(s[k + 1] = Combining /\ d[k] # <<>> /\ Last(d[k]) = Letter)
        <5> SUFFICES ASSUME s[k + 1] = Combining, d[k] # <<>>, Last(d[k]) = Letter PROVE FALSE
          OBVIOUS
        <5>1. k >= 1 /\ Last(d[k]) = d[k][k]
          BY <3>2, <3>3, FrontFacts
        <5>2. s[k] = Letter
          BY <3>1, <3>3, <5>1
        <5>3. k \in 1..Len(s) /\ k + 1 <= Len(s)
          BY <3>1, <5>1 DEF n
        <5> QED
          BY <1>8, <5>2, <5>3 DEF IsNormal
      <4> QED
        BY <3>2, <4>1 DEF Composing
    <3>5. /\ Len(d[k + 1]) = k + 1 /\ d[k + 1][k + 1] = s[k + 1]
          /\ \A j \in 1..k : d[k + 1][j] = s[j]
      BY <3>2, <3>3, <3>4, AddedFacts
    <3>6. \A j \in 1..(k + 1) : j \in 1..k \/ j = k + 1
      BY <3>1
    <3> QED
      BY <3>1, <3>5, <3>6
  <2> HIDE DEF H
  <2>3. 0..n \subseteq H
    BY <1>2, <2>1, <2>2, Upward
  <2>4. n \in H
    BY <1>2, <2>3
  <2>5. Len(d[n]) = n /\ \A j \in 1..n : d[n][j] = s[j]
    BY <2>4 DEF H
  <2>6. d[n] \in Seq(Byte)
    BY <1>2, <1>4
  <2> QED
    BY <2>5, <2>6, SameEntries DEF n
<1>9. d[n] \in Seq(Byte)
  BY <1>2, <1>4
<1> QED
  BY <1>1, <1>3, <1>6, <1>7, <1>8, <1>9

-----------------------------------------------------------------------------
(* What is encodable is encoded in bytes. *)
Prefixable(s) == s \in Seq(Byte) /\ FitsWidth(Len(s), U32Width)

LEMMA PrefixableFacts ==
  ASSUME NEW s, Prefixable(s)
  PROVE  /\ EncodeUint(Len(s), U32Width) \in Seq(Byte)
         /\ Len(EncodeUint(Len(s), U32Width)) = U32Width
         /\ DecodeUint(EncodeUint(Len(s), U32Width)) = Len(s)
         /\ EncodeBytes(s) \in Seq(Byte)
         /\ EncodeBytes(s) = EncodeUint(Len(s), U32Width) \o s
<1>1. U32Width \in Nat /\ FitsWidth(Len(s), U32Width) /\ s \in Seq(Byte)
  BY WidthsFacts DEF Prefixable
<1>2. /\ EncodeUint(Len(s), U32Width) \in Seq(Byte)
      /\ Len(EncodeUint(Len(s), U32Width)) = U32Width
      /\ DecodeUint(EncodeUint(Len(s), U32Width)) = Len(s)
  BY <1>1, FitsFacts
<1>3. EncodeBytes(s) = EncodeUint(Len(s), U32Width) \o s
  BY DEF EncodeBytes
<1> QED
  BY <1>1, <1>2, <1>3, CatFacts

(* The lengths and counts of a field fit a prefix. *)
Measured(f) ==
  /\ f \in FieldRecords /\ f.type # "domain"
  /\ \A n \in 0..f.size \cup 0..f.items : FitsWidth(n, U32Width)

LEMMA LayoutMeasured ==
  ASSUME NEW k \in Kinds, NEW i \in 1..Len(Layout(k))
  PROVE  Measured(Layout(k)[i])
<1> DEFINE L == Layout(k)
<1>1. LayoutOf(k, L)
  BY LayoutFacts
<1>2. L \in Seq(FieldRecords) /\ i \in DOMAIN L
  BY <1>1 DEF LayoutOf
<1>3. L[i] \in FieldRecords
  BY <1>2
<1>4. \A n \in 0..L[i].size \cup 0..L[i].items : FitsWidth(n, U32Width)
  BY <1>2, LimitsFit DEF LimitsFit
<1>5. L[i].type # "domain"
  <2>1. CASE i = Len(L)
    BY <1>1, <2>1 DEF LayoutOf, PlainTypes, SequenceTypes
  <2>2. CASE i # Len(L)
    BY <1>1, <2>2 DEF LayoutOf, PlainTypes
  <2> QED
    BY <2>1, <2>2
<1> QED
  BY <1>3, <1>4, <1>5 DEF Measured

(* What a plain field of bytes holds once it is written, and what is read. *)
Normalized(f, v) == IF f.type = "text" THEN Nfc[v] ELSE v
Inside(f, v) == IF f.type = "number" THEN EncodeUint(v, f.size) ELSE Normalized(f, v)

LEMMA InsideFacts ==
  ASSUME NEW f, Measured(f), NEW v, Encodable(f, v),
         f.type \in {"bytes", "exact", "number", "text"}
  PROVE  /\ Prefixable(Inside(f, v)) /\ Len(Inside(f, v)) <= f.size
         /\ EncodeField(f, v) = EncodeBytes(Inside(f, v))
<1> DEFINE s == Inside(f, v)
<1>1. f.size \in Nat /\ \A n \in 0..f.size : FitsWidth(n, U32Width)
  BY DEF Measured, FieldRecords
<1>2. s \in Seq(Byte) /\ Len(s) <= f.size /\ EncodeField(f, v) = EncodeBytes(s)
  <2>1. CASE f.type \in {"bytes", "exact"}
    <3>1. s = v /\ EncodeField(f, v) = EncodeBytes(v)
      BY <2>1 DEF Inside, Normalized, EncodeField
    <3>2. v \in Seq(Byte) /\ (Len(v) <= f.size \/ Len(v) = f.size)
      BY <2>1 DEF Encodable
    <3> QED
      BY <1>1, <3>1, <3>2
  <2>2. CASE f.type = "number"
    <3>1. s = EncodeUint(v, f.size) /\ EncodeField(f, v) = EncodeBytes(s)
      BY <2>2 DEF Inside, EncodeField
    <3>2. FitsWidth(v, f.size)
      BY <2>2 DEF Encodable
    <3>3. s \in Seq(Byte) /\ Len(s) = f.size
      BY <1>1, <3>1, <3>2, FitsFacts
    <3> QED
      BY <1>1, <3>1, <3>3
  <2>3. CASE f.type = "text"
    <3>1. s = Nfc[v] /\ EncodeField(f, v) = EncodeText(v) /\ EncodeText(v) = EncodeBytes(Nfc[v])
      BY <2>3 DEF Inside, Normalized, EncodeField, EncodeText
    <3>2. v \in Seq(Byte) /\ Len(Nfc[v]) <= f.size
      BY <2>3 DEF Encodable
    <3>3. Nfc[v] \in Seq(Byte)
      BY <3>2, NormalFacts
    <3> QED
      BY <3>1, <3>2, <3>3
  <2> QED
    BY <2>1, <2>2, <2>3
<1>3. Len(s) \in 0..f.size
  BY <1>1, <1>2
<1> QED
  BY <1>1, <1>2, <1>3 DEF Prefixable

(* The items of a sequence. *)
LEMMA ItemsFacts ==
  ASSUME NEW f, Measured(f), NEW v, Encodable(f, v), f.type \in SequenceTypes
  PROVE  /\ v \in Seq(Seq(Byte)) /\ Len(v) \in Nat
         /\ Len(v) <= f.items /\ (f.type = "hashes" => Len(v) > 0)
         /\ \A i \in 1..Len(v) : Encodable(Item(f), v[i]) /\ Prefixable(v[i])
         /\ EncodeUint(Len(v), U32Width) \in Seq(Byte)
         /\ Len(EncodeUint(Len(v), U32Width)) = U32Width
         /\ DecodeUint(EncodeUint(Len(v), U32Width)) = Len(v)
         /\ BytePieces(Len(v), WrittenItems(v))
         /\ EncodeField(f, v) = EncodeUint(Len(v), U32Width) \o Join(Len(v), WrittenItems(v))
<1> USE DEF SequenceTypes
<1>1. f.size \in Nat /\ f.items \in Nat
      /\ \A n \in 0..f.size \cup 0..f.items : FitsWidth(n, U32Width)
  BY DEF Measured, FieldRecords
<1>2. /\ Len(v) <= f.items /\ (f.type = "hashes" => v # <<>>) /\ v \in Seq(Seq(Byte))
      /\ \A i \in DOMAIN v :
           IF f.type = "hashes" THEN Len(v[i]) = f.size ELSE Len(v[i]) <= f.size
  BY DEF Encodable
<1>3. Len(v) \in Nat /\ (f.type = "hashes" => Len(v) > 0)
  BY <1>2
<1>4. ASSUME NEW i \in 1..Len(v) PROVE Encodable(Item(f), v[i]) /\ Prefixable(v[i])
  <2>1. i \in DOMAIN v /\ v[i] \in Seq(Byte) /\ Len(v[i]) \in Nat
    BY <1>2
  <2>2. IF f.type = "hashes" THEN Len(v[i]) = f.size ELSE Len(v[i]) <= f.size
    BY <1>2, <2>1
  <2>3. Encodable(Item(f), v[i])
    <3>1. Item(f).size = f.size /\ Item(f).type = IF f.type = "hashes" THEN "exact" ELSE "bytes"
      BY DEF Item, Field
    <3> QED
      BY <2>1, <2>2, <3>1 DEF Encodable
  <2>4. Len(v[i]) \in 0..f.size
    BY <1>1, <2>1, <2>2
  <2> QED
    BY <1>1, <2>1, <2>3, <2>4 DEF Prefixable
<1>5. /\ EncodeUint(Len(v), U32Width) \in Seq(Byte)
      /\ Len(EncodeUint(Len(v), U32Width)) = U32Width
      /\ DecodeUint(EncodeUint(Len(v), U32Width)) = Len(v)
  <2>1. Len(v) \in 0..f.items
    BY <1>1, <1>2, <1>3
  <2>2. FitsWidth(Len(v), U32Width)
    BY <1>1, <2>1
  <2> QED
    BY <2>2, WidthsFacts, FitsFacts
<1>6. BytePieces(Len(v), WrittenItems(v))
  <2>1. \A i \in 1..Len(v) : EncodeBytes(v[i]) \in Seq(Byte)
    BY <1>4, PrefixableFacts
  <2> QED
    BY <1>3, <2>1 DEF BytePieces, WrittenItems
<1>7. EncodeField(f, v) = EncodeUint(Len(v), U32Width) \o Join(Len(v), WrittenItems(v))
  <2>1. EncodeField(f, v) = EncodeItems(v)
    BY DEF EncodeField
  <2> QED
    BY <2>1 DEF EncodeItems, WrittenItems
<1> QED
  BY <1>2, <1>3, <1>4, <1>5, <1>6, <1>7

LEMMA FieldEncoded ==
  ASSUME NEW f, Measured(f), NEW v, Encodable(f, v)
  PROVE  EncodeField(f, v) \in Seq(Byte)
<1>1. f.type \in {"uint", "bytes", "exact", "number", "text"} \cup SequenceTypes
  BY DEF Measured, FieldRecords, PlainTypes
<1>2. CASE f.type = "uint"
  <2>1. f.size \in Nat /\ FitsWidth(v, f.size) /\ EncodeField(f, v) = EncodeUint(v, f.size)
    BY <1>2 DEF Measured, FieldRecords, Encodable, EncodeField
  <2> QED
    BY <2>1, FitsFacts
<1>3. CASE f.type \in {"bytes", "exact", "number", "text"}
  BY <1>3, InsideFacts, PrefixableFacts
<1>4. CASE f.type \in SequenceTypes
  <2>1. /\ EncodeUint(Len(v), U32Width) \in Seq(Byte) /\ Join(Len(v), WrittenItems(v)) \in Seq(Byte)
        /\ EncodeField(f, v) = EncodeUint(Len(v), U32Width) \o Join(Len(v), WrittenItems(v))
    BY <1>4, ItemsFacts, JoinFacts
  <2> QED
    BY <2>1, CatFacts
<1> QED
  BY <1>1, <1>2, <1>3, <1>4

(* The pieces of a value that can be encoded. *)
FieldPieces(k, v) == [i \in 1..Len(Layout(k)) |-> EncodeField(Layout(k)[i], v[i])]

LEMMA FlatEncoded ==
  ASSUME NEW k \in Kinds, NEW v, EncodableFlat(k, v)
  PROVE  /\ BytePieces(Len(Layout(k)), FieldPieces(k, v))
         /\ EncodeFlat(k, v) = EncodeDomain(k) \o Join(Len(Layout(k)), FieldPieces(k, v))
         /\ EncodeFlat(k, v) \in Seq(Byte)
         /\ \A i \in 1..Len(Layout(k)) : Encodable(Layout(k)[i], v[i])
<1> DEFINE L == Layout(k)
<1>1. L \in Seq(FieldRecords) /\ Len(L) \in Nat
  BY LayoutFacts DEF LayoutOf
<1>2. \A i \in 1..Len(L) : Encodable(L[i], v[i])
  BY <1>1 DEF EncodableFlat
<1>3. BytePieces(Len(L), FieldPieces(k, v))
  <2>1. \A i \in 1..Len(L) : EncodeField(L[i], v[i]) \in Seq(Byte)
    BY <1>2, LayoutMeasured, FieldEncoded
  <2> QED
    BY <1>1, <2>1 DEF BytePieces, FieldPieces
<1>4. EncodeFlat(k, v) = EncodeDomain(k) \o Join(Len(L), FieldPieces(k, v))
  BY DEF EncodeFlat, FieldPieces
<1> QED
  BY <1>2, <1>3, <1>4, JoinFacts, DomainFacts, CatFacts

LEMMA ValueEncoded ==
  ASSUME NEW k \in Kinds, NEW v, EncodableValue(k, v)
  PROVE  Encode(k, v) \in Seq(Byte)
<1>1. CASE k # "Block"
  BY <1>1, FlatEncoded DEF Encode, EncodableValue
<1>2. CASE k = "Block"
  <2>1. EncodableFlat("Block", BlockParts(v)) /\ "Block" \in Kinds
    BY <1>2 DEF EncodableValue, Kinds
  <2>2. Encode(k, v) = EncodeFlat("Block", BlockParts(v))
    BY <1>2 DEF Encode
  <2> QED
    BY <2>1, <2>2, FlatEncoded
<1> QED
  BY <1>1, <1>2

-----------------------------------------------------------------------------
(* The envelope of a block has no numbers in it. *)
LEMMA BlockLayout ==
  /\ "Block" \in Kinds /\ "Block" \in SequenceKinds /\ Len(Layout("Block")) = 3
  /\ \A i \in 1..3 : Layout("Block")[i].type \in {"bytes", "items"}
<1>1. Layout("Block") = <<Bytes(MaxPart), Bytes(MaxPart), Items(MaxBlockTransactions, MaxPart)>>
  BY DEF Layout
<1>2. {MaxPart, MaxBlockTransactions} \subseteq Nat
  BY CodecAssumption DEF CodecAssumption
<1>3. Bytes(MaxPart).type = "bytes" /\ Items(MaxBlockTransactions, MaxPart).type = "items"
  BY <1>2, FieldFacts
<1> DEFINE x1 == Bytes(MaxPart)
           x2 == Items(MaxBlockTransactions, MaxPart)
<1> HIDE DEF x1, x2
<1>4. Layout("Block") = <<x1, x1, x2>> /\ x1.type = "bytes" /\ x2.type = "items"
  BY <1>1, <1>3 DEF x1, x2
<1>5. Len(<<x1, x1, x2>>) = 3 /\ <<x1, x1, x2>>[1] = x1 /\ <<x1, x1, x2>>[2] = x1 /\ <<x1, x1, x2>>[3] = x2
  OBVIOUS
<1>6. \A i \in 1..3 : i = 1 \/ i = 2 \/ i = 3
  OBVIOUS
<1> QED
  BY <1>4, <1>5, <1>6 DEF Kinds, SequenceKinds

LEMMA BlockFields ==
  ASSUME NEW fs, NEW g, NEW r, NEW P, Stage("Block", fs, g, r, P), fs # <<>>
  PROVE  Head(fs).type \notin {"uint", "number", "text"}
<1>1. fs \in Seq(FieldRecords) /\ "Block" \in Kinds /\ g \in Seq(Content)
  BY DEF Stage
<1>2. CASE AtDomain("Block", fs, g, r, P)
  <2>1. Head(fs).type = "domain"
    BY <1>1, <1>2, DomainFirst
  <2> QED
    BY <2>1
<1>3. CASE AtField("Block", fs, g, r, P)
  <2>1. Len(fs) \in Nat /\ Len(fs) > 0 /\ Head(fs) = fs[1] /\ Len(g) \in Nat
    BY <1>1, HeadFacts
  <2>2. Len(fs) = 3 - Len(g) /\ \A i \in 1..(3 - Len(g)) : fs[i] = Layout("Block")[Len(g) + i]
    BY <1>3, BlockLayout DEF AtField
  <2>3. 1 \in 1..(3 - Len(g)) /\ Len(g) + 1 \in 1..3
    BY <2>1, <2>2
  <2>4. Head(fs).type \in {"bytes", "items"}
    BY <2>1, <2>2, <2>3, BlockLayout
  <2> QED
    BY <2>4
<1>4. ASSUME NEW h, NEW c, NEW s \in Seq(Seq(Byte)), AtItem("Block", fs, h, s, c, r, P)
      PROVE  Head(fs).type \notin {"uint", "number", "text"}
  <2>1. Head(fs).type \in {"exact", "bytes"}
    BY <1>1, <1>4, NextField
  <2> QED
    BY <2>1
<1> QED
  BY <1>2, <1>3, <1>4 DEF Stage

LEMMA FirstTwo ==
  ASSUME NEW T, NEW g \in Seq(T), Len(g) >= 2
  PROVE  SubSeq(g, 1, 2) = <<g[1], g[2]>>
<1>1. g[1] \in T /\ g[2] \in T
  OBVIOUS
<1>2. SubSeq(g, 1, 2) \in Seq(T) /\ Len(SubSeq(g, 1, 2)) = 2
  OBVIOUS
<1>3. SubSeq(g, 1, 2)[1] = g[1] /\ SubSeq(g, 1, 2)[2] = g[2]
  OBVIOUS
<1> DEFINE x1 == SubSeq(g, 1, 2)
           x == g[1]
           y == g[2]
<1> HIDE DEF x1, x, y
<1>4. <<x, y>> \in Seq(T) /\ Len(<<x, y>>) = 2 /\ <<x, y>>[1] = x /\ <<x, y>>[2] = y
  BY <1>1 DEF x, y
<1>5. x1 \in Seq(T) /\ Len(x1) = 2 /\ x1[1] = x /\ x1[2] = y
  BY <1>2, <1>3 DEF x1, x, y
<1>6. \A i \in 1..2 : i = 1 \/ i = 2
  OBVIOUS
<1>7. \A i \in 1..Len(<<x, y>>) : x1[i] = <<x, y>>[i]
  BY <1>4, <1>5, <1>6
<1>8. x1 = <<x, y>>
  BY <1>4, <1>5, <1>7, SameEntries
<1> QED
  BY <1>8 DEF x1, x, y

LEMMA ThreeOf ==
  ASSUME NEW x1, NEW x2, NEW c
  PROVE  Append(<<x1, x2>>, c) = <<x1, x2, c>>
<1> DEFINE T == {x1, x2, c}
           s == <<x1, x2>>
           t == <<x1, x2, c>>
<1>1. s \in Seq(T) /\ Len(s) = 2 /\ s[1] = x1 /\ s[2] = x2
  OBVIOUS
<1>2. t \in Seq(T) /\ Len(t) = 3 /\ t[1] = x1 /\ t[2] = x2 /\ t[3] = c
  OBVIOUS
<1>3. c \in T
  OBVIOUS
<1> HIDE DEF T, s, t
<1>4. /\ Append(s, c) \in Seq(T) /\ Len(Append(s, c)) = 3
      /\ Append(s, c)[3] = c /\ Append(s, c)[1] = x1 /\ Append(s, c)[2] = x2
  <2>1. Append(s, c) \in Seq(T) /\ Len(Append(s, c)) = 3
    <3>1. Append(s, c) \in Seq(T) /\ Len(Append(s, c)) = Len(s) + 1
      BY <1>1, <1>3, AddedFacts
    <3> QED
      BY <1>1, <3>1
  <2>2. Append(s, c)[3] = c
    <3>1. Append(s, c)[Len(s) + 1] = c
      BY <1>1, <1>3, AddedFacts
    <3>2. Len(s) + 1 = 3
      BY <1>1
    <3> QED
      BY <3>1, <3>2
  <2>3. Append(s, c)[1] = s[1] /\ Append(s, c)[2] = s[2]
    BY <1>1, <1>3
  <2> QED
    BY <1>1, <2>1, <2>2, <2>3
<1>6. \A i \in 1..3 : i = 1 \/ i = 2 \/ i = 3
  OBVIOUS
<1>7. Len(t) = Len(Append(s, c)) /\ \A i \in 1..Len(t) : Append(s, c)[i] = t[i]
  BY <1>2, <1>4, <1>6
<1>8. Append(s, c) = t
  BY <1>2, <1>4, <1>7, SameEntries
<1> QED
  BY <1>8 DEF s, t

(* A whole envelope has a header and a reward. *)
LEMMA BlockGathered ==
  ASSUME NEW g \in Seq(Seq(Byte)), NEW P, Stage("Block", <<>>, g, <<>>, P)
  PROVE  /\ Len(g) \in Nat /\ Len(g) >= 2
         /\ EncodeFlat("Block", <<g[1], g[2], SubSeq(g, 3, Len(g))>>) = P
<1>1. "Block" \in Kinds
  BY DEF Stage
<1>2. ~AtDomain("Block", <<>>, g, <<>>, P)
  BY <1>1, DomainFirst
<1>3. ~AtField("Block", <<>>, g, <<>>, P)
  <2> SUFFICES ASSUME AtField("Block", <<>>, g, <<>>, P) PROVE FALSE
    OBVIOUS
  <2>1. Len(<<>>) = 3 - Len(g) /\ Len(g) # 3
    BY BlockLayout DEF AtField
  <2>2. Len(g) \in Nat /\ Len(<<>>) = 0
    OBVIOUS
  <2> QED
    BY <2>1, <2>2
<1>4. PICK h \in Seq(Content), s \in Seq(Seq(Byte)), c \in Nat :
        g = h \o s /\ AtItem("Block", <<>>, h, s, c, <<>>, P)
  BY <1>2, <1>3 DEF Stage
<1>5. Len(h) = 2
  <2>1. Len(h) = 3 - 1
    BY <1>4, BlockLayout DEF AtItem
  <2> QED
    BY <2>1
<1>6. Len(g) \in Nat /\ Len(g) >= 2
  <2>1. s \in Seq(Content)
    <3>1. Seq(Byte) \subseteq Content
      BY DEF Content
    <3> QED
      BY <3>1
  <2>2. Len(h \o s) = Len(h) + Len(s) /\ Len(s) \in Nat
    BY <2>1
  <2> QED
    BY <1>4, <1>5, <2>2
<1>7. Gathered("Block", g) = <<g[1], g[2], SubSeq(g, 3, Len(g))>>
  <2>1. Gathered("Block", g) = Append(SubSeq(g, 1, 2), SubSeq(g, 3, Len(g)))
    <3>1. 3 - 1 = 2 /\ (3 - 1) + 1 = 3
      OBVIOUS
    <3> QED
      BY <3>1, BlockLayout DEF Gathered
  <2>2. SubSeq(g, 1, 2) = <<g[1], g[2]>>
    BY <1>6, FirstTwo
  <2>3. Append(<<g[1], g[2]>>, SubSeq(g, 3, Len(g))) = <<g[1], g[2], SubSeq(g, 3, Len(g))>>
    BY ThreeOf
  <2> QED
    BY <2>1, <2>2, <2>3
<1>8. EncodeFlat("Block", Gathered("Block", g)) = P
  BY Completed
<1> QED
  BY <1>6, <1>7, <1>8

(* The bytes that come next. *)
LEMMA NextBytesFacts ==
  ASSUME rest \in Seq(Byte), NEW n, HasBytes(n)
  PROVE  /\ NextBytes \in Seq(Byte) /\ Len(NextBytes) = Length /\ Length <= n
         /\ Length \in Nat
         /\ Leave(U32Width + Length) \in Seq(Byte)
         /\ EncodeBytes(NextBytes) \in Seq(Byte)
         /\ rest = EncodeBytes(NextBytes) \o Leave(U32Width + Length)
<1> DEFINE m == Length
           s == NextBytes
           t == Leave(U32Width + Length)
<1>1. m = DecodeUint(SubSeq(rest, 1, U32Width)) /\ U32Width \in Nat
  BY WidthsFacts DEF Length, Take
<1>2. U32Width <= Len(rest) /\ m <= Len(rest) - U32Width /\ m <= n
  BY <1>1 DEF HasBytes, HasUint
<1>3. m \in Nat
  BY <1>1, <1>2, UintRead
<1>4. s = SubSeq(rest, U32Width + 1, U32Width + m) /\ t = SubSeq(rest, U32Width + m + 1, Len(rest))
  BY DEF NextBytes, Leave
<1> HIDE DEF m, s, t
<1>5. /\ s \in Seq(Byte) /\ Len(s) = m /\ t \in Seq(Byte)
      /\ EncodeBytes(s) \in Seq(Byte) /\ rest = EncodeBytes(s) \o t
  BY <1>1, <1>2, <1>3, <1>4, BytesRead
<1> QED
  BY <1>2, <1>3, <1>5 DEF m, s, t

(* Every step of reading goes on with the stage, and of a block reads bytes. *)
LEMMA ReadStage ==
  ASSUME NEW P, Stage(current, fields, got, rest, P), ReadUint \/ ReadBytes \/ ReadCount
  PROVE  /\ Stage(current', fields', got', rest', P) /\ current' = current
         /\ UNCHANGED <<inputVars, decoder, parts, decoded, outcome>>
         /\ current = "Block" /\ got \in Seq(Seq(Byte)) => got' \in Seq(Seq(Byte))
<1>1. Stage(current', fields', got', rest', P) /\ current' = current
  BY ReadUintStage, ReadBytesStage, ReadCountStage
<1>2. UNCHANGED <<inputVars, decoder, parts, decoded, outcome>>
  BY DEF ReadUint, ReadBytes, ReadCount, Got
<1>3. ASSUME current = "Block", got \in Seq(Seq(Byte)) PROVE got' \in Seq(Seq(Byte))
  <2>1. fields # <<>> => Head(fields).type \notin {"uint", "number", "text"}
    BY <1>3, BlockFields
  <2>2. ~ReadUint
    BY <2>1 DEF ReadUint, Expects
  <2>3. CASE ReadCount
    BY <1>3, <2>3 DEF ReadCount
  <2>4. CASE ReadBytes
    <3>1. fields # <<>> /\ HasBytes(Head(fields).size)
      BY <2>4 DEF ReadBytes, Expects
    <3>2. rest \in Seq(Byte)
      BY DEF Stage
    <3>3. NextBytes \in Seq(Byte)
      BY <3>1, <3>2, NextBytesFacts
    <3>4. got' = got \/ got' = Append(got, NextBytes)
      BY <2>1, <2>4, <3>1 DEF ReadBytes
    <3> QED
      BY <1>3, <3>3, <3>4, AddedFacts
  <2> QED
    BY <2>2, <2>3, <2>4
<1> QED
  BY <1>1, <1>2, <1>3

-----------------------------------------------------------------------------
(* The decoder's invariant: what has been read, written again, and what remains
   are the bytes. *)
ReadValues == Seq(Content) \cup Seq(Seq(Content))
PartKind(i) == IF i = 1 THEN "BlockHeader" ELSE IF i = 2 THEN "RewardTransaction" ELSE "Transaction"

WholeReading ==
  /\ outcome # "accepted" /\ current = decoder /\ parts = <<>> /\ decoded = <<>>
  /\ Stage(current, fields, got, rest, encoded)
  /\ current = "Block" => got \in Seq(Seq(Byte))

WholeAccepted ==
  /\ outcome = "accepted" /\ decoder # "Block" /\ Len(decoded) = 1
  /\ EncodeFlat(decoder, decoded[1]) = encoded

(* Of the parts b of a block, those before the m-th have been decoded. *)
PartReading(block, m) ==
  /\ m <= Len(block) /\ current = PartKind(m) /\ Stage(current, fields, got, rest, block[m])
  /\ Len(parts) = Len(block) - m
  /\ \A j \in 1..Len(parts) : parts[j] = <<PartKind(m + j), block[m + j]>>

Enveloped(block) ==
  /\ block \in Seq(Seq(Byte)) /\ Len(block) >= 2
  /\ EncodeFlat("Block", <<block[1], block[2], SubSeq(block, 3, Len(block))>>) = encoded

BlockReading(block) ==
  /\ decoder = "Block" /\ Enveloped(block)
  /\ \A i \in 1..Len(decoded) : EncodeFlat(PartKind(i), decoded[i]) = block[i]
  /\ outcome = "accepted" => Len(decoded) = Len(block)
  /\ outcome # "accepted" => PartReading(block, Len(decoded) + 1)

DecodingTyped ==
  /\ kind \in Kinds /\ value \in Values[kind]
  /\ encoded \in Seq(Byte) /\ decoder \in Kinds \cup {NoKind}
  /\ decoded \in Seq(ReadValues) /\ parts \in Seq(Kinds \X Seq(Byte))
  /\ outcome \in {"reading", "accepted", "refused"}

DecodingIInv ==
  /\ DecodingTyped
  /\ decoder = NoKind => outcome = "reading" /\ parts = <<>> /\ decoded = <<>>
  /\ decoder # NoKind => WholeReading \/ WholeAccepted \/ \E block : BlockReading(block)

LEMMA KindFacts ==
  /\ NoKind \notin Kinds
  /\ \A i : PartKind(i) \in Kinds \ (SequenceKinds \cup {NoKind}) /\ PartKind(i) # "Block"
BY DEF NoKind, Kinds, Flat, PartKind, SequenceKinds

LEMMA DecodingInit == ReaderInit => DecodingIInv
<1> SUFFICES ASSUME ReaderInit PROVE DecodingIInv
  OBVIOUS
<1>1. kind \in Kinds /\ EncodableValue(kind, value)
  BY ReaderAssumption DEF ReaderInit, ReaderAssumption
<1>2. encoded \in Seq(Byte)
  BY <1>1, ValueEncoded DEF ReaderInit
<1>3. <<>> \in Seq(ReadValues) /\ <<>> \in Seq(Kinds \X Seq(Byte))
  OBVIOUS
<1> QED
  BY <1>2, <1>3 DEF ReaderInit, DecodingIInv, DecodingTyped

(* The bytes on their way. *)
LEMMA EditStep ==
  ASSUME DecodingIInv, Change \/ Truncate \/ Extend
  PROVE  DecodingIInv'
<1> USE DEF DecodingIInv, DecodingTyped
<1>1. PICK new : Edit(new) /\ new \in Seq(Byte)
  <2>1. CASE Change
    <3>1. PICK i \in DOMAIN encoded, x \in Byte : Edit([encoded EXCEPT ![i] = x])
      BY <2>1 DEF Change
    <3>2. [encoded EXCEPT ![i] = x] \in Seq(Byte)
      OBVIOUS
    <3> QED
      BY <3>1, <3>2
  <2>2. CASE Truncate
    <3>1. PICK n \in 0..Len(encoded) - 1 : Edit(SubSeq(encoded, 1, n))
      BY <2>2 DEF Truncate
    <3>2. SubSeq(encoded, 1, n) \in Seq(Byte)
      <4>1. n \in 0..Len(encoded)
        BY <3>1
      <4> QED
        BY <4>1, SplitFacts DEF SplitsAt
    <3> QED
      BY <3>1, <3>2
  <2>3. CASE Extend
    <3>1. PICK x \in Byte : Edit(Append(encoded, x))
      BY <2>3 DEF Extend
    <3> QED
      BY <3>1, AddedFacts
  <2> QED
    BY <2>1, <2>2, <2>3
<1>2. /\ decoder = NoKind /\ encoded' = new
      /\ UNCHANGED <<kind, value, decoder, partVars, parts, decoded, outcome>>
  BY <1>1 DEF Edit
<1> QED
  BY <1>1, <1>2

LEMMA StartStep ==
  ASSUME DecodingIInv, NEW k \in Kinds, Start(k)
  PROVE  DecodingIInv'
<1> USE DEF DecodingIInv, DecodingTyped
<1>1. /\ decoder = NoKind /\ decoder' = k /\ Begin(k, encoded)
      /\ UNCHANGED <<inputVars, parts, decoded, outcome>>
  BY DEF Start
<1>2. encoded' = encoded /\ kind' = kind /\ value' = value
  BY <1>1 DEF inputVars
<1>3. current' = k /\ rest' = encoded /\ fields' = DomainField(k) \o Layout(k) /\ got' = <<>>
  BY <1>1 DEF Begin
<1>4. Stage(current', fields', got', rest', encoded')
  BY <1>2, <1>3, BeginStage
<1>5. WholeReading'
  <2>1. got' \in Seq(Seq(Byte))
    BY <1>3
  <2> QED
    BY <1>1, <1>3, <1>4, <2>1 DEF WholeReading
<1> QED
  BY <1>1, <1>2, <1>5

(* A field, a count or an item. *)
LEMMA ReadStep ==
  ASSUME DecodingIInv, ReadUint \/ ReadBytes \/ ReadCount
  PROVE  DecodingIInv'
<1> USE DEF DecodingIInv, DecodingTyped
<1>1. Reading
  BY DEF ReadUint, ReadBytes, ReadCount, Expects
<1>2. decoder # NoKind /\ outcome = "reading"
  BY <1>1 DEF Reading
<1>3. UNCHANGED <<inputVars, decoder, parts, decoded, outcome>>
  BY DEF ReadUint, ReadBytes, ReadCount, Got
<1>4. encoded' = encoded /\ kind' = kind /\ value' = value
  BY <1>3 DEF inputVars
<1>5. CASE WholeReading
  <2>1. /\ Stage(current', fields', got', rest', encoded) /\ current' = current
        /\ current = "Block" => got' \in Seq(Seq(Byte))
    BY <1>5, ReadStage DEF WholeReading
  <2>2. WholeReading'
    BY <1>3, <1>4, <1>5, <2>1 DEF WholeReading
  <2> QED
    BY <1>2, <1>3, <1>4, <2>2
<1>6. ASSUME NEW block, BlockReading(block) PROVE DecodingIInv'
  <2> DEFINE m == Len(decoded) + 1
  <2>1. PartReading(block, m)
    BY <1>2, <1>6 DEF BlockReading
  <2> HIDE DEF m
  <2>2. Stage(current', fields', got', rest', block[m]) /\ current' = current
    BY <2>1, ReadStage DEF PartReading
  <2>3. PartReading(block, m)'
    BY <1>3, <2>1, <2>2 DEF PartReading, m
  <2>4. BlockReading(block)'
    BY <1>2, <1>3, <1>4, <1>6, <2>3 DEF BlockReading, Enveloped, m
  <2> QED
    BY <1>2, <1>3, <1>4, <2>4
<1> QED
  BY <1>2, <1>5, <1>6 DEF WholeAccepted

LEMMA RefuseStep ==
  ASSUME DecodingIInv, Refuse
  PROVE  DecodingIInv'
<1> USE DEF DecodingIInv, DecodingTyped
<1>1. /\ decoder # NoKind /\ outcome = "reading" /\ outcome' = "refused"
      /\ UNCHANGED <<inputVars, decoder, partVars, parts, decoded>>
  BY DEF Refuse, Reading
<1>2. encoded' = encoded /\ kind' = kind /\ value' = value
  BY <1>1 DEF inputVars
<1>3. current' = current /\ rest' = rest /\ fields' = fields /\ got' = got
  BY <1>1 DEF partVars
<1>4. CASE WholeReading
  <2>1. WholeReading'
    BY <1>1, <1>2, <1>3, <1>4 DEF WholeReading
  <2> QED
    BY <1>1, <1>2, <2>1
<1>5. ASSUME NEW block, BlockReading(block) PROVE DecodingIInv'
  <2>1. BlockReading(block)'
    BY <1>1, <1>2, <1>3, <1>5 DEF BlockReading, Enveloped, PartReading
  <2> QED
    BY <1>1, <1>2, <2>1
<1> QED
  BY <1>1, <1>4, <1>5 DEF WholeAccepted
(* The envelope of a block. *)
LEMMA EnvelopeStep ==
  ASSUME DecodingIInv, OpenEnvelope
  PROVE  DecodingIInv'
<1> USE DEF DecodingIInv, DecodingTyped
<1>1. /\ decoder # NoKind /\ outcome = "reading" /\ fields = <<>> /\ rest = <<>> /\ current = "Block"
      /\ Begin("BlockHeader", got[1])
      /\ parts' = <<<<"RewardTransaction", got[2]>>>>
                    \o [i \in 1 .. Len(got) - 2 |-> <<"Transaction", got[i + 2]>>]
      /\ UNCHANGED <<inputVars, decoder, decoded, outcome>>
  BY DEF OpenEnvelope, Finished, Reading
<1>2. encoded' = encoded /\ kind' = kind /\ value' = value
  BY <1>1 DEF inputVars
<1>3. WholeReading
  <2>1. ~WholeAccepted
    BY <1>1 DEF WholeAccepted
  <2>2. ASSUME NEW block, BlockReading(block) PROVE FALSE
    <3>1. current = PartKind(Len(decoded) + 1)
      BY <1>1, <2>2 DEF BlockReading, PartReading
    <3> QED
      BY <1>1, <3>1, KindFacts
  <2> QED
    BY <1>1, <2>1, <2>2
<1>4. /\ decoder = "Block" /\ decoded = <<>> /\ got \in Seq(Seq(Byte))
      /\ Stage("Block", <<>>, got, <<>>, encoded)
  BY <1>1, <1>3 DEF WholeReading
<1>5. /\ Len(got) \in Nat /\ Len(got) >= 2
      /\ EncodeFlat("Block", <<got[1], got[2], SubSeq(got, 3, Len(got))>>) = encoded
  BY <1>4, BlockGathered
<1>6. /\ current' = "BlockHeader" /\ rest' = got[1] /\ got' = <<>>
      /\ fields' = DomainField("BlockHeader") \o Layout("BlockHeader")
  BY <1>1 DEF Begin
<1>7. \A i \in 1..Len(got) : got[i] \in Seq(Byte)
  BY <1>4
<1>8. got[1] \in Seq(Byte) /\ got[2] \in Seq(Byte)
  BY <1>5, <1>7
<1>9. Stage(current', fields', got', rest', got[1])
  <2>1. "BlockHeader" \in Kinds
    BY DEF Kinds, Flat
  <2> QED
    BY <1>6, <1>8, <2>1, BeginStage
<1> DEFINE reward == <<"RewardTransaction", got[2]>>
           u == [i \in 1 .. Len(got) - 2 |-> <<"Transaction", got[i + 2]>>]
           T == Kinds \X Seq(Byte)
<1>10. reward \in T
  BY <1>8 DEF Kinds, Flat
<1>11. u \in Seq(T) /\ Len(u) = Len(got) - 2 /\ \A i \in 1..(Len(got) - 2) : u[i] = <<"Transaction", got[i + 2]>>
  <2>1. \A i \in 1..(Len(got) - 2) : i + 2 \in 1..Len(got)
    BY <1>5
  <2>2. \A i \in 1..(Len(got) - 2) : <<"Transaction", got[i + 2]>> \in T
    BY <1>7, <2>1 DEF Kinds, Flat
  <2>3. Len(got) - 2 \in Nat
    BY <1>5
  <2> HIDE DEF T
  <2> QED
    BY <2>2, <2>3
<1>12. parts' = <<reward>> \o u
  BY <1>1
<1> HIDE DEF reward, u, T
<1>13. /\ parts' \in Seq(T) /\ Len(parts') = Len(got) - 1 /\ parts'[1] = reward
       /\ \A j \in 1..Len(parts') : j # 1 => parts'[j] = u[j - 1]
  <2>1. <<reward>> \in Seq(T) /\ Len(<<reward>>) = 1 /\ <<reward>>[1] = reward
    BY <1>10
  <2>2. parts' \in Seq(T) /\ Len(parts') = 1 + Len(u) /\ Len(u) \in Nat
    BY <1>11, <1>12, <2>1
  <2>3. parts'[1] = reward
    BY <1>11, <1>12, <2>1
  <2>4. \A j \in 1..Len(parts') : j # 1 => parts'[j] = u[j - 1]
    BY <1>11, <1>12, <2>1, <2>2
  <2> QED
    BY <1>5, <1>11, <2>2, <2>3, <2>4
<1>14. \A j \in 1..Len(parts') : parts'[j] = <<PartKind(1 + j), got[1 + j]>>
  <2> SUFFICES ASSUME NEW j \in 1..Len(parts') PROVE parts'[j] = <<PartKind(1 + j), got[1 + j]>>
    OBVIOUS
  <2>1. CASE j = 1
    <3>1. 1 + j = 2 /\ PartKind(2) = "RewardTransaction"
      BY <2>1 DEF PartKind
    <3>2. parts'[j] = reward
      BY <1>13, <2>1
    <3> QED
      BY <3>1, <3>2 DEF reward
  <2>2. CASE j # 1
    <3>1. j - 1 \in 1..(Len(got) - 2) /\ (j - 1) + 2 = 1 + j /\ 1 + j # 1 /\ 1 + j # 2
      BY <1>5, <1>13, <2>2
    <3>2. parts'[j] = <<"Transaction", got[(j - 1) + 2]>>
      BY <1>11, <1>13, <2>2, <3>1
    <3>3. PartKind(1 + j) = "Transaction"
      BY <3>1 DEF PartKind
    <3> QED
      BY <3>1, <3>2, <3>3
  <2> QED
    BY <2>1, <2>2
<1>15. PICK block : block = got
  OBVIOUS
<1>16. decoded' = <<>> /\ Len(decoded') = 0 /\ 0 + 1 = 1
  BY <1>1, <1>4
<1>17. PartReading(block, Len(decoded) + 1)'
  <2>1. PartKind(1) = "BlockHeader"
    BY DEF PartKind
  <2>2. /\ 1 <= Len(block) /\ current' = PartKind(1) /\ Stage(current', fields', got', rest', block[1])
        /\ Len(parts') = Len(block) - 1
        /\ \A j \in 1..Len(parts') : parts'[j] = <<PartKind(1 + j), block[1 + j]>>
    BY <1>5, <1>6, <1>9, <1>13, <1>14, <1>15, <2>1
  <2> QED
    BY <1>16, <2>2 DEF PartReading
<1>18. BlockReading(block)'
  <2>1. Enveloped(block)'
    BY <1>2, <1>4, <1>5, <1>15 DEF Enveloped
  <2>2. \A i \in 1..Len(decoded') : EncodeFlat(PartKind(i), decoded'[i]) = block[i]
    BY <1>16
  <2> QED
    BY <1>1, <1>4, <1>17, <2>1, <2>2 DEF BlockReading
<1> QED
  BY <1>1, <1>2, <1>13, <1>18 DEF T

(* A value is complete. *)
LEMMA GatheredFlat ==
  ASSUME NEW k, k # "Block", NEW g \in Seq(Content)
  PROVE  /\ Gathered(k, g) = IF k = "BlockLocator" THEN <<g>> ELSE g
         /\ Gathered(k, g) \in ReadValues
<1>1. CASE k = "BlockLocator"
  <2>1. Len(Layout(k)) = 1
    <3>1. Layout(k) = <<Hashes(MaxLocator)>>
      BY <1>1 DEF Layout
    <3> QED
      BY <3>1
  <2>2. Gathered(k, g) = Append(SubSeq(g, 1, 0), SubSeq(g, 1, Len(g)))
    <3>1. 1 - 1 = 0 /\ 0 + 1 = 1
      OBVIOUS
    <3> QED
      BY <1>1, <2>1, <3>1 DEF Gathered, SequenceKinds
  <2>3. SubSeq(g, 1, 0) = <<>> /\ SubSeq(g, 1, Len(g)) = g
    OBVIOUS
  <2>4. Append(<<>>, g) = <<g>>
    OBVIOUS
  <2>5. <<g>> \in Seq(Seq(Content))
    OBVIOUS
  <2> QED
    BY <1>1, <2>2, <2>3, <2>4, <2>5 DEF ReadValues
<1>2. CASE k # "BlockLocator"
  BY <1>2 DEF Gathered, SequenceKinds, ReadValues
<1> QED
  BY <1>1, <1>2

LEMMA DecodedStep ==
  ASSUME DecodingIInv, Decoded
  PROVE  DecodingIInv'
<1> USE DEF DecodingIInv, DecodingTyped
<1> DEFINE x == IF current = "BlockLocator" THEN <<got>> ELSE got
           n == Len(decoded)
<1>1. /\ decoder # NoKind /\ outcome = "reading" /\ fields = <<>> /\ rest = <<>> /\ current # "Block"
      /\ decoded' = Append(decoded, x) /\ UNCHANGED <<inputVars, decoder>>
  BY DEF Decoded, Finished, Reading
<1>2. encoded' = encoded /\ kind' = kind /\ value' = value
  BY <1>1 DEF inputVars
<1>3. /\ parts = <<>> => outcome' = "accepted" /\ parts' = parts
      /\ parts # <<>> => /\ Begin(Head(parts)[1], Head(parts)[2])
                         /\ parts' = Tail(parts) /\ outcome' = outcome
  BY DEF Decoded
<1>4. ASSUME NEW P, Stage(current, fields, got, rest, P)
      PROVE  /\ EncodeFlat(current, x) = P /\ x \in ReadValues
  <2>1. Stage(current, <<>>, got, <<>>, P) /\ got \in Seq(Content)
    BY <1>1, <1>4 DEF Stage
  <2>2. x = Gathered(current, got) /\ x \in ReadValues
    BY <1>1, <2>1, GatheredFlat
  <2> HIDE DEF x
  <2>3. EncodeFlat(current, Gathered(current, got)) = P
    BY <2>1, Completed
  <2> QED
    BY <2>2, <2>3
<1> HIDE DEF x
<1>5. CASE WholeReading
  <2>1. /\ current = decoder /\ parts = <<>> /\ decoded = <<>>
        /\ EncodeFlat(current, x) = encoded /\ x \in ReadValues
    BY <1>4, <1>5 DEF WholeReading
  <2>2. Len(Append(<<>>, x)) = 1 /\ Append(<<>>, x)[1] = x /\ Append(<<>>, x) \in Seq(ReadValues)
    BY <2>1
  <2>3. outcome' = "accepted" /\ parts' = parts
    BY <1>3, <2>1
  <2>4. WholeAccepted'
    BY <1>1, <1>2, <2>1, <2>2, <2>3 DEF WholeAccepted
  <2> QED
    BY <1>1, <1>2, <2>1, <2>2, <2>3, <2>4
<1>6. ASSUME NEW block, BlockReading(block) PROVE DecodingIInv'
  <2>1. decoder = "Block" /\ Enveloped(block) /\ PartReading(block, n + 1)
        /\ \A i \in 1..n : EncodeFlat(PartKind(i), decoded[i]) = block[i]
    BY <1>1, <1>6 DEF BlockReading
  <2>2. n \in Nat /\ Len(block) \in Nat /\ Len(parts) \in Nat
    BY <2>1 DEF Enveloped
  <2>3. /\ n + 1 <= Len(block) /\ current = PartKind(n + 1) /\ Stage(current, fields, got, rest, block[n + 1])
        /\ Len(parts) = Len(block) - (n + 1)
        /\ \A j \in 1..Len(parts) : parts[j] = <<PartKind((n + 1) + j), block[(n + 1) + j]>>
    BY <2>1 DEF PartReading
  <2>4. EncodeFlat(PartKind(n + 1), x) = block[n + 1] /\ x \in ReadValues
    BY <1>4, <2>3
  <2> HIDE DEF n
  <2>5. /\ decoded' \in Seq(ReadValues) /\ Len(decoded') = n + 1
        /\ decoded'[n + 1] = x /\ \A i \in 1..n : decoded'[i] = decoded[i]
    BY <1>1, <2>4, AddedFacts DEF n
  <2>6. \A i \in 1..Len(decoded') : EncodeFlat(PartKind(i), decoded'[i]) = block[i]
    <3> SUFFICES ASSUME NEW i \in 1..(n + 1) PROVE EncodeFlat(PartKind(i), decoded'[i]) = block[i]
      BY <2>5
    <3>1. CASE i = n + 1
      BY <2>4, <2>5, <3>1
    <3>2. CASE i # n + 1
      <4>1. i \in 1..n
        BY <2>2, <3>2
      <4> QED
        BY <2>1, <2>5, <4>1
    <3> QED
      BY <3>1, <3>2
  <2>7. Enveloped(block)'
    BY <1>2, <2>1 DEF Enveloped
  <2>8. CASE parts = <<>>
    <3>1. outcome' = "accepted" /\ parts' = parts
      BY <1>3, <2>8
    <3>2. Len(decoded') = Len(block)
      BY <2>2, <2>3, <2>5, <2>8
    <3>3. BlockReading(block)'
      BY <1>1, <2>1, <2>6, <2>7, <3>1, <3>2 DEF BlockReading
    <3> QED
      BY <1>1, <1>2, <2>5, <3>1, <3>3
  <2>9. CASE parts # <<>>
    <3>1. /\ Begin(Head(parts)[1], Head(parts)[2]) /\ parts' = Tail(parts) /\ outcome' = "reading"
      BY <1>1, <1>3, <2>9
    <3>2. /\ Len(parts) > 0 /\ Head(parts) = parts[1] /\ parts' \in Seq(Kinds \X Seq(Byte))
          /\ Len(parts') = Len(parts) - 1
          /\ \A i \in 1..(Len(parts) - 1) : parts'[i] = parts[i + 1]
      BY <2>9, <3>1, HeadFacts
    <3> DEFINE m == (n + 1) + 1
    <3>3. parts[1] = <<PartKind(m), block[m]>>
      BY <2>2, <2>3, <3>2
    <3>4. Head(parts)[1] = PartKind(m) /\ Head(parts)[2] = block[m]
      BY <3>2, <3>3
    <3>5. m \in 1..Len(block) /\ block[m] \in Seq(Byte)
      <4>1. m \in 1..Len(block)
        BY <2>2, <2>3, <3>2
      <4> HIDE DEF m
      <4> QED
        BY <2>1, <4>1 DEF Enveloped
    <3>6. /\ current' = PartKind(m) /\ rest' = block[m] /\ got' = <<>>
          /\ fields' = DomainField(PartKind(m)) \o Layout(PartKind(m))
      BY <3>1, <3>4 DEF Begin
    <3>7. Stage(current', fields', got', rest', block[m])
      <4>1. PartKind(m) \in Kinds
        BY KindFacts
      <4> HIDE DEF m
      <4> QED
        BY <3>5, <3>6, <4>1, BeginStage
    <3>8. Len(parts') = Len(block) - m
      BY <2>2, <2>3, <3>2
    <3>9. \A j \in 1..Len(parts') : parts'[j] = <<PartKind(m + j), block[m + j]>>
      <4> SUFFICES ASSUME NEW j \in 1..Len(parts') PROVE parts'[j] = <<PartKind(m + j), block[m + j]>>
        OBVIOUS
      <4>1. j \in 1..(Len(parts) - 1) /\ j + 1 \in 1..Len(parts) /\ (n + 1) + (j + 1) = m + j
        BY <2>2, <3>2
      <4>2. parts'[j] = parts[j + 1]
        BY <3>2, <4>1
      <4>3. parts[j + 1] = <<PartKind((n + 1) + (j + 1)), block[(n + 1) + (j + 1)]>>
        BY <2>3, <4>1
      <4> QED
        BY <4>1, <4>2, <4>3
    <3>10. Len(decoded') + 1 = m
      BY <2>5
    <3> HIDE DEF m
    <3>11. PartReading(block, Len(decoded) + 1)'
      <4>1. m <= Len(block)
        BY <2>2, <3>5
      <4>2. /\ m <= Len(block) /\ current' = PartKind(m) /\ Stage(current', fields', got', rest', block[m])
            /\ Len(parts') = Len(block) - m
            /\ \A j \in 1..Len(parts') : parts'[j] = <<PartKind(m + j), block[m + j]>>
        BY <3>6, <3>7, <3>8, <3>9, <4>1
      <4> QED
        BY <3>10, <4>2 DEF PartReading
    <3>12. BlockReading(block)'
      BY <1>1, <2>1, <2>6, <2>7, <3>1, <3>11 DEF BlockReading
    <3> QED
      BY <1>1, <1>2, <2>5, <3>1, <3>2, <3>12
  <2> QED
    BY <2>8, <2>9
<1> QED
  BY <1>1, <1>5, <1>6 DEF WholeAccepted

LEMMA DecodingStep == DecodingIInv /\ [ReaderNext]_readerVars => DecodingIInv'
<1> SUFFICES ASSUME DecodingIInv, [ReaderNext]_readerVars PROVE DecodingIInv'
  OBVIOUS
<1>1. CASE ReaderNext
  <2>1. ASSUME NEW k \in Kinds, Start(k) PROVE DecodingIInv'
    BY <2>1, StartStep
  <2> QED
    BY <1>1, <2>1, EditStep, ReadStep, RefuseStep, EnvelopeStep, DecodedStep DEF ReaderNext
<1>2. CASE UNCHANGED readerVars
  BY <1>2 DEF readerVars, inputVars, partVars, DecodingIInv, DecodingTyped, WholeReading,
              WholeAccepted, BlockReading, Enveloped, PartReading
<1> QED
  BY <1>1, <1>2

(* Whatever bytes a decoder was given, what CanonicalReader has read of them,
   written again, and what is left are those bytes; of a block, part by part. *)
THEOREM DecodingInvariance == ReaderSpec => []DecodingIInv
<1>1. ReaderInit => DecodingIInv
  BY DecodingInit
<1>2. DecodingIInv /\ [ReaderNext]_readerVars => DecodingIInv'
  BY DecodingStep
<1> QED
  BY <1>1, <1>2, PTL DEF ReaderSpec

LEMMA FromThird ==
  ASSUME NEW T, NEW s \in Seq(T), Len(s) >= 2
  PROVE  LET w == SubSeq(s, 3, Len(s))
         IN  w \in Seq(T) /\ Len(w) = Len(s) - 2 /\ \A i \in 1..(Len(s) - 2) : w[i] = s[i + 2]
<1>1. 2 \in 0..Len(s) /\ 2 + 1 = 3
  OBVIOUS
<1>2. SubSeq(s, 2 + 1, Len(s)) \in Seq(T) /\ Len(SubSeq(s, 2 + 1, Len(s))) = Len(s) - 2
  BY <1>1, SplitFacts DEF SplitsAt
<1>3. \A i \in 1..(Len(s) - 2) : SubSeq(s, 3, Len(s))[i] = s[i + 2]
  OBVIOUS
<1> QED
  BY <1>1, <1>2, <1>3

(* A decoder that has accepted has the encoder's bytes. *)
LEMMA AcceptedFacts == DecodingIInv => AcceptedIsCanonical
<1> SUFFICES ASSUME DecodingIInv, outcome = "accepted"
             PROVE  Encode(decoder, Result) = encoded
  BY DEF AcceptedIsCanonical
<1>1. decoder # NoKind /\ ~WholeReading /\ decoded \in Seq(ReadValues)
  BY DEF DecodingIInv, DecodingTyped, WholeReading
<1>2. CASE WholeAccepted
  BY <1>2 DEF WholeAccepted, Encode, Result
<1>3. ASSUME NEW block, BlockReading(block) PROVE Encode(decoder, Result) = encoded
  <2> DEFINE n == Len(decoded)
             w == SubSeq(decoded, 3, n)
  <2>1. /\ decoder = "Block" /\ Enveloped(block) /\ n = Len(block)
        /\ \A i \in 1..n : EncodeFlat(PartKind(i), decoded[i]) = block[i]
    BY <1>3 DEF BlockReading
  <2>2. n \in Nat /\ n >= 2 /\ block \in Seq(Seq(Byte))
    BY <2>1 DEF Enveloped
  <2>3. Result = <<decoded[1], decoded[2], w>>
    BY <2>1 DEF Result
  <2>4. /\ EncodeFlat("BlockHeader", decoded[1]) = block[1]
        /\ EncodeFlat("RewardTransaction", decoded[2]) = block[2]
    <3>1. 1 \in 1..n /\ 2 \in 1..n /\ PartKind(1) = "BlockHeader" /\ PartKind(2) = "RewardTransaction"
      BY <2>2 DEF PartKind
    <3> QED
      BY <2>1, <3>1
  <2>5. w \in Seq(ReadValues) /\ Len(w) = n - 2 /\ \A i \in 1..(n - 2) : w[i] = decoded[i + 2]
    BY <1>1, <2>2, FromThird
  <2> HIDE DEF w, n
  <2> DEFINE c == SubSeq(block, 3, Len(block))
             e == [i \in DOMAIN w |-> EncodeFlat("Transaction", w[i])]
  <2>6. c \in Seq(Seq(Byte)) /\ Len(c) = n - 2 /\ \A i \in 1..(n - 2) : c[i] = block[i + 2]
    BY <2>1, <2>2, FromThird
  <2>7. e = c
    <3>1. DOMAIN w = 1..(n - 2) /\ n - 2 \in Nat
      BY <2>2, <2>5
    <3>2. \A i \in 1..(n - 2) : e[i] = c[i]
      <4> SUFFICES ASSUME NEW i \in 1..(n - 2) PROVE e[i] = c[i]
        OBVIOUS
      <4>1. i + 2 \in 1..n /\ i + 2 # 1 /\ i + 2 # 2
        BY <2>2
      <4>2. PartKind(i + 2) = "Transaction"
        BY <4>1 DEF PartKind
      <4>3. EncodeFlat("Transaction", decoded[i + 2]) = block[i + 2]
        BY <2>1, <4>1, <4>2
      <4>4. e[i] = EncodeFlat("Transaction", w[i])
        BY <3>1
      <4> HIDE DEF e, c
      <4> QED
        BY <2>5, <2>6, <4>3, <4>4
    <3>3. DOMAIN c = 1..(n - 2) /\ c = [i \in 1..(n - 2) |-> c[i]]
      <4> HIDE DEF c
      <4> QED
        BY <2>6, <3>1
    <3>4. e = [i \in 1..(n - 2) |-> e[i]]
      BY <3>1
    <3> HIDE DEF e, c
    <3> QED
      BY <3>2, <3>3, <3>4
  <2>8. Encode(decoder, Result) = EncodeFlat("Block", BlockParts(Result))
    BY <2>1 DEF Encode
  <2>9. BlockParts(Result) = <<block[1], block[2], c>>
    <3>1. Result[1] = decoded[1] /\ Result[2] = decoded[2] /\ Result[3] = w
      BY <2>3
    <3>2. BlockParts(Result) = <<EncodeFlat("BlockHeader", decoded[1]),
                                 EncodeFlat("RewardTransaction", decoded[2]), e>>
      BY <3>1 DEF BlockParts
    <3> HIDE DEF e, c
    <3> QED
      BY <2>4, <2>7, <3>2
  <2> QED
    BY <2>1, <2>8, <2>9 DEF Enveloped
<1> QED
  BY <1>1, <1>2, <1>3 DEF DecodingIInv

(* A decoder (from_bytes, decode_block, decode_ping) accepts only the bytes that
   the encoder makes of the value it returns: for all bytes that any edits make,
   every alphabet, every width, limit and domain. *)
THEOREM AcceptedIsCanonicalTheorem == ReaderSpec => []AcceptedIsCanonical
BY DecodingInvariance, AcceptedFacts, PTL

-----------------------------------------------------------------------------
(* The pieces from the j-th on. *)
Suffix(n, p, j) == [i \in 1..(n - j) |-> p[j + i]]

LEMMA SuffixFacts ==
  ASSUME NEW n, NEW p, BytePieces(n, p), NEW j \in 0..n
  PROVE  /\ n - j \in Nat /\ BytePieces(n - j, Suffix(n, p, j))
         /\ Join(n - j, Suffix(n, p, j)) \in Seq(Byte)
         /\ j = n => Join(n - j, Suffix(n, p, j)) = <<>>
         /\ j = 0 => Join(n - j, Suffix(n, p, j)) = Join(n, p)
         /\ j < n => /\ p[j + 1] \in Seq(Byte)
                     /\ Join(n - (j + 1), Suffix(n, p, j + 1)) \in Seq(Byte)
                     /\ Join(n - j, Suffix(n, p, j))
                          = p[j + 1] \o Join(n - (j + 1), Suffix(n, p, j + 1))
<1>1. n \in Nat /\ \A i \in 1..n : p[i] \in Seq(Byte)
  BY DEF BytePieces
<1>2. \A l \in 0..n : BytePieces(n - l, Suffix(n, p, l)) /\ n - l \in Nat
  <2> SUFFICES ASSUME NEW l \in 0..n PROVE BytePieces(n - l, Suffix(n, p, l)) /\ n - l \in Nat
    OBVIOUS
  <2>1. n - l \in Nat
    BY <1>1
  <2>2. \A i \in 1..(n - l) : l + i \in 1..n
    BY <1>1
  <2>3. \A i \in 1..(n - l) : Suffix(n, p, l)[i] \in Seq(Byte)
    BY <1>1, <2>2 DEF Suffix
  <2> QED
    BY <2>1, <2>3 DEF BytePieces
<1>3. \A l \in 0..n : Join(n - l, Suffix(n, p, l)) \in Seq(Byte)
  BY <1>2, JoinFacts
<1>4. ASSUME j = n PROVE Join(n - j, Suffix(n, p, j)) = <<>>
  <2>1. n - j = 0
    BY <1>1, <1>4
  <2>2. BytePieces(n - j, Suffix(n, p, j))
    BY <1>2
  <2> QED
    BY <2>1, <2>2, JoinFacts
<1>5. ASSUME j = 0 PROVE Join(n - j, Suffix(n, p, j)) = Join(n, p)
  <2>1. n - j = n /\ \A i \in 1..n : j + i = i
    BY <1>1, <1>5
  <2>2. \A i \in 1..n : p[i] = Suffix(n, p, j)[i]
    BY <2>1 DEF Suffix
  <2>3. BytePieces(n, Suffix(n, p, j))
    BY <1>2, <2>1
  <2> QED
    BY <2>1, <2>2, <2>3, JoinFacts
<1>6. ASSUME j < n
      PROVE  /\ p[j + 1] \in Seq(Byte)
             /\ Join(n - (j + 1), Suffix(n, p, j + 1)) \in Seq(Byte)
             /\ Join(n - j, Suffix(n, p, j))
                  = p[j + 1] \o Join(n - (j + 1), Suffix(n, p, j + 1))
  <2> DEFINE x1 == Suffix(n, p, j)
             x2 == Suffix(n, p, j + 1)
             m == n - (j + 1)
  <2>1. j + 1 \in 0..n /\ j + 1 \in 1..n /\ m \in Nat /\ m + 1 = n - j
    BY <1>1, <1>6
  <2>2. BytePieces(m + 1, x1) /\ BytePieces(m, x2)
    BY <1>2, <2>1
  <2>3. x1[1] = p[j + 1]
    <3>1. 1 \in 1..(n - j)
      BY <1>1, <2>1
    <3> QED
      BY <3>1 DEF Suffix
  <2>4. \A i \in 1..m : x2[i] = x1[i + 1]
    <3> SUFFICES ASSUME NEW i \in 1..m PROVE x2[i] = x1[i + 1]
      OBVIOUS
    <3>1. i + 1 \in 1..(n - j) /\ i \in 1..(n - (j + 1)) /\ j + (i + 1) = (j + 1) + i
      BY <1>1, <2>1
    <3>2. x2[i] = p[(j + 1) + i]
      BY <3>1 DEF Suffix
    <3>3. x1[i + 1] = p[j + (i + 1)]
      BY <3>1 DEF Suffix
    <3> QED
      BY <3>1, <3>2, <3>3
  <2> HIDE DEF x1, x2, m
  <2>5. Join(m + 1, x1) = x1[1] \o Join(m, x2) /\ x1[1] \in Seq(Byte)
    BY <2>1, <2>2, <2>4, JoinFirst
  <2>6. Join(m, x2) \in Seq(Byte)
    BY <2>2, JoinFacts
  <2> QED
    BY <2>1, <2>3, <2>5, <2>6 DEF x1, x2, m
<1> QED
  BY <1>2, <1>3, <1>4, <1>5, <1>6

-----------------------------------------------------------------------------
(* What the decoder finds where a number or bytes were written. *)
LEMMA UintFound ==
  ASSUME rest \in Seq(Byte), NEW w \in Nat, NEW x, FitsWidth(x, w), NEW t \in Seq(Byte),
         rest = EncodeUint(x, w) \o t
  PROVE  HasUint(w) /\ DecodeUint(Take(w)) = x /\ Leave(w) = t
<1> DEFINE x1 == EncodeUint(x, w)
<1>1. x1 \in Seq(Byte) /\ Len(x1) = w /\ DecodeUint(x1) = x
  BY FitsFacts
<1> HIDE DEF x1
<1>2. SubSeq(x1 \o t, 1, Len(x1)) = x1 /\ SubSeq(x1 \o t, Len(x1) + 1, Len(x1 \o t)) = t
  BY <1>1, UnCat
<1>3. Len(x1 \o t) = Len(x1) + Len(t) /\ Len(t) \in Nat
  BY <1>1, CatTyped
<1>4. rest = x1 \o t
  BY DEF x1
<1>5. Take(w) = x1 /\ Leave(w) = t
  BY <1>1, <1>2, <1>4 DEF Take, Leave
<1>6. HasUint(w)
  BY <1>1, <1>3, <1>4 DEF HasUint
<1> QED
  BY <1>1, <1>5, <1>6

(* The length, the bytes of a string and what follows it, cut after the length. *)
LEMMA BytesCut ==
  ASSUME NEW s \in Seq(Byte), NEW x1 \in Seq(Byte), NEW t \in Seq(Byte),
         EncodeBytes(s) = x1 \o s, rest = EncodeBytes(s) \o t
  PROVE  rest = x1 \o (s \o t) /\ s \o t \in Seq(Byte)
<1>1. (x1 \o s) \o t = x1 \o (s \o t)
  BY CatAssoc
<1>2. s \o t \in Seq(Byte)
  BY CatTyped
<1>3. rest = (x1 \o s) \o t
  OBVIOUS
<1> QED
  BY <1>1, <1>2, <1>3

LEMMA BytesFound ==
  ASSUME rest \in Seq(Byte), NEW s, Prefixable(s), NEW t \in Seq(Byte), rest = EncodeBytes(s) \o t
  PROVE  /\ Length = Len(s) /\ NextBytes = s /\ Leave(U32Width + Length) = t
         /\ \A n \in Nat : Len(s) <= n => HasBytes(n)
<1> DEFINE x1 == EncodeUint(Len(s), U32Width)
           w == U32Width
           u == s \o t
           n == Len(s)
<1>1. /\ x1 \in Seq(Byte) /\ Len(x1) = w /\ EncodeBytes(s) = x1 \o s
      /\ w \in Nat /\ FitsWidth(n, w) /\ s \in Seq(Byte) /\ n \in Nat
  BY PrefixableFacts, WidthsFacts DEF Prefixable
<1> HIDE DEF x1
<1>2. rest = x1 \o u /\ u \in Seq(Byte)
  <2> HIDE DEF n, w
  <2> QED
    BY <1>1, BytesCut
<1>3. HasUint(w) /\ DecodeUint(Take(w)) = n /\ Leave(w) = u
  <2> HIDE DEF n, u, w
  <2> QED
    BY <1>1, <1>2, UintFound DEF x1, w, n
<1>4. Length = n
  BY <1>3 DEF Length
<1>5. Len(u) = n + Len(t) /\ Len(rest) = w + Len(u) /\ Len(t) \in Nat
  <2> HIDE DEF w
  <2> QED
    BY <1>1, <1>2, CatTyped
<1>6. ASSUME NEW m \in Nat, n <= m PROVE HasBytes(m)
  <2>1. Len(rest) - w >= n
    <3> HIDE DEF n, u, w
    <3> QED
      BY <1>1, <1>5
  <2> QED
    BY <1>3, <1>4, <1>6, <2>1 DEF HasBytes
<1> DEFINE z == NextBytes
           y == Leave(U32Width + Length)
<1>7. /\ z \in Seq(Byte) /\ Len(z) = n /\ y \in Seq(Byte)
      /\ EncodeBytes(z) = x1 \o z /\ rest = EncodeBytes(z) \o y
  <2>1. HasBytes(n)
    BY <1>1, <1>6
  <2>2. z \in Seq(Byte) /\ Len(z) = n /\ y \in Seq(Byte) /\ rest = EncodeBytes(z) \o y
    BY <1>4, <2>1, NextBytesFacts
  <2>3. EncodeBytes(z) = EncodeUint(Len(z), U32Width) \o z
    BY DEF EncodeBytes
  <2> QED
    BY <2>2, <2>3 DEF x1
<1> HIDE DEF z, y, n, u, w
<1>8. x1 \o (z \o y) = x1 \o u /\ z \o y \in Seq(Byte)
  <2>1. rest = x1 \o (z \o y) /\ z \o y \in Seq(Byte)
    BY <1>1, <1>7, BytesCut
  <2> QED
    BY <1>2, <2>1
<1>9. z \o y = u
  <2>1. /\ SubSeq(x1 \o (z \o y), Len(x1) + 1, Len(x1 \o (z \o y))) = z \o y
        /\ SubSeq(x1 \o u, Len(x1) + 1, Len(x1 \o u)) = u
    BY <1>1, <1>2, <1>8, UnCat
  <2> QED
    BY <1>8, <2>1
<1>10. z = s /\ y = t
  <2>1. /\ SubSeq(z \o y, 1, Len(z)) = z /\ SubSeq(z \o y, Len(z) + 1, Len(z \o y)) = y
        /\ SubSeq(s \o t, 1, Len(s)) = s /\ SubSeq(s \o t, Len(s) + 1, Len(s \o t)) = t
    BY <1>1, <1>7, UnCat
  <2>2. z \o y = s \o t /\ Len(z) = Len(s)
    BY <1>7, <1>9 DEF u, n
  <2> QED
    BY <2>1, <2>2
<1> QED
  BY <1>4, <1>6, <1>10 DEF z, y, n

-----------------------------------------------------------------------------
(* How far a decoder is with the bytes of a value v: what has been read is of the
   value, and what remains is the encoding of what has not been read. *)
ItemsOf(k, v) == v[Len(Layout(k))]

SentDomain(k, v, fs, g, r) ==
  k # "Ping" /\ fs = DomainField(k) \o Layout(k) /\ g = <<>> /\ r = EncodeFlat(k, v)

SentField(k, v, fs, g, r) ==
  LET n == Len(Layout(k))
      j == Len(g)
  IN  /\ j <= n /\ (j = n => k \notin SequenceKinds)
      /\ Len(fs) = n - j /\ \A i \in 1..(n - j) : fs[i] = Layout(k)[j + i]
      /\ \A i \in 1..j : g[i] = Normalized(Layout(k)[i], v[i])
      /\ r = Join(n - j, Suffix(n, FieldPieces(k, v), j))

SentItem(k, v, fs, g, r) ==
  LET n == Len(Layout(k))
      c == Len(ItemsOf(k, v))
      m == Len(g) - (n - 1)
  IN  /\ k \in SequenceKinds /\ m \in 0..c
      /\ Len(fs) = c - m /\ \A i \in 1..(c - m) : fs[i] = Item(Layout(k)[n])
      /\ \A i \in 1..(n - 1) : g[i] = Normalized(Layout(k)[i], v[i])
      /\ \A i \in 1..m : g[(n - 1) + i] = ItemsOf(k, v)[i]
      /\ r = Join(c - m, Suffix(c, WrittenItems(ItemsOf(k, v)), m))

Sent(k, v, fs, g, r) ==
  /\ EncodableFlat(k, v)
  /\ SentDomain(k, v, fs, g, r) \/ SentField(k, v, fs, g, r) \/ SentItem(k, v, fs, g, r)

LEMMA BeginSent ==
  ASSUME NEW k \in Kinds, NEW v, EncodableFlat(k, v)
  PROVE  Sent(k, v, DomainField(k) \o Layout(k), <<>>, EncodeFlat(k, v))
<1> DEFINE L == Layout(k)
           n == Len(L)
           p == FieldPieces(k, v)
<1>1. LayoutOf(k, L) /\ n \in Nat /\ n # 0 /\ L \in Seq(FieldRecords)
  BY LayoutFacts DEF LayoutOf
<1>2. CASE k # "Ping"
  BY <1>2 DEF Sent, SentDomain
<1>3. CASE k = "Ping"
  <2>1. DomainField(k) \o L = L
    BY <1>1, <1>3 DEF DomainField
  <2>2. EncodeFlat(k, v) = EncodeDomain(k) \o Join(n, p) /\ BytePieces(n, p)
    BY FlatEncoded
  <2>3. EncodeDomain(k) = <<>> /\ Join(n, p) \in Seq(Byte)
    BY <1>3, <2>2, DomainFacts, JoinFacts
  <2>4. EncodeFlat(k, v) = Join(n, p)
    <3> HIDE DEF n, p
    <3>1. <<>> \o Join(n, p) = Join(n, p)
      BY <2>3, CatFacts
    <3> QED
      BY <2>2, <2>3, <3>1
  <2>5. Join(n - 0, Suffix(n, p, 0)) = Join(n, p)
    <3>1. 0 \in 0..n
      BY <1>1
    <3> HIDE DEF n, p
    <3> QED
      BY <2>2, <3>1, SuffixFacts
  <2>6. Len(<<>>) = 0 /\ n - 0 = n /\ \A i \in 1..n : L[i] = L[0 + i]
    BY <1>1
  <2>7. SentField(k, v, L, <<>>, EncodeFlat(k, v))
    BY <1>1, <2>4, <2>5, <2>6 DEF SentField
  <2> QED
    BY <2>1, <2>7 DEF Sent
<1> QED
  BY <1>2, <1>3

(* Before the fields comes the domain. *)
LEMMA SentDomainFacts ==
  ASSUME NEW k \in Kinds, NEW v, NEW fs, NEW g, NEW r,
         EncodableFlat(k, v), SentDomain(k, v, fs, g, r)
  PROVE  /\ fs # <<>> /\ Head(fs) = Field("domain", Len(Domain[k])) /\ Tail(fs) = Layout(k)
         /\ Head(fs).type = "domain" /\ Head(fs).size = Len(Domain[k]) /\ Len(Domain[k]) \in Nat
         /\ Prefixable(Domain[k])
         /\ LET t == Join(Len(Layout(k)), FieldPieces(k, v))
            IN  /\ t \in Seq(Byte) /\ r = EncodeBytes(Domain[k]) \o t
                /\ SentField(k, v, Tail(fs), g, t)
<1> DEFINE L == Layout(k)
           n == Len(L)
           p == FieldPieces(k, v)
           t == Join(n, p)
<1>1. LayoutOf(k, L) /\ n \in Nat /\ n # 0 /\ L \in Seq(FieldRecords)
  BY LayoutFacts DEF LayoutOf
<1>2. k # "Ping" /\ fs = DomainField(k) \o L /\ g = <<>> /\ r = EncodeFlat(k, v)
  BY DEF SentDomain
<1>3. /\ fs # <<>> /\ Head(fs) = Field("domain", Len(Domain[k])) /\ Tail(fs) = L
      /\ Head(fs).type = "domain"
  <2>1. AtDomain(k, fs, g, r, r)
    BY <1>2 DEF AtDomain
  <2> QED
    BY <2>1, DomainFirst
<1>4. Prefixable(Domain[k]) /\ EncodeDomain(k) = EncodeBytes(Domain[k])
  BY <1>2, DomainFacts DEF Prefixable
<1>5. EncodeFlat(k, v) = EncodeDomain(k) \o t /\ BytePieces(n, p)
  BY FlatEncoded
<1>6. t \in Seq(Byte)
  BY <1>5, JoinFacts
<1>7. SentField(k, v, L, <<>>, t)
  <2>1. Join(n - 0, Suffix(n, p, 0)) = t
    <3>1. 0 \in 0..n
      BY <1>1
    <3> HIDE DEF n, p
    <3> QED
      BY <1>5, <3>1, SuffixFacts
  <2>2. Len(<<>>) = 0 /\ n - 0 = n /\ \A i \in 1..n : L[i] = L[0 + i]
    BY <1>1
  <2> HIDE DEF t
  <2> QED
    BY <1>1, <2>1, <2>2 DEF SentField
<1>8. Head(fs).size = Len(Domain[k]) /\ Len(Domain[k]) \in Nat
  BY <1>3, <1>4 DEF Field, Prefixable
<1> HIDE DEF t
<1> QED
  BY <1>2, <1>3, <1>4, <1>5, <1>6, <1>7, <1>8 DEF t

(* A field's encoding stands in front. *)
After(k, v, g) == Join(Len(Layout(k)) - (Len(g) + 1), Suffix(Len(Layout(k)), FieldPieces(k, v), Len(g) + 1))

LEMMA SentFieldFacts ==
  ASSUME NEW k \in Kinds, NEW v, NEW fs \in Seq(FieldRecords), fs # <<>>, NEW g \in Seq(Content), NEW r,
         EncodableFlat(k, v), SentField(k, v, fs, g, r)
  PROVE  LET f == Head(fs)
             x == v[Len(g) + 1]
             t == After(k, v, g)
         IN  /\ Len(g) \in Nat /\ Len(g) < Len(Layout(k)) /\ f = Layout(k)[Len(g) + 1]
             /\ Measured(f) /\ Encodable(f, x)
             /\ t \in Seq(Byte) /\ EncodeField(f, x) \in Seq(Byte) /\ r = EncodeField(f, x) \o t
<1> DEFINE L == Layout(k)
           n == Len(L)
           p == FieldPieces(k, v)
           j == Len(g)
           t == After(k, v, g)
<1>1. LayoutOf(k, L) /\ n \in Nat /\ j \in Nat /\ Len(fs) \in Nat /\ Len(fs) > 0 /\ Head(fs) = fs[1]
  BY LayoutFacts, HeadFacts DEF LayoutOf
<1>2. /\ j <= n /\ Len(fs) = n - j /\ \A i \in 1..(n - j) : fs[i] = L[j + i]
      /\ r = Join(n - j, Suffix(n, p, j))
  BY DEF SentField
<1>3. j < n /\ j \in 0..n /\ 1 \in 1..(n - j) /\ j + 1 \in 1..n
  BY <1>1, <1>2
<1>4. Head(fs) = L[j + 1]
  BY <1>1, <1>2, <1>3
<1>5. BytePieces(n, p) /\ Encodable(L[j + 1], v[j + 1])
  BY <1>3, FlatEncoded
<1>6. Measured(L[j + 1])
  BY <1>3, LayoutMeasured
<1>7. p[j + 1] = EncodeField(L[j + 1], v[j + 1])
  BY <1>3 DEF FieldPieces
<1>8. /\ p[j + 1] \in Seq(Byte) /\ t \in Seq(Byte)
      /\ Join(n - j, Suffix(n, p, j)) = p[j + 1] \o t
  <2>1. t = Join(n - (j + 1), Suffix(n, p, j + 1))
    BY DEF After
  <2> HIDE DEF n, p, j, t
  <2> QED
    BY <1>3, <1>5, <2>1, SuffixFacts
<1> HIDE DEF t
<1> QED
  BY <1>1, <1>2, <1>3, <1>4, <1>5, <1>6, <1>7, <1>8 DEF t

LEMMA SentFieldRead ==
  ASSUME NEW k \in Kinds, NEW v, NEW fs \in Seq(FieldRecords), fs # <<>>, NEW g \in Seq(Content), NEW r,
         EncodableFlat(k, v), SentField(k, v, fs, g, r), Head(fs).type \in PlainTypes,
         NEW y \in Content, y = Normalized(Head(fs), v[Len(g) + 1])
  PROVE  SentField(k, v, Tail(fs), Append(g, y), After(k, v, g))
<1> DEFINE L == Layout(k)
           n == Len(L)
           j == Len(g)
           h == Append(g, y)
<1>1. /\ LayoutOf(k, L) /\ n \in Nat /\ j \in Nat
      /\ Len(fs) \in Nat /\ Len(Tail(fs)) = Len(fs) - 1
      /\ \A i \in 1..(Len(fs) - 1) : Tail(fs)[i] = fs[i + 1]
  BY LayoutFacts, HeadFacts DEF LayoutOf
<1>2. /\ Len(fs) = n - j /\ \A i \in 1..(n - j) : fs[i] = L[j + i]
      /\ \A i \in 1..j : g[i] = Normalized(L[i], v[i])
  BY DEF SentField
<1>3. j < n /\ Head(fs) = L[j + 1]
  BY SentFieldFacts
<1>4. Len(h) = j + 1 /\ h[j + 1] = y /\ \A i \in 1..j : h[i] = g[i]
  BY AddedFacts
<1> HIDE DEF h
<1>5. \A i \in 1..(j + 1) : h[i] = Normalized(L[i], v[i])
  <2> SUFFICES ASSUME NEW i \in 1..(j + 1) PROVE h[i] = Normalized(L[i], v[i])
    OBVIOUS
  <2>1. CASE i = j + 1
    BY <1>3, <1>4, <2>1
  <2>2. CASE i # j + 1
    <3>1. i \in 1..j
      BY <1>1, <2>2
    <3> QED
      BY <1>2, <1>4, <3>1
  <2> QED
    BY <2>1, <2>2
<1>6. j + 1 = n => k \notin SequenceKinds
  <2> SUFFICES ASSUME j + 1 = n, k \in SequenceKinds PROVE FALSE
    OBVIOUS
  <2>1. L[n].type \in SequenceTypes
    BY <1>1 DEF LayoutOf
  <2> QED
    BY <1>3, <2>1 DEF SequenceTypes, PlainTypes
<1>7. Len(Tail(fs)) = n - (j + 1) /\ \A i \in 1..(n - (j + 1)) : Tail(fs)[i] = L[(j + 1) + i]
  <2>1. Len(Tail(fs)) = n - (j + 1) /\ Len(fs) - 1 = n - (j + 1)
    BY <1>1, <1>2
  <2>2. ASSUME NEW i \in 1..(n - (j + 1)) PROVE Tail(fs)[i] = L[(j + 1) + i]
    <3>1. i + 1 \in 1..(n - j) /\ j + (i + 1) = (j + 1) + i
      BY <1>1
    <3> QED
      BY <1>1, <1>2, <2>1, <3>1
  <2> QED
    BY <2>1, <2>2
<1>8. j + 1 <= n
  BY <1>1, <1>3
<1> QED
  BY <1>4, <1>5, <1>6, <1>7, <1>8 DEF SentField, After, h

(* The last field of a value is a sequence. *)
LEMMA SequenceFacts ==
  ASSUME NEW k \in Kinds, k \in SequenceKinds, NEW v, EncodableFlat(k, v)
  PROVE  LET f == Layout(k)[Len(Layout(k))]
         IN  /\ Len(Layout(k)) \in Nat /\ Len(Layout(k)) \in 1..Len(Layout(k))
             /\ f.type \in SequenceTypes /\ Measured(f) /\ Encodable(f, ItemsOf(k, v))
<1> DEFINE L == Layout(k)
           n == Len(L)
<1>1. LayoutOf(k, L) /\ n \in Nat /\ n # 0 /\ L[n].type \in SequenceTypes
  BY LayoutFacts DEF LayoutOf
<1>2. n \in 1..n
  BY <1>1
<1> QED
  BY <1>1, <1>2, LayoutMeasured, FlatEncoded DEF ItemsOf

(* The number of items, and then the items. *)
LEMMA SentCountRead ==
  ASSUME NEW k \in Kinds, NEW v, NEW fs \in Seq(FieldRecords), fs # <<>>, NEW g \in Seq(Content), NEW r,
         EncodableFlat(k, v), SentField(k, v, fs, g, r), Head(fs).type \in SequenceTypes
  PROVE  LET f == Head(fs)
             x == ItemsOf(k, v)
             c == Len(x)
             t == Join(c, WrittenItems(x))
         IN  /\ Measured(f) /\ Encodable(f, x) /\ c \in Nat /\ c <= f.items /\ (f.type = "hashes" => c > 0)
             /\ FitsWidth(c, U32Width)
             /\ t \in Seq(Byte) /\ r = EncodeUint(c, U32Width) \o t
             /\ SentItem(k, v, [i \in 1..c |-> Item(f)] \o Tail(fs), g, t)
<1> DEFINE L == Layout(k)
           n == Len(L)
           j == Len(g)
           f == Head(fs)
           x == ItemsOf(k, v)
           c == Len(x)
           t == Join(c, WrittenItems(x))
<1>1. /\ LayoutOf(k, L) /\ n \in Nat /\ j \in Nat
      /\ Len(fs) \in Nat /\ Len(Tail(fs)) = Len(fs) - 1 /\ Tail(fs) \in Seq(FieldRecords)
  BY LayoutFacts, HeadFacts DEF LayoutOf
<1>2. /\ j < n /\ f = L[j + 1] /\ Measured(f) /\ Encodable(f, v[j + 1])
      /\ r = EncodeField(f, v[j + 1]) \o After(k, v, g)
  BY SentFieldFacts
<1>3. j + 1 = n /\ k \in SequenceKinds
  <2>1. j + 1 \in 1..n
    BY <1>1, <1>2
  <2>2. f.type \notin PlainTypes
    BY DEF SequenceTypes, PlainTypes
  <2> HIDE DEF f, n, j
  <2> QED
    BY <1>1, <1>2, <2>1, <2>2 DEF LayoutOf, n
<1>4. Len(fs) = n - j /\ \A i \in 1..j : g[i] = Normalized(L[i], v[i])
  BY DEF SentField
<1>5. Tail(fs) = <<>>
  <2> DEFINE e == Tail(fs)
             l == Len(fs)
  <2>1. e \in Seq(FieldRecords) /\ Len(e) = l - 1 /\ l = n - j /\ j + 1 = n
    BY <1>1, <1>3, <1>4
  <2> HIDE DEF e, l, n, j
  <2>2. n \in Nat /\ j \in Nat
    BY <1>1
  <2>3. l - 1 = 0
    BY <2>1, <2>2
  <2>4. Len(e) = 0
    BY <2>1, <2>3
  <2>5. e = <<>>
    BY <2>1, <2>4
  <2> QED
    BY <2>5 DEF e
<1>6. x = v[j + 1]
  BY <1>3 DEF ItemsOf
<1>7. /\ x \in Seq(Seq(Byte)) /\ c \in Nat /\ c <= f.items /\ (f.type = "hashes" => c > 0)
      /\ EncodeUint(c, U32Width) \in Seq(Byte) /\ BytePieces(c, WrittenItems(x))
      /\ EncodeField(f, x) = EncodeUint(c, U32Width) \o t
  <2> HIDE DEF f, x
  <2> QED
    BY <1>2, <1>6, ItemsFacts DEF f
<1>8. FitsWidth(c, U32Width)
  <2>1. f.items \in Nat /\ \A i \in 0..f.items : FitsWidth(i, U32Width)
    BY <1>2 DEF Measured, FieldRecords
  <2>2. c \in 0..f.items
    BY <1>7, <2>1
  <2> QED
    BY <2>1, <2>2
<1>9. t \in Seq(Byte)
  BY <1>7, JoinFacts
<1>10. After(k, v, g) = <<>>
  <2>1. BytePieces(n, FieldPieces(k, v)) /\ n \in 0..n
    BY <1>1, FlatEncoded
  <2>2. After(k, v, g) = Join(n - n, Suffix(n, FieldPieces(k, v), n))
    BY <1>3 DEF After
  <2> HIDE DEF n
  <2> QED
    BY <2>1, <2>2, SuffixFacts
<1>11. r = EncodeUint(c, U32Width) \o t
  <2> HIDE DEF x, t, c
  <2>1. EncodeField(f, x) \in Seq(Byte)
    BY <1>7, <1>9, CatTyped
  <2>2. EncodeField(f, x) \o <<>> = EncodeField(f, x)
    BY <2>1, CatFacts
  <2> QED
    BY <1>2, <1>6, <1>7, <1>10, <2>2
<1> DEFINE items == [i \in 1..c |-> Item(f)]
<1>12. Len(items \o Tail(fs)) = c /\ \A i \in 1..c : (items \o Tail(fs))[i] = Item(f)
  <2>1. items \in Seq({Item(f)}) /\ Len(items) = c /\ \A i \in 1..c : items[i] = Item(f)
    BY <1>7
  <2> HIDE DEF items
  <2>2. items \o <<>> = items
    BY <2>1
  <2> QED
    BY <1>5, <2>1, <2>2
<1>13. SentItem(k, v, items \o Tail(fs), g, t)
  <2>1. j - (n - 1) = 0 /\ c - 0 = c /\ 0 \in 0..c /\ n - 1 = j
    BY <1>1, <1>3, <1>7
  <2>2. Join(c - 0, Suffix(c, WrittenItems(x), 0)) = t
    <3>1. 0 \in 0..c
      BY <2>1
    <3> HIDE DEF c, x
    <3> QED
      BY <1>7, <3>1, SuffixFacts
  <2>3. \A i \in 1..0 : FALSE
    OBVIOUS
  <2>4. f = L[n]
    BY <1>2, <1>3
  <2> HIDE DEF items, t, f
  <2> QED
    BY <1>3, <1>4, <1>12, <2>1, <2>2, <2>3, <2>4 DEF SentItem
<1> HIDE DEF t, items, f, x
<1> QED
  BY <1>2, <1>6, <1>7, <1>8, <1>9, <1>11, <1>13 DEF t, items, f, x

(* The next item. *)
LEMMA SentItemRead ==
  ASSUME NEW k \in Kinds, NEW v, NEW fs \in Seq(FieldRecords), fs # <<>>, NEW g \in Seq(Content), NEW r,
         EncodableFlat(k, v), SentItem(k, v, fs, g, r)
  PROVE  LET f == Head(fs)
         IN  /\ f.type \in {"exact", "bytes"} /\ f.size \in Nat
             /\ \E x, t : /\ Prefixable(x) /\ Encodable(f, x) /\ t \in Seq(Byte)
                          /\ r = EncodeBytes(x) \o t
                          /\ SentItem(k, v, Tail(fs), Append(g, x), t)
<1> DEFINE L == Layout(k)
           n == Len(L)
           f == L[n]
           y == ItemsOf(k, v)
           c == Len(y)
           m == Len(g) - (n - 1)
           x == y[m + 1]
           w == WrittenItems(y)
           t == Join(c - (m + 1), Suffix(c, w, m + 1))
           h == Append(g, x)
<1>1. /\ n \in Nat /\ n \in 1..n /\ Len(g) \in Nat
      /\ Len(fs) \in Nat /\ Len(fs) > 0 /\ Head(fs) = fs[1] /\ Head(fs) \in FieldRecords
      /\ Len(Tail(fs)) = Len(fs) - 1
      /\ \A i \in 1..(Len(fs) - 1) : Tail(fs)[i] = fs[i + 1]
  BY SequenceFacts, HeadFacts DEF SentItem
<1>2. /\ k \in SequenceKinds /\ m \in 0..c
      /\ Len(fs) = c - m /\ \A i \in 1..(c - m) : fs[i] = Item(f)
      /\ \A i \in 1..(n - 1) : g[i] = Normalized(L[i], v[i])
      /\ \A i \in 1..m : g[(n - 1) + i] = y[i]
      /\ r = Join(c - m, Suffix(c, w, m))
  BY DEF SentItem
<1>3. f.type \in SequenceTypes /\ Measured(f) /\ Encodable(f, y)
  BY <1>2, SequenceFacts
<1>4. /\ y \in Seq(Seq(Byte)) /\ c \in Nat /\ BytePieces(c, w)
      /\ \A i \in 1..c : Encodable(Item(f), y[i]) /\ Prefixable(y[i])
  BY <1>3, ItemsFacts
<1> HIDE DEF f, y
<1>5. m \in Nat /\ m < c /\ 1 \in 1..(c - m) /\ m + 1 \in 1..c
  BY <1>1, <1>2, <1>4
<1>6. Head(fs) = Item(f) /\ Encodable(Item(f), x) /\ Prefixable(x)
  BY <1>1, <1>2, <1>4, <1>5
<1>7. w[m + 1] = EncodeBytes(x)
  BY <1>5 DEF WrittenItems
<1>8. t \in Seq(Byte) /\ r = EncodeBytes(x) \o t
  <2> HIDE DEF c, m, x, w
  <2>1. BytePieces(c, w) /\ m \in 0..c /\ m < c
    BY <1>2, <1>4, <1>5
  <2>2. t \in Seq(Byte) /\ Join(c - m, Suffix(c, w, m)) = w[m + 1] \o t
    BY <2>1, SuffixFacts
  <2> QED
    BY <1>2, <1>7, <2>2
<1>9. x \in Content
  BY <1>6 DEF Prefixable, Content
<1>10. Len(h) = Len(g) + 1 /\ h[Len(g) + 1] = x /\ \A i \in 1..Len(g) : h[i] = g[i]
  <2> HIDE DEF x
  <2> QED
    BY <1>9, AddedFacts
<1> HIDE DEF h, x, w, t
<1>11. /\ Len(h) - (n - 1) = m + 1 /\ m + 1 \in 0..c
       /\ Len(Tail(fs)) = c - (m + 1)
  BY <1>1, <1>2, <1>5, <1>10
<1>12. \A i \in 1..(c - (m + 1)) : Tail(fs)[i] = Item(f)
  <2> SUFFICES ASSUME NEW i \in 1..(c - (m + 1)) PROVE Tail(fs)[i] = Item(f)
    OBVIOUS
  <2>1. i \in 1..(Len(fs) - 1) /\ i + 1 \in 1..(c - m)
    BY <1>2, <1>4, <1>5
  <2> QED
    BY <1>1, <1>2, <2>1
<1>13. \A i \in 1..(n - 1) : h[i] = Normalized(L[i], v[i])
  <2> SUFFICES ASSUME NEW i \in 1..(n - 1) PROVE h[i] = Normalized(L[i], v[i])
    OBVIOUS
  <2>1. i \in 1..Len(g)
    BY <1>1, <1>5
  <2> QED
    BY <1>2, <1>10, <2>1
<1>14. \A i \in 1..(m + 1) : h[(n - 1) + i] = y[i]
  <2> SUFFICES ASSUME NEW i \in 1..(m + 1) PROVE h[(n - 1) + i] = y[i]
    OBVIOUS
  <2>1. CASE i = m + 1
    <3>1. (n - 1) + i = Len(g) + 1
      BY <1>1, <2>1
    <3> QED
      BY <1>10, <2>1, <3>1 DEF x
  <2>2. CASE i # m + 1
    <3>1. i \in 1..m /\ (n - 1) + i \in 1..Len(g)
      BY <1>1, <1>5, <2>2
    <3> QED
      BY <1>2, <1>10, <3>1
  <2> QED
    BY <2>1, <2>2
<1>15. SentItem(k, v, Tail(fs), h, t)
  <2> HIDE DEF m, c
  <2> QED
    BY <1>2, <1>11, <1>12, <1>13, <1>14 DEF SentItem, f, y, c, t, w
<1>16. Item(f).type \in {"exact", "bytes"} /\ Item(f).size = f.size /\ f.size \in Nat
  BY <1>3 DEF Item, Field, Measured, FieldRecords
<1> QED
  BY <1>6, <1>8, <1>15, <1>16 DEF h

(* What has been written passes the tests, and is read as its normal form. *)
Converted(f, s) == IF f.type = "number" THEN DecodeUint(s) ELSE s

LEMMA SentProper ==
  ASSUME NEW f, f.size \in Nat, NEW x, Encodable(f, x),
         f.type \in {"bytes", "exact", "number", "text"}
  PROVE  /\ Proper(f, Inside(f, x))
         /\ Converted(f, Inside(f, x)) = Normalized(f, x)
         /\ Normalized(f, x) \in Content
<1>1. CASE f.type = "bytes"
  <2>1. x \in Seq(Byte)
    BY <1>1 DEF Encodable
  <2> QED
    BY <1>1, <2>1 DEF Proper, Inside, Normalized, Converted, Content
<1>2. CASE f.type = "exact"
  <2>1. x \in Seq(Byte) /\ Len(x) = f.size
    BY <1>2 DEF Encodable
  <2> QED
    BY <1>2, <2>1 DEF Proper, Inside, Normalized, Converted, Content
<1>3. CASE f.type = "number"
  <2>1. x > 0 /\ FitsWidth(x, f.size)
    BY <1>3 DEF Encodable
  <2>2. x \in Nat /\ Len(EncodeUint(x, f.size)) = f.size /\ DecodeUint(EncodeUint(x, f.size)) = x
    BY <2>1, FitsFacts
  <2> QED
    BY <1>3, <2>1, <2>2 DEF Proper, Inside, Normalized, Converted, Content
<1>4. CASE f.type = "text"
  <2>1. x \in Seq(Byte) /\ Utf8(x)
    BY <1>4 DEF Encodable
  <2>2. Nfc[x] \in Seq(Byte) /\ IsNormal(Nfc[x]) /\ Utf8(Nfc[x])
    BY <2>1, NormalFacts
  <2>3. Nfc[Nfc[x]] = Nfc[x]
    BY <2>2, NormalFacts
  <2> QED
    BY <1>4, <2>2, <2>3 DEF Proper, Inside, Normalized, Converted, Content
<1> QED
  BY <1>1, <1>2, <1>3, <1>4

Readable ==
  IF fields = <<>> THEN rest = <<>>
  ELSE LET f == Head(fields)
       IN  /\ f.type = "uint" => HasUint(f.size)
           /\ f.type \in SequenceTypes => HasCount(f)
           /\ f.type \notin SequenceTypes \cup {"uint"} =>
                HasBytes(f.size) /\ Proper(f, NextBytes)

LEMMA ReadableNotRefused == Readable => ~Refuse
BY DEF Readable, Refuse, SequenceTypes

ReadOn == ReadUint \/ ReadBytes \/ ReadCount

LEMMA SentAtDomain ==
  ASSUME NEW v, NEW P, Stage(current, fields, got, rest, P),
         EncodableFlat(current, v), SentDomain(current, v, fields, got, rest)
  PROVE  Readable /\ (ReadOn => Sent(current', v, fields', got', rest'))
<1> DEFINE f == Head(fields)
           s == Domain[current]
           t == Join(Len(Layout(current)), FieldPieces(current, v))
<1>1. current \in Kinds /\ rest \in Seq(Byte)
  BY DEF Stage
<1>2. /\ fields # <<>> /\ f.type = "domain" /\ f.size = Len(s) /\ Len(s) \in Nat /\ Prefixable(s)
      /\ t \in Seq(Byte) /\ rest = EncodeBytes(s) \o t
      /\ SentField(current, v, Tail(fields), got, t)
  BY <1>1, SentDomainFacts
<1> HIDE DEF t
<1>3. NextBytes = s /\ Leave(U32Width + Length) = t /\ HasBytes(f.size)
  <2>1. s \in Seq(Byte) /\ Len(s) <= Len(s)
    BY <1>2 DEF Prefixable
  <2>2. f.size = Len(s)
    BY <1>2
  <2> HIDE DEF f, s
  <2>3. NextBytes = s /\ Leave(U32Width + Length) = t /\ HasBytes(Len(s))
    BY <1>1, <1>2, <2>1, BytesFound
  <2> QED
    BY <2>2, <2>3
<1>4. Readable
  BY <1>2, <1>3 DEF Readable, Proper, SequenceTypes
<1>5. ASSUME ReadOn PROVE Sent(current', v, fields', got', rest')
  <2>1. ReadBytes
    BY <1>2, <1>5 DEF ReadOn, ReadUint, ReadCount, Expects
  <2>2. got' = got /\ rest' = t /\ fields' = Tail(fields) /\ current' = current
    BY <1>2, <1>3, <2>1 DEF ReadBytes
  <2> QED
    BY <1>2, <2>2 DEF Sent
<1> QED
  BY <1>4, <1>5

LEMMA SentAtField ==
  ASSUME NEW v, NEW P, Stage(current, fields, got, rest, P), fields # <<>>,
         EncodableFlat(current, v), SentField(current, v, fields, got, rest)
  PROVE  Readable /\ (ReadOn => Sent(current', v, fields', got', rest'))
<1> DEFINE f == Head(fields)
           x == v[Len(got) + 1]
           t == After(current, v, got)
<1>1. current \in Kinds /\ rest \in Seq(Byte) /\ fields \in Seq(FieldRecords) /\ got \in Seq(Content)
  BY DEF Stage
<1>2. /\ Measured(f) /\ Encodable(f, x)
      /\ t \in Seq(Byte) /\ rest = EncodeField(f, x) \o t
  BY <1>1, SentFieldFacts
<1>3. f.size \in Nat /\ f.type \in {"uint", "bytes", "exact", "number", "text"} \cup SequenceTypes
  BY <1>2 DEF Measured, FieldRecords, PlainTypes
<1>4. CASE f.type = "uint"
  <2>1. EncodeField(f, x) = EncodeUint(x, f.size) /\ FitsWidth(x, f.size)
    BY <1>2, <1>4 DEF EncodeField, Encodable
  <2>2. HasUint(f.size) /\ DecodeUint(Take(f.size)) = x /\ Leave(f.size) = t
    <3> HIDE DEF t, x, f
    <3> QED
      BY <1>1, <1>2, <1>3, <2>1, UintFound
  <2>3. Readable
    BY <1>4, <2>2 DEF Readable, SequenceTypes
  <2>4. ASSUME ReadOn PROVE Sent(current', v, fields', got', rest')
    <3>1. ReadUint
      BY <1>4, <2>4 DEF ReadOn, ReadBytes, ReadCount, Expects
    <3>2. got' = Append(got, x) /\ rest' = t /\ fields' = Tail(fields) /\ current' = current
      BY <2>2, <3>1 DEF ReadUint, Got
    <3>3. x \in Content /\ x = Normalized(f, x) /\ f.type \in PlainTypes
      <4>1. x \in Nat
        BY <1>3, <2>1, FitsFacts
      <4> QED
        BY <1>4, <4>1 DEF Content, Normalized, PlainTypes
    <3>4. SentField(current, v, Tail(fields), Append(got, x), t)
      BY <1>1, <3>3, SentFieldRead
    <3> QED
      BY <3>2, <3>4 DEF Sent
  <2> QED
    BY <2>3, <2>4
<1>5. CASE f.type \in {"bytes", "exact", "number", "text"}
  <2> DEFINE s == Inside(f, x)
             y == Normalized(f, x)
  <2>1. Prefixable(s) /\ Len(s) <= f.size /\ EncodeField(f, x) = EncodeBytes(s)
    BY <1>2, <1>5, InsideFacts
  <2>2. Proper(f, s) /\ Converted(f, s) = y /\ y \in Content
    BY <1>2, <1>3, <1>5, SentProper
  <2> HIDE DEF s, y
  <2>3. NextBytes = s /\ Leave(U32Width + Length) = t /\ HasBytes(f.size)
    <3> HIDE DEF t, x, f
    <3> QED
      BY <1>1, <1>2, <1>3, <2>1, BytesFound
  <2>4. Readable
    BY <1>5, <2>2, <2>3 DEF Readable, SequenceTypes
  <2>5. ASSUME ReadOn PROVE Sent(current', v, fields', got', rest')
    <3>1. ReadBytes
      BY <1>5, <2>5 DEF ReadOn, ReadUint, ReadCount, Expects
    <3>2. got' = Append(got, y) /\ rest' = t /\ fields' = Tail(fields) /\ current' = current
      BY <1>5, <2>2, <2>3, <3>1 DEF ReadBytes, Converted
    <3>3. f.type \in PlainTypes
      BY <1>5 DEF PlainTypes
    <3>4. SentField(current, v, Tail(fields), Append(got, y), t)
      BY <1>1, <2>2, <3>3, SentFieldRead DEF y
    <3> QED
      BY <3>2, <3>4 DEF Sent
  <2> QED
    BY <2>4, <2>5
<1>6. CASE f.type \in SequenceTypes
  <2> DEFINE z == ItemsOf(current, v)
             c == Len(z)
             u == Join(c, WrittenItems(z))
  <2>1. /\ c \in Nat /\ c <= f.items /\ (f.type = "hashes" => c > 0) /\ FitsWidth(c, U32Width)
        /\ u \in Seq(Byte) /\ rest = EncodeUint(c, U32Width) \o u
        /\ SentItem(current, v, [i \in 1..c |-> Item(f)] \o Tail(fields), got, u)
    BY <1>1, <1>6, SentCountRead
  <2> HIDE DEF u, c
  <2>2. HasUint(U32Width) /\ Length = c /\ Leave(U32Width) = u
    BY <1>1, <2>1, WidthsFacts, UintFound DEF Length
  <2>3. Readable
    BY <1>6, <2>1, <2>2 DEF Readable, HasCount, SequenceTypes
  <2>4. ASSUME ReadOn PROVE Sent(current', v, fields', got', rest')
    <3>1. ReadCount
      BY <1>6, <2>4 DEF ReadOn, ReadUint, ReadBytes, Expects, SequenceTypes
    <3>2. got' = got /\ rest' = u /\ fields' = [i \in 1..c |-> Item(f)] \o Tail(fields) /\ current' = current
      BY <2>2, <3>1 DEF ReadCount
    <3> QED
      BY <2>1, <3>2 DEF Sent
  <2> QED
    BY <2>3, <2>4
<1> QED
  BY <1>3, <1>4, <1>5, <1>6

LEMMA SentAtItem ==
  ASSUME NEW v, NEW P, Stage(current, fields, got, rest, P), fields # <<>>,
         EncodableFlat(current, v), SentItem(current, v, fields, got, rest)
  PROVE  Readable /\ (ReadOn => Sent(current', v, fields', got', rest'))
<1> DEFINE f == Head(fields)
<1>1. current \in Kinds /\ rest \in Seq(Byte) /\ fields \in Seq(FieldRecords) /\ got \in Seq(Content)
  BY DEF Stage
<1>2. /\ f.type \in {"exact", "bytes"} /\ f.size \in Nat
      /\ \E x, t : /\ Prefixable(x) /\ Encodable(f, x) /\ t \in Seq(Byte)
                   /\ rest = EncodeBytes(x) \o t
                   /\ SentItem(current, v, Tail(fields), Append(got, x), t)
  BY <1>1, SentItemRead
<1>3. PICK x, t : /\ Prefixable(x) /\ Encodable(f, x) /\ t \in Seq(Byte)
                  /\ rest = EncodeBytes(x) \o t
                  /\ SentItem(current, v, Tail(fields), Append(got, x), t)
  BY <1>2
<1>4. Len(x) <= f.size /\ Len(x) \in Nat
  <2>1. Len(x) \in Nat
    BY <1>3 DEF Prefixable
  <2>2. CASE f.type = "exact"
    <3>1. Len(x) = f.size
      BY <1>3, <2>2 DEF Encodable
    <3> QED
      BY <2>1, <3>1
  <2>3. CASE f.type = "bytes"
    BY <1>2, <1>3, <2>1, <2>3 DEF Encodable
  <2> QED
    BY <1>2, <2>1, <2>2, <2>3
<1>5. NextBytes = x /\ Leave(U32Width + Length) = t /\ HasBytes(f.size)
  <2> HIDE DEF f
  <2> QED
    BY <1>1, <1>2, <1>3, <1>4, BytesFound
<1>6. Proper(f, x)
  <2>1. Inside(f, x) = x
    BY <1>2 DEF Inside, Normalized
  <2>2. Proper(f, Inside(f, x))
    BY <1>2, <1>3, SentProper
  <2> QED
    BY <2>1, <2>2
<1>7. Readable
  BY <1>2, <1>5, <1>6 DEF Readable, SequenceTypes
<1>8. ASSUME ReadOn PROVE Sent(current', v, fields', got', rest')
  <2>1. ReadBytes
    BY <1>2, <1>8 DEF ReadOn, ReadUint, ReadCount, Expects
  <2>2. got' = Append(got, x) /\ rest' = t /\ fields' = Tail(fields) /\ current' = current
    BY <1>2, <1>5, <2>1 DEF ReadBytes
  <2> QED
    BY <1>3, <2>2 DEF Sent
<1> QED
  BY <1>7, <1>8

(* When no field is left, all has been read. *)
LEMMA SentDone ==
  ASSUME NEW k \in Kinds, NEW v, NEW g \in Seq(Content), NEW r, Sent(k, v, <<>>, g, r)
  PROVE  /\ r = <<>> /\ EncodableFlat(k, v)
         /\ k \notin SequenceKinds => SentField(k, v, <<>>, g, r) /\ Len(g) = Len(Layout(k))
         /\ k \in SequenceKinds =>
              SentItem(k, v, <<>>, g, r) /\ Len(g) = (Len(Layout(k)) - 1) + Len(ItemsOf(k, v))
<1> DEFINE L == Layout(k)
           n == Len(L)
<1>1. n \in Nat /\ Len(g) \in Nat /\ EncodableFlat(k, v) /\ Len(<<>>) = 0
  BY LayoutFacts DEF LayoutOf, Sent
<1>2. ~SentDomain(k, v, <<>>, g, r)
  <2> SUFFICES ASSUME SentDomain(k, v, <<>>, g, r) PROVE FALSE
    OBVIOUS
  <2>1. <<>> # <<>>
    BY <1>1, SentDomainFacts
  <2> QED
    BY <2>1
<1>3. CASE SentField(k, v, <<>>, g, r)
  <2>1. 0 = n - Len(g) /\ (Len(g) = n => k \notin SequenceKinds)
        /\ r = Join(n - Len(g), Suffix(n, FieldPieces(k, v), Len(g)))
    BY <1>1, <1>3 DEF SentField
  <2>2. Len(g) = n
    BY <1>1, <2>1
  <2>3. r = <<>>
    <3>1. BytePieces(n, FieldPieces(k, v)) /\ n \in 0..n
      BY <1>1, FlatEncoded
    <3>2. r = Join(n - n, Suffix(n, FieldPieces(k, v), n))
      BY <2>1, <2>2
    <3> HIDE DEF n
    <3> QED
      BY <3>1, <3>2, SuffixFacts
  <2> QED
    BY <1>1, <1>3, <2>1, <2>2, <2>3
<1>4. CASE SentItem(k, v, <<>>, g, r)
  <2> DEFINE y == ItemsOf(k, v)
             c == Len(y)
             m == Len(g) - (n - 1)
  <2>1. /\ k \in SequenceKinds /\ m \in 0..c /\ 0 = c - m
        /\ r = Join(c - m, Suffix(c, WrittenItems(y), m))
    BY <1>1, <1>4 DEF SentItem
  <2>2. c \in Nat /\ BytePieces(c, WrittenItems(y))
    BY <1>1, <2>1, SequenceFacts, ItemsFacts
  <2> HIDE DEF y
  <2>3. m = c /\ Len(g) = (n - 1) + c
    BY <1>1, <2>1, <2>2
  <2>4. r = <<>>
    <3>1. c \in 0..c
      BY <2>2
    <3> HIDE DEF c, m
    <3> QED
      BY <2>1, <2>2, <2>3, <3>1, SuffixFacts
  <2> QED
    BY <1>1, <1>4, <2>1, <2>3, <2>4 DEF y
<1> QED
  BY <1>2, <1>3, <1>4 DEF Sent

LEMMA SentStage ==
  ASSUME NEW v, NEW P, Stage(current, fields, got, rest, P), Sent(current, v, fields, got, rest)
  PROVE  Readable /\ (ReadOn => Sent(current', v, fields', got', rest'))
<1>1. current \in Kinds /\ got \in Seq(Content) /\ EncodableFlat(current, v)
  BY DEF Stage, Sent
<1>2. CASE fields = <<>>
  <2>1. rest = <<>>
    BY <1>1, <1>2, SentDone
  <2>2. ~ReadOn
    BY <1>2 DEF ReadOn, ReadUint, ReadBytes, ReadCount, Expects
  <2> QED
    BY <1>2, <2>1, <2>2 DEF Readable
<1>3. CASE fields # <<>>
  BY <1>1, <1>3, SentAtDomain, SentAtField, SentAtItem DEF Sent
<1> QED
  BY <1>2, <1>3

-----------------------------------------------------------------------------
(* The parts of a block's value, and what they are written as. *)
PartOf(v, i) == IF i = 1 THEN v[1] ELSE IF i = 2 THEN v[2] ELSE v[3][i - 2]
PartCount(v) == Len(BlockParts(v)[3]) + 2

LEMMA BlockValue ==
  ASSUME NEW v, EncodableValue("Block", v)
  PROVE  LET p == BlockParts(v)
             c == PartCount(v)
         IN  /\ EncodableFlat("Block", p) /\ Encode("Block", v) = EncodeFlat("Block", p)
             /\ p[3] \in Seq(Seq(Byte)) /\ c \in Nat /\ c >= 2 /\ Len(p[3]) = c - 2
             /\ DOMAIN v[3] = 1..(c - 2)
             /\ p[1] = EncodeFlat(PartKind(1), PartOf(v, 1))
             /\ p[2] = EncodeFlat(PartKind(2), PartOf(v, 2))
             /\ \A i \in 1..(c - 2) : p[3][i] = EncodeFlat(PartKind(i + 2), PartOf(v, i + 2))
             /\ \A i \in 1..c : EncodableFlat(PartKind(i), PartOf(v, i))
<1> DEFINE p == BlockParts(v)
           c == PartCount(v)
           s == [i \in DOMAIN v[3] |-> EncodeFlat("Transaction", v[3][i])]
<1>1. /\ EncodableFlat("BlockHeader", v[1]) /\ EncodableFlat("RewardTransaction", v[2])
      /\ \A i \in DOMAIN v[3] : EncodableFlat("Transaction", v[3][i])
      /\ EncodableFlat("Block", p) /\ Encode("Block", v) = EncodeFlat("Block", p)
  BY DEF EncodableValue, Encode
<1>2. p = <<EncodeFlat("BlockHeader", v[1]), EncodeFlat("RewardTransaction", v[2]), s>>
  BY DEF BlockParts
<1> HIDE DEF p, s
<1>3. /\ p[1] = EncodeFlat("BlockHeader", v[1]) /\ p[2] = EncodeFlat("RewardTransaction", v[2])
      /\ p[3] = s
  BY <1>2
<1>4. p[3] \in Seq(Seq(Byte))
  <2>1. ItemsOf("Block", p) = p[3]
    BY BlockLayout DEF ItemsOf
  <2>2. /\ Layout("Block")[Len(Layout("Block"))].type \in SequenceTypes
        /\ Measured(Layout("Block")[Len(Layout("Block"))])
        /\ Encodable(Layout("Block")[Len(Layout("Block"))], p[3])
    BY <1>1, <2>1, BlockLayout, SequenceFacts
  <2> QED
    BY <2>2, ItemsFacts
<1>5. Len(p[3]) \in Nat /\ c = Len(p[3]) + 2
  BY <1>4 DEF p, PartCount
<1> HIDE DEF c
<1>6. c \in Nat /\ c >= 2 /\ Len(p[3]) = c - 2
  BY <1>5
<1>7. DOMAIN v[3] = 1..(c - 2)
  <2>1. DOMAIN s = DOMAIN v[3]
    BY DEF s
  <2>2. DOMAIN p[3] = 1..Len(p[3])
    BY <1>4
  <2> QED
    BY <1>3, <1>6, <2>1, <2>2
<1>8. \A i \in 1..(c - 2) : i + 2 # 1 /\ i + 2 # 2 /\ (i + 2) - 2 = i
  BY <1>6
<1>9. \A i \in 1..(c - 2) : PartKind(i + 2) = "Transaction" /\ PartOf(v, i + 2) = v[3][i]
  BY <1>8 DEF PartKind, PartOf
<1>10. \A i \in 1..(c - 2) : p[3][i] = EncodeFlat(PartKind(i + 2), PartOf(v, i + 2))
  <2>1. \A i \in 1..(c - 2) : s[i] = EncodeFlat("Transaction", v[3][i])
    BY <1>7 DEF s
  <2> QED
    BY <1>3, <1>9, <2>1
<1>11. /\ PartKind(1) = "BlockHeader" /\ PartKind(2) = "RewardTransaction"
       /\ PartOf(v, 1) = v[1] /\ PartOf(v, 2) = v[2]
  BY DEF PartKind, PartOf
<1>12. ASSUME NEW i \in 1..c PROVE EncodableFlat(PartKind(i), PartOf(v, i))
  <2>1. CASE i = 1
    BY <1>1, <1>11, <2>1
  <2>2. CASE i = 2
    BY <1>1, <1>11, <2>2
  <2>3. CASE i # 1 /\ i # 2
    <3>1. i - 2 \in 1..(c - 2)
      BY <1>6, <2>3
    <3>2. PartKind(i) = "Transaction" /\ PartOf(v, i) = v[3][i - 2]
      BY <2>3 DEF PartKind, PartOf
    <3> QED
      BY <1>1, <1>7, <3>1, <3>2
  <2> QED
    BY <2>1, <2>2, <2>3
<1> QED
  BY <1>1, <1>3, <1>4, <1>6, <1>7, <1>10, <1>11, <1>12 DEF p, c

(* What is read of a value is its normal form. *)
LEMMA SentResult ==
  ASSUME NEW k \in Kinds, k # "Block", NEW v, NEW g \in Seq(Content), NEW r, Sent(k, v, <<>>, g, r)
  PROVE  (IF k = "BlockLocator" THEN <<g>> ELSE g) = NormalFlat(k, v)
<1> DEFINE L == Layout(k)
           n == Len(L)
<1>1. n \in Nat /\ L \in Seq(FieldRecords) /\ DOMAIN L = 1..n /\ Len(g) \in Nat
  BY LayoutFacts DEF LayoutOf
<1>2. DOMAIN v = 1..n
  BY <1>1 DEF Sent, EncodableFlat
<1>3. \A i \in 1..n : NormalFlat(k, v)[i] = Normalized(L[i], v[i])
  BY <1>2 DEF NormalFlat, Normalized
<1>4. NormalFlat(k, v) = [i \in 1..n |-> Normalized(L[i], v[i])]
  BY <1>2 DEF NormalFlat, Normalized
<1>5. CASE k # "BlockLocator"
  <2>1. SentField(k, v, <<>>, g, r) /\ Len(g) = n
    BY <1>5, SentDone DEF SequenceKinds
  <2>2. \A i \in 1..n : g[i] = Normalized(L[i], v[i])
    BY <2>1 DEF SentField
  <2>3. g = [i \in 1..n |-> g[i]]
    BY <2>1
  <2> HIDE DEF n
  <2>4. [i \in 1..n |-> g[i]] = [i \in 1..n |-> Normalized(L[i], v[i])]
    BY <2>2
  <2> QED
    BY <1>4, <1>5, <2>3, <2>4
<1>6. CASE k = "BlockLocator"
  <2> DEFINE y == ItemsOf(k, v)
  <2>1. k \in SequenceKinds
    BY <1>6 DEF SequenceKinds
  <2>2. n = 1 /\ L[1].type = "hashes"
    <3>1. L = <<Hashes(MaxLocator)>> /\ MaxLocator \in Nat
      BY <1>6, CodecAssumption DEF Layout, CodecAssumption
    <3>2. Hashes(MaxLocator).type = "hashes"
      BY <3>1, FieldFacts
    <3> QED
      BY <3>1, <3>2
  <2>3. EncodableFlat(k, v) /\ SentItem(k, v, <<>>, g, r) /\ Len(g) = (n - 1) + Len(y)
    BY <2>1, SentDone
  <2>4. y \in Seq(Seq(Byte)) /\ Len(y) \in Nat /\ y = v[1]
    BY <2>1, <2>2, <2>3, SequenceFacts, ItemsFacts DEF ItemsOf
  <2>5. Len(g) = Len(y)
    BY <2>2, <2>3, <2>4
  <2>6. \A i \in 1..Len(y) : g[i] = y[i]
    <3>1. \A i \in 1..(Len(g) - (n - 1)) : g[(n - 1) + i] = y[i]
      BY <2>3 DEF SentItem
    <3>2. Len(g) - (n - 1) = Len(y) /\ n - 1 = 0
      BY <2>2, <2>4, <2>5
    <3>3. \A i \in 1..Len(y) : 0 + i = i
      BY <2>4
    <3> HIDE DEF n, y
    <3> QED
      BY <3>1, <3>2, <3>3
  <2>7. g = y
    <3>1. y \in Seq(Content)
      <4>1. Seq(Byte) \subseteq Content
        BY DEF Content
      <4> QED
        BY <2>4, <4>1
    <3> HIDE DEF y
    <3> QED
      BY <2>5, <2>6, <3>1, SameEntries
  <2>8. Normalized(L[1], v[1]) = g
    BY <2>2, <2>4, <2>7 DEF Normalized
  <2>9. NormalFlat(k, v) = [i \in 1..1 |-> Normalized(L[i], v[i])]
    BY <1>4, <2>2
  <2>10. [i \in 1..1 |-> Normalized(L[i], v[i])] = <<Normalized(L[1], v[1])>>
    OBVIOUS
  <2> QED
    BY <1>6, <2>8, <2>9, <2>10
<1> QED
  BY <1>5, <1>6

(* What is read of the envelope of a block are the bytes of its parts. *)
LEMMA SentEnvelope ==
  ASSUME NEW p, NEW g \in Seq(Content), NEW r, Sent("Block", p, <<>>, g, r), p[3] \in Seq(Seq(Byte))
  PROVE  /\ Len(g) = Len(p[3]) + 2 /\ g[1] = p[1] /\ g[2] = p[2]
         /\ \A i \in 1..Len(p[3]) : g[i + 2] = p[3][i]
<1>1. "Block" \in Kinds /\ "Block" \in SequenceKinds /\ Len(Layout("Block")) = 3
  BY BlockLayout
<1>2. ItemsOf("Block", p) = p[3]
  BY <1>1 DEF ItemsOf
<1>3. /\ SentItem("Block", p, <<>>, g, r)
      /\ Len(g) = (3 - 1) + Len(p[3])
  BY <1>1, <1>2, SentDone
<1>4. Len(g) \in Nat /\ Len(p[3]) \in Nat /\ Len(g) = Len(p[3]) + 2 /\ 3 - 1 = 2 /\ Len(g) - 2 = Len(p[3])
  BY <1>3
<1>5. /\ \A i \in 1..2 : g[i] = Normalized(Layout("Block")[i], p[i])
      /\ \A i \in 1..Len(p[3]) : g[2 + i] = p[3][i]
  <2>1. /\ \A i \in 1..(3 - 1) : g[i] = Normalized(Layout("Block")[i], p[i])
        /\ \A i \in 1..(Len(g) - (3 - 1)) : g[(3 - 1) + i] = p[3][i]
    BY <1>1, <1>2, <1>3 DEF SentItem
  <2> QED
    BY <1>4, <2>1
<1>6. g[1] = p[1] /\ g[2] = p[2]
  <2>1. 1 \in 1..2 /\ 2 \in 1..2 /\ 1 \in 1..3 /\ 2 \in 1..3
    OBVIOUS
  <2>2. /\ Normalized(Layout("Block")[1], p[1]) = p[1]
        /\ Normalized(Layout("Block")[2], p[2]) = p[2]
    BY <2>1, BlockLayout DEF Normalized
  <2> QED
    BY <1>5, <2>1, <2>2
<1>7. \A i \in 1..Len(p[3]) : i + 2 = 2 + i
  BY <1>4
<1> QED
  BY <1>4, <1>5, <1>6, <1>7

-----------------------------------------------------------------------------
(* The invariant of a decoder that has the bytes of the value that was sent. *)
Intact == decoder = kind /\ encoded = Encode(kind, value)
Whole(k, v) == IF k = "Block" THEN BlockParts(v) ELSE v

SentWhole ==
  /\ outcome = "reading" /\ current = kind /\ parts = <<>> /\ decoded = <<>>
  /\ Sent(kind, Whole(kind, value), fields, got, rest)

SentAccepted ==
  outcome = "accepted" /\ kind # "Block" /\ decoded = <<NormalFlat(kind, value)>>

SentPart(m) ==
  LET c == PartCount(value)
  IN  /\ m <= c /\ current = PartKind(m)
      /\ Sent(PartKind(m), PartOf(value, m), fields, got, rest)
      /\ Len(parts) = c - m
      /\ \A j \in 1..Len(parts) :
           parts[j] = <<PartKind(m + j), EncodeFlat(PartKind(m + j), PartOf(value, m + j))>>

SentParts ==
  /\ kind = "Block" /\ outcome # "refused"
  /\ \A i \in 1..Len(decoded) : decoded[i] = NormalFlat(PartKind(i), PartOf(value, i))
  /\ outcome = "accepted" => Len(decoded) = PartCount(value)
  /\ outcome # "accepted" => SentPart(Len(decoded) + 1)

SentIInv == Intact => SentWhole \/ SentAccepted \/ SentParts

LEMMA ValueFacts ==
  ASSUME DecodingTyped
  PROVE  /\ kind \in Kinds /\ EncodableValue(kind, value)
         /\ EncodableFlat(kind, Whole(kind, value))
         /\ Encode(kind, value) = EncodeFlat(kind, Whole(kind, value))
<1>1. kind \in Kinds /\ EncodableValue(kind, value)
  BY ReaderAssumption DEF DecodingTyped, ReaderAssumption
<1>2. CASE kind = "Block"
  BY <1>1, <1>2, BlockValue DEF Whole
<1>3. CASE kind # "Block"
  BY <1>1, <1>3 DEF Whole, EncodableValue, Encode
<1> QED
  BY <1>1, <1>2, <1>3

LEMMA ReadingStage ==
  ASSUME DecodingIInv, Reading
  PROVE  \E P : Stage(current, fields, got, rest, P)
<1>1. decoder # NoKind /\ outcome = "reading"
  BY DEF Reading
<1>2. CASE WholeReading
  BY <1>2 DEF WholeReading
<1>3. ASSUME NEW block, BlockReading(block) PROVE \E P : Stage(current, fields, got, rest, P)
  BY <1>1, <1>3 DEF BlockReading, PartReading
<1> QED
  BY <1>1, <1>2, <1>3 DEF DecodingIInv, WholeAccepted

LEMMA SentInit == ReaderInit => SentIInv
<1> SUFFICES ASSUME ReaderInit PROVE ~Intact
  BY DEF SentIInv
<1> QED
  BY KindFacts DEF ReaderInit, Intact

LEMMA SentEditStep ==
  ASSUME DecodingIInv, SentIInv, Change \/ Truncate \/ Extend
  PROVE  SentIInv'
<1>1. PICK new : Edit(new)
  BY DEF Change, Truncate, Extend
<1>2. decoder' = NoKind /\ kind' = kind /\ kind \in Kinds
  BY <1>1 DEF Edit, DecodingIInv, DecodingTyped
<1>3. ~Intact'
  BY <1>2, KindFacts DEF Intact
<1> QED
  BY <1>3 DEF SentIInv

LEMMA SentStartStep ==
  ASSUME DecodingIInv, SentIInv, NEW k \in Kinds, Start(k)
  PROVE  SentIInv'
<1> SUFFICES ASSUME Intact' PROVE SentWhole'
  BY DEF SentIInv
<1>1. /\ decoder = NoKind /\ decoder' = k /\ Begin(k, encoded)
      /\ UNCHANGED <<inputVars, parts, decoded, outcome>>
  BY DEF Start
<1>2. encoded' = encoded /\ kind' = kind /\ value' = value
  BY <1>1 DEF inputVars
<1>3. k = kind /\ encoded = Encode(kind, value)
  BY <1>1, <1>2 DEF Intact
<1>4. current' = k /\ rest' = encoded /\ fields' = DomainField(k) \o Layout(k) /\ got' = <<>>
  BY <1>1 DEF Begin
<1>5. /\ kind \in Kinds /\ EncodableFlat(kind, Whole(kind, value))
      /\ encoded = EncodeFlat(kind, Whole(kind, value))
  BY <1>3, ValueFacts DEF DecodingIInv
<1>6. Sent(kind, Whole(kind, value), DomainField(kind) \o Layout(kind), <<>>, encoded)
  BY <1>5, BeginSent
<1>7. outcome = "reading" /\ parts = <<>> /\ decoded = <<>>
  BY <1>1 DEF DecodingIInv
<1> QED
  BY <1>1, <1>2, <1>3, <1>4, <1>6, <1>7 DEF SentWhole

(* The steps after the start leave the bytes as they are. *)
LEMMA StillIntact ==
  ASSUME UNCHANGED <<inputVars, decoder>>
  PROVE  Intact' <=> Intact
BY DEF Intact, inputVars

LEMMA SentReadStep ==
  ASSUME DecodingIInv, SentIInv, ReadOn
  PROVE  SentIInv'
<1>1. Reading
  BY DEF ReadOn, ReadUint, ReadBytes, ReadCount, Expects
<1>2. PICK P : Stage(current, fields, got, rest, P)
  BY <1>1, ReadingStage
<1>3. current' = current /\ UNCHANGED <<inputVars, decoder, parts, decoded, outcome>>
  BY <1>2, ReadStage DEF ReadOn
<1>4. kind' = kind /\ value' = value
  BY <1>3 DEF inputVars
<1>5. outcome = "reading"
  BY <1>1 DEF Reading
<1> SUFFICES ASSUME Intact PROVE (SentWhole \/ SentParts)'
  BY <1>3, StillIntact DEF SentIInv
<1>6. CASE SentWhole
  <2>1. current = kind /\ Sent(current, Whole(kind, value), fields, got, rest)
    BY <1>6 DEF SentWhole
  <2>2. Sent(current', Whole(kind, value), fields', got', rest')
    BY <1>2, <2>1, SentStage
  <2> QED
    BY <1>3, <1>4, <1>6, <2>1, <2>2 DEF SentWhole
<1>7. CASE SentParts
  <2> DEFINE m == Len(decoded) + 1
  <2>1. SentPart(m)
    BY <1>5, <1>7 DEF SentParts
  <2>2. current = PartKind(m) /\ Sent(current, PartOf(value, m), fields, got, rest)
    BY <2>1 DEF SentPart
  <2> HIDE DEF m
  <2>3. Sent(current', PartOf(value, m), fields', got', rest')
    BY <1>2, <2>2, SentStage
  <2>4. SentPart(m)'
    BY <1>3, <1>4, <2>1, <2>2, <2>3 DEF SentPart, m
  <2> QED
    BY <1>3, <1>4, <1>7, <2>4 DEF SentParts, m
<1> QED
  BY <1>5, <1>6, <1>7 DEF SentIInv, SentAccepted

LEMMA SentRefuseStep ==
  ASSUME DecodingIInv, SentIInv, Refuse
  PROVE  SentIInv'
<1>1. Reading /\ UNCHANGED <<inputVars, decoder>>
  BY DEF Refuse
<1>2. PICK P : Stage(current, fields, got, rest, P)
  BY <1>1, ReadingStage
<1> SUFFICES ASSUME Intact PROVE FALSE
  BY <1>1, StillIntact DEF SentIInv
<1>3. outcome = "reading"
  BY <1>1 DEF Reading
<1>4. \E v : Sent(current, v, fields, got, rest)
  <2>1. CASE SentWhole
    BY <2>1 DEF SentWhole
  <2>2. CASE SentParts
    BY <1>3, <2>2 DEF SentParts, SentPart
  <2> QED
    BY <1>3, <2>1, <2>2 DEF SentIInv, SentAccepted
<1> QED
  BY <1>2, <1>4, SentStage, ReadableNotRefused

LEMMA SentEnvelopeStep ==
  ASSUME DecodingIInv, SentIInv, OpenEnvelope
  PROVE  SentIInv'
<1>1. /\ Reading /\ fields = <<>> /\ rest = <<>> /\ current = "Block"
      /\ Begin("BlockHeader", got[1])
      /\ parts' = <<<<"RewardTransaction", got[2]>>>>
                    \o [i \in 1 .. Len(got) - 2 |-> <<"Transaction", got[i + 2]>>]
      /\ UNCHANGED <<inputVars, decoder, decoded, outcome>>
  BY DEF OpenEnvelope, Finished
<1>2. kind' = kind /\ value' = value /\ outcome = "reading"
  BY <1>1 DEF inputVars, Reading
<1>3. PICK P : Stage(current, fields, got, rest, P)
  BY <1>1, ReadingStage
<1>4. got \in Seq(Content)
  BY <1>3 DEF Stage
<1> SUFFICES ASSUME Intact PROVE SentParts'
  BY <1>1, StillIntact DEF SentIInv
<1>5. SentWhole
  <2>1. ~SentParts
    BY <1>1, <1>2, KindFacts DEF SentParts, SentPart
  <2> QED
    BY <1>2, <2>1 DEF SentIInv, SentAccepted
<1> DEFINE p == BlockParts(value)
           c == PartCount(value)
           n == c - 2
<1>6. kind = "Block" /\ decoded = <<>> /\ Sent("Block", p, <<>>, got, rest)
  BY <1>1, <1>5 DEF SentWhole, Whole
<1>7. EncodableValue("Block", value)
  BY <1>6, ValueFacts DEF DecodingIInv
<1>8. /\ p[3] \in Seq(Seq(Byte)) /\ c \in Nat /\ c >= 2 /\ Len(p[3]) = n
      /\ p[1] = EncodeFlat(PartKind(1), PartOf(value, 1))
      /\ p[2] = EncodeFlat(PartKind(2), PartOf(value, 2))
      /\ \A i \in 1..n : p[3][i] = EncodeFlat(PartKind(i + 2), PartOf(value, i + 2))
      /\ \A i \in 1..c : EncodableFlat(PartKind(i), PartOf(value, i))
  BY <1>7, BlockValue
<1> HIDE DEF p, c
<1>9. /\ Len(got) = n + 2 /\ got[1] = p[1] /\ got[2] = p[2]
      /\ \A i \in 1..n : got[i + 2] = p[3][i]
  <2>1. p[3] \in Seq(Seq(Byte)) /\ Len(p[3]) = n
    BY <1>8
  <2> HIDE DEF n
  <2>2. /\ Len(got) = Len(p[3]) + 2 /\ got[1] = p[1] /\ got[2] = p[2]
        /\ \A i \in 1..Len(p[3]) : got[i + 2] = p[3][i]
    BY <1>4, <1>6, <2>1, SentEnvelope
  <2> QED
    BY <2>1, <2>2
<1>10. n \in Nat /\ Len(got) - 2 = n
  BY <1>8, <1>9
<1> HIDE DEF n
<1>11. PartKind(1) = "BlockHeader" /\ PartKind(2) = "RewardTransaction" /\ "BlockHeader" \in Kinds
  BY DEF PartKind, Kinds, Flat
<1>12. Sent(PartKind(1), PartOf(value, 1), fields', got', rest')
  <2>1. EncodableFlat(PartKind(1), PartOf(value, 1))
    <3>1. 1 \in 1..c
      BY <1>8
    <3> QED
      BY <1>8, <3>1
  <2>2. fields' = DomainField("BlockHeader") \o Layout("BlockHeader") /\ got' = <<>> /\ rest' = got[1]
    BY <1>1 DEF Begin
  <2> QED
    BY <1>8, <1>9, <1>11, <2>1, <2>2, BeginSent
<1> DEFINE reward == <<"RewardTransaction", got[2]>>
           u == [i \in 1..n |-> <<"Transaction", got[i + 2]>>]
           T == {reward} \cup {u[i] : i \in 1..n}
<1>13. u \in Seq(T) /\ Len(u) = n /\ \A i \in 1..n : u[i] = <<"Transaction", got[i + 2]>>
  <2>1. \A i \in 1..n : u[i] = <<"Transaction", got[i + 2]>>
    OBVIOUS
  <2>2. u = [i \in 1..n |-> u[i]]
    OBVIOUS
  <2> HIDE DEF u
  <2>3. \A i \in 1..n : u[i] \in T
    OBVIOUS
  <2> HIDE DEF T
  <2>4. u \in Seq(T) /\ Len(u) = n
    BY <1>10, <2>2, <2>3
  <2> QED
    BY <2>1, <2>4
<1>14. parts' = <<reward>> \o u
  BY <1>1, <1>10
<1>15. reward \in T
  OBVIOUS
<1> HIDE DEF reward, u, T
<1>16. /\ Len(parts') = n + 1 /\ parts'[1] = reward
       /\ \A j \in 1..Len(parts') : j # 1 => parts'[j] = u[j - 1]
  <2>1. <<reward>> \in Seq(T) /\ Len(<<reward>>) = 1 /\ <<reward>>[1] = reward
    BY <1>15
  <2>2. Len(parts') = n + 1
    BY <1>10, <1>13, <1>14, <2>1
  <2>3. parts'[1] = reward
    BY <1>13, <1>14, <2>1
  <2>4. \A j \in 1..Len(parts') : j # 1 => parts'[j] = u[j - 1]
    BY <1>10, <1>13, <1>14, <2>1, <2>2
  <2> QED
    BY <2>2, <2>3, <2>4
<1>17. \A j \in 1..Len(parts') :
         parts'[j] = <<PartKind(1 + j), EncodeFlat(PartKind(1 + j), PartOf(value, 1 + j))>>
  <2> SUFFICES ASSUME NEW j \in 1..Len(parts')
               PROVE  parts'[j] = <<PartKind(1 + j), EncodeFlat(PartKind(1 + j), PartOf(value, 1 + j))>>
    OBVIOUS
  <2>1. CASE j = 1
    <3>1. 1 + j = 2
      BY <2>1
    <3>2. parts'[j] = <<"RewardTransaction", got[2]>>
      BY <1>16, <2>1 DEF reward
    <3> QED
      BY <1>8, <1>9, <1>11, <3>1, <3>2
  <2>2. CASE j # 1
    <3>1. j - 1 \in 1..n /\ (j - 1) + 2 = 1 + j /\ 1 + j # 1 /\ 1 + j # 2
      BY <1>10, <1>16, <2>2
    <3>2. parts'[j] = <<"Transaction", got[(j - 1) + 2]>>
      BY <1>13, <1>16, <2>2, <3>1
    <3>3. got[(j - 1) + 2] = EncodeFlat(PartKind((j - 1) + 2), PartOf(value, (j - 1) + 2))
      BY <1>8, <1>9, <3>1 DEF n
    <3>4. PartKind(1 + j) = "Transaction"
      BY <3>1 DEF PartKind
    <3> QED
      BY <3>1, <3>2, <3>3, <3>4
  <2> QED
    BY <2>1, <2>2
<1>18. /\ current' = PartKind(1) /\ 1 <= c /\ Len(parts') = c - 1
  <2>1. current' = "BlockHeader"
    BY <1>1 DEF Begin
  <2> QED
    BY <1>8, <1>10, <1>11, <1>16, <2>1 DEF n
<1>19. decoded' = <<>> /\ Len(decoded') = 0 /\ 0 + 1 = 1 /\ \A i \in 1..0 : FALSE
  BY <1>1, <1>6
<1>20. SentPart(1)'
  BY <1>2, <1>12, <1>17, <1>18 DEF SentPart, c
<1>21. SentPart(Len(decoded) + 1)'
  BY <1>19, <1>20
<1> QED
  BY <1>1, <1>2, <1>6, <1>19, <1>21 DEF SentParts

LEMMA SentDecodedStep ==
  ASSUME DecodingIInv, SentIInv, Decoded
  PROVE  SentIInv'
<1> DEFINE x == IF current = "BlockLocator" THEN <<got>> ELSE got
           n == Len(decoded)
<1>1. /\ Reading /\ fields = <<>> /\ rest = <<>> /\ current # "Block"
      /\ decoded' = Append(decoded, x) /\ UNCHANGED <<inputVars, decoder>>
  BY DEF Decoded, Finished
<1>2. kind' = kind /\ value' = value /\ outcome = "reading"
  BY <1>1 DEF inputVars, Reading
<1>3. /\ parts = <<>> => outcome' = "accepted" /\ parts' = parts
      /\ parts # <<>> => /\ Begin(Head(parts)[1], Head(parts)[2])
                         /\ parts' = Tail(parts) /\ outcome' = outcome
  BY DEF Decoded
<1>4. PICK P : Stage(current, fields, got, rest, P)
  BY <1>1, ReadingStage
<1>5. current \in Kinds /\ got \in Seq(Content) /\ x \in ReadValues
  <2>1. current \in Kinds /\ got \in Seq(Content)
    BY <1>4 DEF Stage
  <2>2. x = Gathered(current, got) /\ Gathered(current, got) \in ReadValues
    BY <1>1, <2>1, GatheredFlat
  <2> QED
    BY <2>1, <2>2
<1>6. decoded \in Seq(ReadValues) /\ parts \in Seq(Kinds \X Seq(Byte))
  BY DEF DecodingIInv, DecodingTyped
<1>7. ASSUME NEW v, Sent(current, v, fields, got, rest) PROVE x = NormalFlat(current, v)
  BY <1>1, <1>5, <1>7, SentResult
<1> HIDE DEF x
<1> SUFFICES ASSUME Intact PROVE (SentAccepted \/ SentParts)'
  BY <1>1, StillIntact DEF SentIInv
<1>8. CASE SentWhole
  <2>1. current = kind /\ parts = <<>> /\ decoded = <<>> /\ Sent(current, Whole(kind, value), fields, got, rest)
    BY <1>8 DEF SentWhole
  <2>2. Whole(kind, value) = value
    BY <1>1, <2>1 DEF Whole
  <2>3. x = NormalFlat(kind, value)
    BY <1>7, <2>1, <2>2
  <2>4. Append(<<>>, x) = <<x>>
    OBVIOUS
  <2> QED
    BY <1>1, <1>2, <1>3, <2>1, <2>3, <2>4 DEF SentAccepted
<1>9. CASE SentParts
  <2> DEFINE c == PartCount(value)
  <2>1. kind = "Block" /\ SentPart(n + 1)
        /\ \A i \in 1..n : decoded[i] = NormalFlat(PartKind(i), PartOf(value, i))
    BY <1>2, <1>9 DEF SentParts
  <2>2. EncodableValue("Block", value)
    BY <2>1, ValueFacts DEF DecodingIInv
  <2>3. c \in Nat /\ \A i \in 1..c : EncodableFlat(PartKind(i), PartOf(value, i))
    BY <2>2, BlockValue
  <2>4. /\ n + 1 <= c /\ current = PartKind(n + 1)
        /\ Sent(PartKind(n + 1), PartOf(value, n + 1), fields, got, rest)
        /\ Len(parts) = c - (n + 1)
        /\ \A j \in 1..Len(parts) :
             parts[j] = <<PartKind((n + 1) + j),
                          EncodeFlat(PartKind((n + 1) + j), PartOf(value, (n + 1) + j))>>
    BY <2>1 DEF SentPart
  <2> HIDE DEF c
  <2>5. x = NormalFlat(PartKind(n + 1), PartOf(value, n + 1))
    BY <1>7, <2>4
  <2>6. n \in Nat /\ Len(parts) \in Nat
    BY <1>6
  <2> HIDE DEF n
  <2>7. /\ Len(decoded') = n + 1 /\ decoded'[n + 1] = x
        /\ \A i \in 1..n : decoded'[i] = decoded[i]
    BY <1>1, <1>5, <1>6, AddedFacts DEF n
  <2>8. \A i \in 1..Len(decoded') : decoded'[i] = NormalFlat(PartKind(i), PartOf(value, i))
    <3> SUFFICES ASSUME NEW i \in 1..(n + 1) PROVE decoded'[i] = NormalFlat(PartKind(i), PartOf(value, i))
      BY <2>7
    <3>1. CASE i = n + 1
      BY <2>5, <2>7, <3>1
    <3>2. CASE i # n + 1
      <4>1. i \in 1..n
        BY <2>6, <3>2
      <4> QED
        BY <2>1, <2>7, <4>1
    <3> QED
      BY <3>1, <3>2
  <2>9. CASE parts = <<>>
    <3>1. outcome' = "accepted"
      BY <1>3, <2>9
    <3>2. Len(decoded') = c
      BY <2>3, <2>4, <2>6, <2>7, <2>9
    <3> QED
      BY <1>2, <2>1, <2>8, <3>1, <3>2 DEF SentParts, c
  <2>10. CASE parts # <<>>
    <3>1. /\ Begin(Head(parts)[1], Head(parts)[2]) /\ parts' = Tail(parts) /\ outcome' = "reading"
      BY <1>2, <1>3, <2>10
    <3>2. /\ Len(parts) > 0 /\ Head(parts) = parts[1]
          /\ Len(parts') = Len(parts) - 1
          /\ \A i \in 1..(Len(parts) - 1) : parts'[i] = parts[i + 1]
      BY <1>6, <2>10, <3>1, HeadFacts
    <3>0. PICK m : m = (n + 1) + 1
      OBVIOUS
    <3>3. parts[1] = <<PartKind(m), EncodeFlat(PartKind(m), PartOf(value, m))>>
      BY <2>4, <2>6, <3>0, <3>2
    <3>4. Head(parts)[1] = PartKind(m) /\ Head(parts)[2] = EncodeFlat(PartKind(m), PartOf(value, m))
      BY <3>2, <3>3
    <3>5. m \in 1..c /\ m <= c
      BY <2>3, <2>4, <2>6, <3>0, <3>2
    <3>6. EncodableFlat(PartKind(m), PartOf(value, m)) /\ PartKind(m) \in Kinds
      BY <2>3, <3>5, KindFacts
    <3>7. /\ current' = PartKind(m) /\ rest' = EncodeFlat(PartKind(m), PartOf(value, m)) /\ got' = <<>>
          /\ fields' = DomainField(PartKind(m)) \o Layout(PartKind(m))
      BY <3>1, <3>4 DEF Begin
    <3>8. Sent(PartKind(m), PartOf(value, m), fields', got', rest')
      BY <3>6, <3>7, BeginSent
    <3>9. Len(parts') = c - m
      BY <2>3, <2>4, <2>6, <3>0, <3>2
    <3>10. \A j \in 1..Len(parts') :
             parts'[j] = <<PartKind(m + j), EncodeFlat(PartKind(m + j), PartOf(value, m + j))>>
      <4> SUFFICES ASSUME NEW j \in 1..Len(parts')
                   PROVE  parts'[j] = <<PartKind(m + j), EncodeFlat(PartKind(m + j), PartOf(value, m + j))>>
        OBVIOUS
      <4>1. j \in 1..(Len(parts) - 1) /\ j + 1 \in 1..Len(parts) /\ (n + 1) + (j + 1) = m + j
        BY <2>6, <3>0, <3>2
      <4>2. parts'[j] = parts[j + 1]
        BY <3>2, <4>1
      <4>3. parts[j + 1] = <<PartKind((n + 1) + (j + 1)),
                             EncodeFlat(PartKind((n + 1) + (j + 1)), PartOf(value, (n + 1) + (j + 1)))>>
        BY <2>4, <4>1
      <4> QED
        BY <4>1, <4>2, <4>3
    <3>11. SentPart(m)'
      BY <1>2, <3>5, <3>7, <3>8, <3>9, <3>10 DEF SentPart, c
    <3>12. Len(decoded') + 1 = m
      BY <2>7, <3>0
    <3>13. SentPart(Len(decoded) + 1)'
      BY <3>11, <3>12
    <3> QED
      BY <1>2, <2>1, <2>8, <3>1, <3>13 DEF SentParts
  <2> QED
    BY <2>9, <2>10
<1> QED
  BY <1>2, <1>8, <1>9 DEF SentIInv, SentAccepted

LEMMA SentStep == DecodingIInv /\ SentIInv /\ [ReaderNext]_readerVars => SentIInv'
<1> SUFFICES ASSUME DecodingIInv, SentIInv, [ReaderNext]_readerVars PROVE SentIInv'
  OBVIOUS
<1>1. CASE ReaderNext
  <2>1. ASSUME NEW k \in Kinds, Start(k) PROVE SentIInv'
    BY <2>1, SentStartStep
  <2> QED
    BY <1>1, <2>1, SentEditStep, SentReadStep, SentRefuseStep, SentEnvelopeStep, SentDecodedStep
    DEF ReaderNext, ReadOn
<1>2. CASE UNCHANGED readerVars
  BY <1>2 DEF readerVars, inputVars, partVars, SentIInv, Intact, SentWhole, SentAccepted,
              SentParts, SentPart
<1> QED
  BY <1>1, <1>2

(* A decoder that was given the encoding of a value has read that value so far,
   and what is left is the encoding of the fields, items and parts to come. *)
THEOREM SentInvariance == ReaderSpec => []SentIInv
<1>1. ReaderInit => SentIInv
  BY SentInit
<1>2. DecodingIInv /\ SentIInv /\ [ReaderNext]_readerVars => SentIInv'
  BY SentStep
<1> QED
  BY <1>1, <1>2, DecodingInvariance, PTL DEF ReaderSpec

LEMMA SentFacts == DecodingIInv /\ SentIInv => SentIsRead
<1> SUFFICES ASSUME DecodingIInv, SentIInv, Intact
             PROVE  outcome # "refused" /\ (outcome = "accepted" => Result = Normal(kind, value))
  BY DEF SentIsRead, Intact
<1>1. outcome # "refused"
  BY DEF SentIInv, SentWhole, SentAccepted, SentParts
<1>2. ASSUME outcome = "accepted" PROVE Result = Normal(kind, value)
  <2>1. decoder = kind
    BY DEF Intact
  <2>2. CASE SentAccepted
    <3>1. decoded[1] = NormalFlat(kind, value)
      BY <2>2 DEF SentAccepted
    <3> QED
      BY <2>1, <2>2, <3>1 DEF SentAccepted, Result, Normal
  <2>3. CASE SentParts
    <3> DEFINE n == Len(decoded)
               w == SubSeq(decoded, 3, n)
               u == [i \in DOMAIN value[3] |-> NormalFlat("Transaction", value[3][i])]
    <3>1. /\ kind = "Block" /\ n = PartCount(value)
          /\ \A i \in 1..n : decoded[i] = NormalFlat(PartKind(i), PartOf(value, i))
      BY <1>2, <2>3 DEF SentParts
    <3>2. n \in Nat /\ n >= 2 /\ DOMAIN value[3] = 1..(n - 2)
      <4>1. EncodableValue("Block", value)
        BY <3>1, ValueFacts DEF DecodingIInv
      <4>2. /\ PartCount(value) \in Nat /\ PartCount(value) >= 2
            /\ DOMAIN value[3] = 1..(PartCount(value) - 2)
        BY <4>1, BlockValue
      <4> HIDE DEF n
      <4> QED
        BY <3>1, <4>2
    <3>3. decoded \in Seq(ReadValues)
      BY DEF DecodingIInv, DecodingTyped
    <3>4. /\ w \in Seq(ReadValues) /\ Len(w) = n - 2
          /\ \A i \in 1..(n - 2) : w[i] = decoded[i + 2]
      BY <3>2, <3>3, FromThird
    <3>5. /\ decoded[1] = NormalFlat("BlockHeader", value[1])
          /\ decoded[2] = NormalFlat("RewardTransaction", value[2])
      <4>1. 1 \in 1..n /\ 2 \in 1..n
        BY <3>2
      <4>2. /\ PartKind(1) = "BlockHeader" /\ PartKind(2) = "RewardTransaction"
            /\ PartOf(value, 1) = value[1] /\ PartOf(value, 2) = value[2]
        BY DEF PartKind, PartOf
      <4> QED
        BY <3>1, <4>1, <4>2
    <3>6. Result = <<decoded[1], decoded[2], w>>
      BY <2>1, <3>1 DEF Result
    <3> HIDE DEF n, w
    <3>7. \A i \in 1..(n - 2) : w[i] = NormalFlat("Transaction", value[3][i])
      <4> SUFFICES ASSUME NEW i \in 1..(n - 2) PROVE w[i] = NormalFlat("Transaction", value[3][i])
        OBVIOUS
      <4>1. i + 2 \in 1..n /\ i + 2 # 1 /\ i + 2 # 2 /\ (i + 2) - 2 = i
        BY <3>2
      <4>2. PartKind(i + 2) = "Transaction" /\ PartOf(value, i + 2) = value[3][i]
        BY <4>1 DEF PartKind, PartOf
      <4> QED
        BY <3>1, <3>4, <4>1, <4>2
    <3>8. w = u
      <4>1. u = [i \in 1..(n - 2) |-> NormalFlat("Transaction", value[3][i])]
        BY <3>2
      <4>2. w = [i \in 1..(n - 2) |-> w[i]]
        BY <3>4
      <4> HIDE DEF u
      <4> QED
        BY <3>7, <4>1, <4>2
    <3>9. Normal(kind, value) = <<NormalFlat("BlockHeader", value[1]),
                                  NormalFlat("RewardTransaction", value[2]), u>>
      BY <3>1 DEF Normal
    <3> HIDE DEF u
    <3> QED
      BY <3>5, <3>6, <3>8, <3>9
  <2> QED
    BY <1>2, <2>2, <2>3 DEF SentIInv, SentWhole
<1> QED
  BY <1>1, <1>2

(* The encoding of a value (to_bytes, encode_block, encode_ping) is never refused,
   and gives the value back with its texts normalized: for every value that the
   encoder takes and that keeps the reader's limits. *)
THEOREM SentIsReadTheorem == ReaderSpec => []SentIsRead
BY DecodingInvariance, SentInvariance, SentFacts, PTL

-----------------------------------------------------------------------------
(* No bytes are more than there were: the type invariant. *)
Within(s) == s \in Seq(Byte) /\ Len(s) <= Len(encoded)

BytesWithin ==
  /\ Within(rest) /\ current \in Kinds \cup {NoKind}
  /\ decoder = NoKind => rest = <<>> /\ current = NoKind
  /\ \A i \in 1..Len(parts) : Within(parts[i][2])
  /\ current = "Block" => got \in Seq(Seq(Byte)) /\ \A i \in 1..Len(got) : Within(got[i])
  /\ outcome = "accepted" => parts = <<>> /\ fields = <<>>

LEMMA LeaveFacts ==
  ASSUME NEW s \in Seq(Byte), NEW n \in Nat
  PROVE  /\ SubSeq(s, n + 1, Len(s)) \in Seq(Byte)
         /\ Len(SubSeq(s, n + 1, Len(s))) <= Len(s)
<1>1. CASE n <= Len(s)
  <2>1. n \in 0..Len(s)
    BY <1>1
  <2>2. /\ SubSeq(s, n + 1, Len(s)) \in Seq(Byte)
        /\ Len(SubSeq(s, n + 1, Len(s))) = Len(s) - n
    BY <2>1, SplitFacts DEF SplitsAt
  <2> QED
    BY <2>2
<1>2. CASE n > Len(s)
  <2>1. SubSeq(s, n + 1, Len(s)) = <<>>
    BY <1>2
  <2> QED
    BY <2>1
<1> QED
  BY <1>1, <1>2

LEMMA WithinReadStep ==
  ASSUME DecodingIInv, BytesWithin, ReadOn
  PROVE  BytesWithin'
<1>1. Reading
  BY DEF ReadOn, ReadUint, ReadBytes, ReadCount, Expects
<1>2. PICK P : Stage(current, fields, got, rest, P)
  BY <1>1, ReadingStage
<1>3. current' = current /\ UNCHANGED <<inputVars, decoder, parts, decoded, outcome>>
  BY <1>2, ReadStage DEF ReadOn
<1>4. encoded' = encoded /\ outcome = "reading" /\ decoder # NoKind
  BY <1>1, <1>3 DEF inputVars, Reading
<1>5. rest \in Seq(Byte) /\ fields \in Seq(FieldRecords)
  BY <1>2 DEF Stage
<1>6. fields # <<>>
  BY DEF ReadOn, ReadUint, ReadBytes, ReadCount, Expects
<1>7. Head(fields).size \in Nat
  <2>1. Head(fields) \in FieldRecords
    <3> HIDE DEF FieldRecords
    <3> QED
      BY <1>5, <1>6, HeadFacts
  <2> QED
    BY <2>1 DEF FieldRecords
<1>8. PICK n \in Nat : /\ rest' = Leave(n)
                       /\ \/ got' = got
                          \/ got' = Append(got, NextBytes) /\ NextBytes \in Seq(Byte)
                             /\ Len(NextBytes) <= Len(rest)
                          \/ current # "Block"
  <2>1. CASE ReadUint
    <3>1. rest' = Leave(Head(fields).size)
      BY <2>1 DEF ReadUint, Got
    <3>2. current # "Block"
      <4> SUFFICES ASSUME current = "Block" PROVE FALSE
        OBVIOUS
      <4>1. Head(fields).type # "uint"
        BY <1>2, <1>6, BlockFields
      <4> QED
        BY <2>1, <4>1 DEF ReadUint, Expects
    <3> QED
      BY <1>7, <3>1, <3>2
  <2>2. CASE ReadCount
    <3>1. rest' = Leave(U32Width) /\ got' = got
      BY <2>2 DEF ReadCount
    <3> QED
      BY <3>1, WidthsFacts
  <2>3. CASE ReadBytes
    <3>1. HasBytes(Head(fields).size) /\ rest' = Leave(U32Width + Length)
      BY <2>3 DEF ReadBytes
    <3>2. /\ NextBytes \in Seq(Byte) /\ Len(NextBytes) = Length /\ Length \in Nat
      BY <1>5, <3>1, NextBytesFacts
    <3>3. Length <= Len(rest) /\ U32Width + Length \in Nat
      <4>1. U32Width \in Nat /\ Len(rest) - U32Width >= Length
        BY <3>1, WidthsFacts DEF HasBytes
      <4> QED
        BY <1>5, <3>2, <4>1
    <3>4. \/ got' = got
          \/ got' = Append(got, NextBytes)
          \/ current # "Block"
      <4> SUFFICES ASSUME current = "Block" PROVE got' = got \/ got' = Append(got, NextBytes)
        OBVIOUS
      <4>1. Head(fields).type # "number"
        BY <1>2, <1>6, BlockFields
      <4> QED
        BY <2>3, <4>1 DEF ReadBytes
    <3> QED
      BY <3>1, <3>2, <3>3, <3>4
  <2> QED
    BY <2>1, <2>2, <2>3 DEF ReadOn
<1>9. Within(rest)'
  <2>1. rest' \in Seq(Byte) /\ Len(rest') <= Len(rest)
    BY <1>5, <1>8, LeaveFacts DEF Leave
  <2>2. Len(rest') \in Nat /\ Len(rest) \in Nat /\ Len(encoded) \in Nat /\ Len(rest) <= Len(encoded)
    BY <1>5, <2>1 DEF BytesWithin, Within, DecodingIInv, DecodingTyped
  <2> QED
    BY <1>4, <2>1, <2>2 DEF Within
<1>10. ASSUME current = "Block"
       PROVE  got' \in Seq(Seq(Byte)) /\ \A i \in 1..Len(got') : Within(got'[i])
  <2>1. got \in Seq(Seq(Byte)) /\ \A i \in 1..Len(got) : Within(got[i])
    BY <1>10 DEF BytesWithin
  <2>2. CASE got' = got
    BY <2>1, <2>2
  <2>3. CASE got' = Append(got, NextBytes) /\ NextBytes \in Seq(Byte) /\ Len(NextBytes) <= Len(rest)
    <3> DEFINE s == NextBytes
    <3>1. Within(s)
      <4>1. Len(s) \in Nat /\ Len(rest) \in Nat /\ Len(encoded) \in Nat /\ Len(rest) <= Len(encoded)
        BY <1>5, <2>3 DEF BytesWithin, Within, DecodingIInv, DecodingTyped
      <4> QED
        BY <2>3, <4>1 DEF Within
    <3>2. s \in Seq(Byte)
      BY <2>3
    <3> HIDE DEF s
    <3>3. /\ Append(got, s) \in Seq(Seq(Byte)) /\ Len(Append(got, s)) = Len(got) + 1 /\ Len(got) \in Nat
          /\ Append(got, s)[Len(got) + 1] = s
          /\ \A i \in 1..Len(got) : Append(got, s)[i] = got[i]
      BY <2>1, <3>2, AddedFacts
    <3>4. \A i \in 1..(Len(got) + 1) : i \in 1..Len(got) \/ i = Len(got) + 1
      BY <3>3
    <3>5. \A i \in 1..Len(Append(got, s)) : Within(Append(got, s)[i])
      BY <2>1, <3>1, <3>3, <3>4
    <3> QED
      BY <2>3, <3>3, <3>5 DEF s
  <2> QED
    BY <1>8, <1>10, <2>2, <2>3
<1> QED
  BY <1>3, <1>4, <1>9, <1>10 DEF BytesWithin, Within

LEMMA WithinStartStep ==
  ASSUME DecodingIInv, BytesWithin, NEW k \in Kinds, Start(k)
  PROVE  BytesWithin'
<1>1. /\ decoder = NoKind /\ decoder' = k
      /\ current' = k /\ rest' = encoded /\ got' = <<>> /\ encoded' = encoded
      /\ parts' = parts /\ outcome' = outcome
  BY DEF Start, Begin, inputVars
<1>2. encoded \in Seq(Byte) /\ outcome = "reading" /\ parts = <<>> /\ Len(encoded) <= Len(encoded)
  BY <1>1 DEF DecodingIInv, DecodingTyped
<1>3. got' \in Seq(Seq(Byte)) /\ \A i \in 1..Len(got') : FALSE
  BY <1>1
<1>4. \A i \in 1..Len(parts') : FALSE
  BY <1>1, <1>2
<1> QED
  BY <1>1, <1>2, <1>3, <1>4, KindFacts DEF BytesWithin, Within

LEMMA WithinEnvelopeStep ==
  ASSUME DecodingIInv, BytesWithin, OpenEnvelope
  PROVE  BytesWithin'
<1>1. /\ Reading /\ current = "Block" /\ fields = <<>> /\ rest = <<>>
      /\ current' = "BlockHeader" /\ rest' = got[1]
      /\ parts' = <<<<"RewardTransaction", got[2]>>>>
                    \o [i \in 1 .. Len(got) - 2 |-> <<"Transaction", got[i + 2]>>]
      /\ UNCHANGED <<inputVars, decoder, decoded, outcome>>
  BY DEF OpenEnvelope, Finished, Begin
<1>2. encoded' = encoded /\ outcome = "reading" /\ decoder # NoKind
  BY <1>1 DEF inputVars, Reading
<1>3. got \in Seq(Seq(Byte)) /\ \A i \in 1..Len(got) : Within(got[i])
  BY <1>1 DEF BytesWithin
<1>4. Len(got) \in Nat /\ Len(got) >= 2
  <2>1. ~(\E block : BlockReading(block))
    BY <1>1, <1>2, KindFacts DEF BlockReading, PartReading
  <2>2. WholeReading
    BY <1>2, <2>1 DEF DecodingIInv, WholeAccepted
  <2>3. Stage("Block", <<>>, got, <<>>, encoded)
    BY <1>1, <2>2 DEF WholeReading
  <2> QED
    BY <1>3, <2>3, BlockGathered
<1>5. Within(got[1]) /\ Within(got[2])
  <2>1. 1 \in 1..Len(got) /\ 2 \in 1..Len(got)
    BY <1>4
  <2> QED
    BY <1>3, <2>1
<1> DEFINE reward == <<"RewardTransaction", got[2]>>
           u == [i \in 1 .. Len(got) - 2 |-> <<"Transaction", got[i + 2]>>]
           T == {x \in Kinds \X Seq(Byte) : Within(x[2])}
<1>6. reward \in T
  BY <1>5 DEF Within, Kinds, Flat
<1>7. u \in Seq(T)
  <2>1. \A i \in 1..(Len(got) - 2) : i + 2 \in 1..Len(got)
    BY <1>4
  <2>2. \A i \in 1..(Len(got) - 2) : Within(got[i + 2])
    BY <1>3, <2>1
  <2>3. \A i \in 1..(Len(got) - 2) : <<"Transaction", got[i + 2]>> \in T
    BY <2>2 DEF Within, Kinds, Flat
  <2>4. Len(got) - 2 \in Nat
    BY <1>4
  <2> HIDE DEF T
  <2> QED
    BY <2>3, <2>4
<1>8. \A x \in T : Within(x[2])
  OBVIOUS
<1>9. parts' = <<reward>> \o u
  BY <1>1
<1> HIDE DEF reward, u, T
<1>10. parts' \in Seq(T)
  BY <1>6, <1>7, <1>9
<1>11. \A i \in 1..Len(parts') : Within(parts'[i][2])
  <2>1. \A i \in 1..Len(parts') : parts'[i] \in T
    BY <1>10
  <2> QED
    BY <1>8, <2>1
<1>12. \A s : Within(s)' <=> Within(s)
  BY <1>2 DEF Within
<1>13. "BlockHeader" \in Kinds
  BY DEF Kinds, Flat
<1> QED
  BY <1>1, <1>2, <1>5, <1>11, <1>13 DEF BytesWithin, Within

LEMMA WithinDecodedStep ==
  ASSUME DecodingIInv, BytesWithin, Decoded
  PROVE  BytesWithin'
<1>1. /\ Reading /\ fields = <<>> /\ current # "Block" /\ UNCHANGED <<inputVars, decoder>>
  BY DEF Decoded, Finished
<1>2. encoded' = encoded /\ outcome = "reading" /\ decoder # NoKind
  BY <1>1 DEF inputVars, Reading
<1>3. CASE parts = <<>>
  <2>1. outcome' = "accepted" /\ UNCHANGED <<partVars, parts>>
    BY <1>3 DEF Decoded
  <2> QED
    BY <1>1, <1>2, <1>3, <2>1 DEF BytesWithin, Within, partVars
<1>4. CASE parts # <<>>
  <2>1. /\ current' = Head(parts)[1] /\ rest' = Head(parts)[2]
        /\ parts' = Tail(parts) /\ outcome' = outcome
    BY <1>4 DEF Decoded, Begin
  <2>2. parts \in Seq(Kinds \X Seq(Byte))
    BY DEF DecodingIInv, DecodingTyped
  <2>3. /\ Len(parts) \in Nat /\ Len(parts) > 0 /\ Head(parts) = parts[1]
        /\ Head(parts) \in Kinds \X Seq(Byte)
        /\ Len(parts') = Len(parts) - 1
        /\ \A i \in 1..(Len(parts) - 1) : parts'[i] = parts[i + 1]
    BY <1>4, <2>1, <2>2, HeadFacts
  <2>4. \A i \in 1..Len(parts) : Within(parts[i][2])
    BY DEF BytesWithin
  <2>5. Within(rest') /\ current' \in Kinds
    <3>1. 1 \in 1..Len(parts)
      BY <2>3
    <3> QED
      BY <2>1, <2>3, <2>4, <3>1
  <2>6. \A i \in 1..Len(parts') : Within(parts'[i][2])
    <3>1. \A i \in 1..(Len(parts) - 1) : i + 1 \in 1..Len(parts)
      BY <2>3
    <3> QED
      BY <2>3, <2>4, <3>1
  <2>7. current' # "Block"
    <3>1. ~WholeReading /\ ~WholeAccepted
      BY <1>2, <1>4 DEF WholeReading, WholeAccepted
    <3>2. PICK block : BlockReading(block)
      BY <1>2, <3>1 DEF DecodingIInv
    <3>3. PartReading(block, Len(decoded) + 1)
      BY <1>2, <3>2 DEF BlockReading
    <3>4. \A j \in 1..Len(parts) : parts[j] = <<PartKind((Len(decoded) + 1) + j), block[(Len(decoded) + 1) + j]>>
      BY <3>3 DEF PartReading
    <3>5. parts[1] = <<PartKind((Len(decoded) + 1) + 1), block[(Len(decoded) + 1) + 1]>>
      <4>1. 1 \in 1..Len(parts)
        BY <2>3
      <4> QED
        BY <3>4, <4>1
    <3>6. current' = PartKind((Len(decoded) + 1) + 1)
      BY <2>1, <2>3, <3>5
    <3> QED
      BY <3>6, KindFacts
  <2> QED
    BY <1>1, <1>2, <2>1, <2>5, <2>6, <2>7 DEF BytesWithin, Within
<1> QED
  BY <1>3, <1>4

LEMMA WithinStep == DecodingIInv /\ BytesWithin /\ [ReaderNext]_readerVars => BytesWithin'
<1> SUFFICES ASSUME DecodingIInv, BytesWithin, [ReaderNext]_readerVars PROVE BytesWithin'
  OBVIOUS
<1>1. CASE Change \/ Truncate \/ Extend
  <2>1. PICK new : Edit(new)
    BY <1>1 DEF Change, Truncate, Extend
  <2>2. /\ decoder = NoKind /\ encoded' = new
        /\ UNCHANGED <<decoder, partVars, parts, decoded, outcome>>
    BY <2>1 DEF Edit
  <2>3. rest = <<>> /\ current = NoKind /\ parts = <<>> /\ outcome = "reading"
    BY <2>2 DEF BytesWithin, DecodingIInv
  <2>4. encoded' \in Seq(Byte)
    BY <1>1, EditStep DEF DecodingIInv, DecodingTyped
  <2>5. Within(rest)'
    <3>1. rest' = <<>> /\ Len(<<>>) = 0 /\ Len(encoded') \in Nat
      BY <2>2, <2>3, <2>4 DEF partVars
    <3> QED
      BY <3>1 DEF Within
  <2> QED
    BY <2>2, <2>3, <2>5, KindFacts DEF BytesWithin, partVars, Kinds
<1>2. ASSUME NEW k \in Kinds, Start(k) PROVE BytesWithin'
  BY <1>2, WithinStartStep
<1>3. CASE Refuse
  BY <1>3 DEF Refuse, BytesWithin, Within, partVars, inputVars, Reading
<1>4. CASE UNCHANGED readerVars
  BY <1>4 DEF readerVars, inputVars, partVars, BytesWithin, Within
<1> QED
  BY <1>1, <1>2, <1>3, <1>4, WithinReadStep, WithinEnvelopeStep, WithinDecodedStep
  DEF ReaderNext, ReadOn

(* A decoder never holds more bytes than it was given, neither to read
   (CanonicalReader.remaining) nor as the parts of a block. *)
THEOREM ReaderTypeCorrect == ReaderSpec => []ReaderTypeOK
<1>1. ReaderInit => BytesWithin
  <2> SUFFICES ASSUME ReaderInit PROVE BytesWithin
    OBVIOUS
  <2>1. encoded \in Seq(Byte)
    BY DecodingInit DEF DecodingIInv, DecodingTyped
  <2>2. rest = <<>> /\ parts = <<>> /\ current = NoKind /\ outcome = "reading"
    BY DEF ReaderInit
  <2>3. Within(<<>>)
    BY <2>1 DEF Within
  <2> QED
    BY <2>2, <2>3, KindFacts DEF BytesWithin, Kinds
<1>2. DecodingIInv /\ BytesWithin /\ [ReaderNext]_readerVars => BytesWithin'
  BY WithinStep
<1>3. DecodingIInv /\ BytesWithin => ReaderTypeOK
  BY DEF DecodingIInv, DecodingTyped, BytesWithin, Within, ReaderTypeOK
<1> QED
  BY <1>1, <1>2, <1>3, DecodingInvariance, PTL DEF ReaderSpec
=============================================================================
