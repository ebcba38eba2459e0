---------------------------- MODULE RateLimiter ----------------------------
(***************************************************************************)
(* The sliding window of p2p.py's _RateLimiter: a deque of the frames      *)
(* allowed in the last minute, which is pruned only when the next frame    *)
(* comes, and a running total of their bytes.  One instance belongs to one *)
(* connection, whose task calls allow for every frame it reads.            *)
(*                                                                         *)
(* log and allowed are those of RateWindow, which this module implements;  *)
(* log is a history variable, the code does not keep it.                   *)
(***************************************************************************)
EXTENDS RateWindow

VARIABLES
  events,        \* _events
  bytes          \* _bytes

limiterVars == <<now, log, allowed, events, bytes>>

LimiterInit == WindowInit /\ events = <<>> /\ bytes = 0

(* How many events from the left are popped: those not after the cutoff.  (An
   off-by-one at the cutoff keeps a frame for one tick too long.) *)
StaleBefore(cutoff) ==
  CHOOSE n \in 0..Len(events) :
    /\ \A i \in 1..n : events[i].at < cutoff
    /\ n < Len(events) => events[n + 1].at >= cutoff

Stale(cutoff) ==
  CHOOSE n \in 0..Len(events) :
    /\ \A i \in 1..n : events[i].at <= cutoff
    /\ n < Len(events) => events[n + 1].at > cutoff

(* allow: the pruning stays even when the frame is refused. *)
Allow(size) ==
  LET stale == Stale(now - Window)
      kept  == SubSeq(events, stale + 1, Len(events))
      left  == bytes - Volume(events, 1..stale)
  IN  /\ allowed' = (Len(kept) + 1 <= MaxMessages /\ left + size <= MaxBytes)
      /\ events' = IF allowed' THEN Append(kept, Message(size)) ELSE kept
      /\ bytes' = IF allowed' THEN left + size ELSE left
      /\ log' = IF allowed' THEN Append(log, Message(size)) ELSE log
      /\ UNCHANGED now

LimiterTick == WindowTick /\ UNCHANGED <<events, bytes>>

LimiterNext == LimiterTick \/ \E size \in Sizes : Allow(size)

LimiterSpec == LimiterInit /\ [][LimiterNext]_limiterVars

-----------------------------------------------------------------------------
LimiterTypeOK ==
  /\ now \in 0..MaxTime /\ bytes \in 0..MaxBytes /\ allowed \in BOOLEAN
  /\ Len(events) <= MaxMessages
  /\ \A i \in DOMAIN events : events[i].at \in 0..now /\ events[i].size \in Sizes

(* The deque, pruned only now and then, and its running total judge every frame
   as the full history would: none is refused within the limits and no frame is
   kept or dropped a moment too long. *)
Promised == INSTANCE RateWindow
ImplementsRateWindow == Promised!WindowSpec
=============================================================================
