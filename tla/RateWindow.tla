----------------------------- MODULE RateWindow ----------------------------
(***************************************************************************)
(* What a peer's rate limit promises (docs/threat-model.md: "per-minute    *)
(* message/byte limits"): a frame is allowed exactly if, with it, no more  *)
(* than the limits are allowed in the minute that ends now.  Everything    *)
(* ever allowed is remembered.                                             *)
(***************************************************************************)
EXTENDS Integers, Sequences, FiniteSets, FiniteSetsExt

CONSTANTS
  Window,        \* one minute, in ticks
  MaxMessages,   \* max_messages_per_minute
  MaxBytes,      \* max_bytes_per_minute
  Sizes,         \* the sizes of frames
  MaxTime        \* bound on the clock

ASSUME RateWindowAssumption ==
  /\ {Window, MaxMessages, MaxBytes} \subseteq Nat \ {0}
  /\ Sizes \subseteq Nat \ {0} /\ MaxTime \in Nat

VARIABLES
  now,
  log,           \* the frames allowed so far, with their times
  allowed        \* the last verdict

Message(size) == [at |-> now, size |-> size]

(* The bytes of the messages with the given numbers. *)
Volume(messages, numbers) == MapThenSumSet(LAMBDA i : messages[i].size, numbers)

(* The frames allowed in the minute that ends now. *)
Recent == {i \in DOMAIN log : now - Window < log[i].at}

WindowInit == now = 0 /\ log = <<>> /\ allowed = TRUE

Judge(size) ==
  /\ allowed' = ( /\ Cardinality(Recent) < MaxMessages
                  /\ Volume(log, Recent) + size <= MaxBytes )
  /\ log' = IF allowed' THEN Append(log, Message(size)) ELSE log
  /\ UNCHANGED now

WindowTick == now < MaxTime /\ now' = now + 1 /\ UNCHANGED <<log, allowed>>

WindowNext == WindowTick \/ \E size \in Sizes : Judge(size)

WindowSpec == WindowInit /\ [][WindowNext]_<<now, log, allowed>>
=============================================================================
