----------------------------- MODULE TokenBucket -----------------------------
(***************************************************************************)
(* The rate limiter of a socket (apps/realtime/src/security/rateLimiter.ts)*)
(* as dispatchClientMessage uses it: take() at every message.              *)
(*                                                                         *)
(* Time is in milliseconds and tokens are counted in thousandths: what a   *)
(* millisecond adds is then Rate of them, exactly.  The rounding of the    *)
(* code's floating-point tokens is not modelled.                           *)
(***************************************************************************)
EXTENDS Integers, Sequences

CONSTANTS
  Rate,       \* ratePerSecond
  Capacity,   \* capacity, the burst
  Pauses,     \* the milliseconds that pass between two messages
  MaxMessages \* bound of the model: messages on the socket

ASSUME BucketAssumption ==
  /\ Rate \in Nat
  /\ Capacity \in Nat
  /\ Pauses \subseteq Nat

\* Thousandths of tokens: a full bucket, and what a time adds.
Full == 1000 * Capacity
Worth(ms) == ms * Rate

VARIABLES
  tokens,     \* in thousandths
  last,       \* the time of the last take
  messages,   \* how many came
  accepted    \* history: the times of those that were let through

bucketVars == <<tokens, last, messages, accepted>>

BucketTypeOK ==
  /\ tokens \in Nat
  /\ last \in Nat
  /\ messages \in Nat
  /\ accepted \in Seq(Nat)

\* The bucket is full when the socket begins.
BucketInit ==
  /\ tokens = Full
  /\ last = 0
  /\ messages = 0
  /\ accepted = <<>>

----------------------------------------------------------------------------
\* Defect: the bucket overflows.
Refilled_NoCap(elapsed) == tokens + Worth(elapsed)

Refilled(elapsed) ==
  IF tokens + Worth(elapsed) <= Full THEN tokens + Worth(elapsed) ELSE Full

Accept(elapsed) ==
  /\ Refilled(elapsed) >= 1000
  /\ tokens' = Refilled(elapsed) - 1000
  /\ accepted' = Append(accepted, last + elapsed)
  /\ last' = last + elapsed

\* Defect: what a refused message waited for is lost.
Reject_DropsRefill(elapsed) ==
  /\ Refilled(elapsed) < 1000
  /\ last' = last + elapsed
  /\ UNCHANGED <<tokens, accepted>>

\* RateLimited: the tokens it found stay.
Reject(elapsed) ==
  /\ Refilled(elapsed) < 1000
  /\ tokens' = Refilled(elapsed)
  /\ last' = last + elapsed
  /\ UNCHANGED accepted

Take ==
  /\ messages < MaxMessages
  /\ messages' = messages + 1
  /\ \E elapsed \in Pauses : Accept(elapsed) \/ Reject(elapsed)

BucketNext == Take

BucketSpec == BucketInit /\ [][BucketNext]_bucketVars

----------------------------------------------------------------------------
(* In any stretch of time the socket gets no more messages through than the*)
(* burst and what the rate adds in that time: between the i-th and the j-th*)
(* message let through, both counted.                                      *)
WindowBound ==
  \A j \in 1..Len(accepted) : \A i \in 1..j :
    1000 * (j - i + 1) <= Full + Worth(accepted[j] - accepted[i])

(* The messages a sender may still send at time t by that rule alone.      *)
Conforms(t) ==
  /\ Capacity >= 1
  /\ \A i \in 1..Len(accepted) :
       1000 * (Len(accepted) - i + 2) <= Full + Worth(t - accepted[i])

(* Nobody is refused who keeps to the rate: a message is let through       *)
(* exactly when with it every stretch of time is still within the bound,   *)
(* and the refused ones before it cost nothing.                            *)
RefusesOnlyOverRate ==
  [][accepted' = accepted => ~Conforms(last')]_bucketVars
=============================================================================
