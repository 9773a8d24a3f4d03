---------------------------- MODULE LoginThrottle ----------------------------
(***************************************************************************)
(* The sliding window that slows down guessing of passwords: LoginThrottle *)
(* of src/console/auth.js, as POST /login of src/console/index.js uses it. *)
(* Failures are counted under the client's address and under the username. *)
(* The window is looked at before the password is verified, which is       *)
(* awaited; the failure is recorded after it.                              *)
(*                                                                         *)
(* Bound: EndOfGuessing of the clock.                                      *)
(***************************************************************************)
EXTENDS Integers, Sequences, FiniteSets

CONSTANTS
  Guessers,       \* sign-ins in progress at most
  ThrottleKeys,   \* "ip:..." and "user:..." keys
  GuessKeys,         \* the keys of each sign-in
  MaxFailures, Window, EndOfGuessing

ASSUME ThrottleAssumption ==
  /\ IsFiniteSet(Guessers)
  /\ GuessKeys \in [Guessers -> SUBSET ThrottleKeys]
  /\ MaxFailures \in Nat \ {0} /\ Window \in Nat \ {0} /\ EndOfGuessing \in Nat

VARIABLES failures, guess, minute

tvars == <<failures, guess, minute>>

ThrottleInit ==
  /\ failures = [k \in ThrottleKeys |-> <<>>]
  /\ guess = [c \in Guessers |-> "idle"]
  /\ minute = 0

Since(times, cut) == Cardinality({i \in DOMAIN times : times[i] > cut})

\* _recent, which also forgets what has left the window.  The clock does not go
\* back and failures are added at the end, so what the filter keeps is a tail.
Unexpired(times, cut) == SubSeq(times, Len(times) - Since(times, cut) + 1, Len(times))
Recent(k) == Unexpired(failures[k], minute - Window)
Full(k) == Len(Recent(k)) >= MaxFailures

\* retryAfterSeconds, 0 if the sign-in may go on.
Waits(c) == {0} \cup {Recent(k)[1] + Window - minute : k \in {j \in GuessKeys[c] : Full(j)}}
RetryAfter(c) == CHOOSE w \in Waits(c) : \A v \in Waits(c) : v <= w

Guess(c) ==
  /\ guess[c] = "idle"
  /\ failures' = [k \in ThrottleKeys |-> IF k \in GuessKeys[c] THEN Recent(k) ELSE failures[k]]
  /\ guess' = [guess EXCEPT ![c] = IF RetryAfter(c) > 0 THEN "idle" ELSE "verifying"]
  /\ UNCHANGED minute

GuessFails(c) ==
  /\ guess[c] = "verifying"
  /\ failures' = [k \in ThrottleKeys |->
                    IF k \in GuessKeys[c] THEN Append(Recent(k), minute) ELSE failures[k]]
  /\ guess' = [guess EXCEPT ![c] = "idle"]
  /\ UNCHANGED minute

GuessSucceeds(c) ==
  /\ guess[c] = "verifying"
  /\ failures' = [k \in ThrottleKeys |-> IF k \in GuessKeys[c] THEN <<>> ELSE failures[k]]
  /\ guess' = [guess EXCEPT ![c] = "idle"]
  /\ UNCHANGED minute

MinutePasses ==
  /\ minute < EndOfGuessing
  /\ minute' = minute + 1
  /\ UNCHANGED <<failures, guess>>

ThrottleNext == \/ \E c \in Guessers : Guess(c) \/ GuessFails(c) \/ GuessSucceeds(c)
                \/ MinutePasses

ThrottleSpec == ThrottleInit /\ [][ThrottleNext]_tvars
-----------------------------------------------------------------------------
ThrottleTypeOK ==
  /\ failures \in [ThrottleKeys -> Seq(0..minute)]
  /\ \A k \in ThrottleKeys : \A i, j \in DOMAIN failures[k] : i < j => failures[k][i] <= failures[k][j]
  /\ guess \in [Guessers -> {"idle", "verifying"}]

Verifying(k) == {c \in Guessers : guess[c] = "verifying" /\ k \in GuessKeys[c]}

\* Within any window a key fails no oftener than the limit and the sign-ins
\* that were let in before its last failure: everyone still verifying passed
\* the check while the window was not full.
ThrottleHolds ==
  \A k \in ThrottleKeys :
    Len(Recent(k)) + Cardinality(Verifying(k)) <
      MaxFailures + Cardinality({c \in Guessers : k \in GuessKeys[c]})

\* The wait that is answered is a wait within the window, and after it one
\* more sign-in fits unless failures came on top of a full window.
WaitIsEnough ==
  \A c \in Guessers :
    /\ RetryAfter(c) <= Window
    /\ \A k \in GuessKeys[c] : Len(Recent(k)) = MaxFailures =>
         Since(failures[k], minute + RetryAfter(c) - Window) < MaxFailures
=============================================================================
