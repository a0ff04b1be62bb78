------------------------------- MODULE LeaseTable -------------------------------
(***************************************************************************)
(* What the lease table of experiments/queue.py promises, with the clock   *)
(* abstracted to the one bit the code compares it for: a lease is live     *)
(* until it expires, and it may expire at any moment between two           *)
(* heartbeats.  CampaignRunner uses this table; CandidateStore is the one  *)
(* with tokens, generations and a clock, whose calls are steps of this one *)
(* at the time their caller has read.                                      *)
(*                                                                         *)
(* A lease token is known to the one process whose claim minted it, and a  *)
(* process forgets it when it claims again, so a token is abstracted to    *)
(* the process that holds it.                                              *)
(***************************************************************************)
CONSTANTS Candidate, \* the candidates that can be leased
          Runner,    \* the processes that claim them
          NoRunner   \* the owner of a candidate that was never claimed

VARIABLES owner,     \* [Candidate -> Runner or NoRunner], holder of the last token
          live,      \* candidates whose lease has not expired
          completed  \* candidates whose lease is completed

LeaseTypeOK ==
  /\ owner \in [Candidate -> Runner \cup {NoRunner}]
  /\ live \subseteq Candidate
  /\ completed \subseteq Candidate

LeaseInit ==
  /\ owner = [c \in Candidate |-> NoRunner]
  /\ live = {}
  /\ completed = {}

-----------------------------------------------------------------------------

\* Mistake: an expired lease is never given to another claim.
Claimable_FirstOnly(c) == c \notin completed /\ owner[c] \notin Runner

\* A claim is refused while the row is completed or unexpired.
Claimable(c) == c \notin completed /\ c \notin live

Claim(r, c) ==
  /\ Claimable(c)
  /\ owner' = [owner EXCEPT ![c] = r]
  /\ live' = live \cup {c}
  /\ UNCHANGED completed

\* What heartbeat and complete require of the caller's token.
Current(r, c) == owner[c] = r /\ c \in live /\ c \notin completed

\* A heartbeat moves the expiry, so the lease stays live.
Heartbeat(r, c) == Current(r, c) /\ UNCHANGED <<owner, live, completed>>

\* Completing again with the same token changes nothing.
Completable(r, c) == owner[c] = r /\ (c \in live \/ c \in completed)

Complete(r, c) ==
  /\ Completable(r, c)
  /\ completed' = completed \cup {c}
  /\ UNCHANGED <<owner, live>>

Expire(c) ==
  /\ c \in live
  /\ live' = live \ {c}
  /\ UNCHANGED <<owner, completed>>

=============================================================================
