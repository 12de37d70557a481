----------------------------- MODULE LogStream ------------------------------
(***************************************************************************)
(* What the platform promises to one who watches a deployment, without a   *)
(* buffer, a timer, a cursor or a query: the run says lines, one after the *)
(* other; what is kept is always a beginning of what was said, and what is *)
(* seen a beginning of what is kept; a stream that is cut starts over; one *)
(* that closes has shown what the run had said, unless the worker was      *)
(* killed, and the run says no more.  Lines that come late, of no run any  *)
(* more, are kept and may be seen, but nobody waits for them.              *)
(***************************************************************************)
EXTENDS Naturals, Sequences

VARIABLES
  said,    \* lines the run has emitted
  own,     \* how many of them are the run's own: the first ones
  kept,    \* lines in the database
  seen,    \* lines the client shows
  closed,  \* the stream has ended by itself
  dead,    \* the worker was killed: what was not kept is gone
  loose    \* a late cancel has ended a deployment whose run goes on: no
           \* promise about the end of the stream is left

svars == <<said, own, kept, seen, closed, dead, loose>>

Begins(s, t) == Len(s) <= Len(t) /\ \A i \in DOMAIN s : t[i] = s[i]

SInit ==
  /\ said = <<>> /\ own = 0 /\ kept = <<>> /\ seen = <<>>
  /\ closed = FALSE /\ dead = FALSE /\ loose = FALSE

\* The worker says at most one more line, and keeps some more.  The run's own
\* lines come first, and before the stream closes.
Write ==
  /\ ~ dead
  /\ Begins(said, said') /\ Len(said') <= Len(said) + 1
  /\ Begins(kept, kept') /\ Begins(kept', said')
  /\ own' = own \/ (own = Len(said) /\ own' = Len(said') /\ (closed => loose))
  /\ UNCHANGED <<seen, closed, dead, loose>>

Die == ~ dead /\ dead' = TRUE /\ UNCHANGED <<said, own, kept, seen, closed, loose>>

Overrule == loose' = TRUE /\ UNCHANGED <<said, own, kept, seen, closed, dead>>

Show ==
  /\ ~ closed
  /\ Begins(seen, seen') /\ Begins(seen', kept)
  /\ UNCHANGED <<said, own, kept, closed, dead, loose>>

Restart == ~ closed /\ seen' = <<>> /\ UNCHANGED <<said, own, kept, closed, dead, loose>>

Close ==
  /\ ~ closed /\ closed' = TRUE
  /\ Begins(seen, seen') /\ Begins(seen', kept)
  /\ ~ loose => Len(seen') >= own \/ (dead /\ seen' = kept)
  /\ UNCHANGED <<said, own, kept, dead, loose>>

SNext == Write \/ Die \/ Overrule \/ Show \/ Restart \/ Close

SSpec == SInit /\ [][SNext]_svars
=============================================================================
