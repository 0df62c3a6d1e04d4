----------------------------- MODULE Scoreboard -----------------------------
(***************************************************************************)
(* The completion scoreboard and the release group of                      *)
(* flagcx/adaptor/net/net_transport.cc, as operators on records: requests  *)
(* complete in any order, and the scoreboard retires the contiguous prefix *)
(* of their sequence numbers.  Its users run each call under the           *)
(* scoreboard's lock, so a call is one step.  The generation, which tells  *)
(* the scoreboards of two operations apart, is left out: every user of     *)
(* these operators starts from a scoreboard of its own.                    *)
(***************************************************************************)
EXTENDS Integers, FiniteSets

\* A scoreboard of that many entries whose first request has number sequence.
NewScoreboard(capacity, sequence) ==
  [nextSequence |-> sequence,
   entries |-> [e \in 0..capacity-1 |-> [state |-> "free", sequence |-> 0]],
   firstError |-> FALSE]

Capacity(sb) == Cardinality(DOMAIN sb.entries)

EntryOf(sb, q) == sb.entries[q % Capacity(sb)]

InWindow(sb, q) ==
  q >= sb.nextSequence /\ q - sb.nextSequence < Capacity(sb)

\* flagcxNetTrackSubmit: what it returns, and the scoreboard after a success.
TrackSubmitResult(sb, q) ==
  IF q < sb.nextSequence THEN "invalid"
  ELSE IF ~InWindow(sb, q) THEN "inProgress"
  ELSE IF EntryOf(sb, q).state # "free" THEN "invalid"
  ELSE "success"

TrackSubmit(sb, q) ==
  [sb EXCEPT !.entries[q % Capacity(sb)] = [state |-> "pending", sequence |-> q]]

\* The condition under which flagcxNetTrackCancel and flagcxNetTrackCompletion
\* accept the context of request q.
IsPending(sb, q) ==
  /\ InWindow(sb, q)
  /\ EntryOf(sb, q) = [state |-> "pending", sequence |-> q]

TrackCancel(sb, q) ==
  [sb EXCEPT !.entries[q % Capacity(sb)] = [state |-> "free", sequence |-> 0]]

\* How many requests the loop of flagcxNetTrackCompletion retires.
Contiguous(sb, n) ==
  \A j \in 0..n-1 :
    EntryOf(sb, sb.nextSequence + j) =
      [state |-> "complete", sequence |-> sb.nextSequence + j]

Advanced(sb) ==
  CHOOSE n \in 0..Capacity(sb) :
    /\ Contiguous(sb, n)
    /\ n < Capacity(sb) => ~Contiguous(sb, n + 1)

Retire(sb) ==
  LET next == sb.nextSequence + Advanced(sb) IN
  [sb EXCEPT
     !.nextSequence = next,
     !.entries = [e \in DOMAIN @ |->
        IF @[e].sequence < next THEN [state |-> "free", sequence |-> 0] ELSE @[e]]]

\* flagcxNetTrackCompletion of the requests of Q, which are pending, one after
\* the other; failed tells whether one of them failed.
TrackCompletion(sb, Q, failed) ==
  Retire([sb EXCEPT
    !.entries = [e \in DOMAIN @ |->
       IF @[e].state = "pending" /\ @[e].sequence \in Q
         THEN [@[e] EXCEPT !.state = "complete"] ELSE @[e]],
    !.firstError = @ \/ failed])

-----------------------------------------------------------------------------
(* The release group: its members are tracked while it is open, it is      *)
(* sealed, and it is complete when no member is pending.                   *)

\* A group of that many tracked members, as flagcxNetReleaseGroupSeal leaves
\* it.
SealedGroup(members) ==
  [state |-> IF members = 0 THEN "complete" ELSE "sealed",
   pending |-> members, firstError |-> FALSE]

\* flagcxNetReleaseGroupCompleteLocked for that many members; failed tells
\* whether one of them failed.
GroupComplete(g, members, failed) ==
  [state |-> IF g.pending = members /\ g.state = "sealed" THEN "complete" ELSE g.state,
   pending |-> g.pending - members, firstError |-> g.firstError \/ failed]

\* Mutant: a sealed group passes for a complete one.
GroupDone_sealed(g) == g.state # "open"

\* flagcxNetReleaseGroupTest: done and releaseAllowed.
GroupDone(g) == g.state = "complete"
ReleaseAllowed(g) == GroupDone(g) /\ ~g.firstError

=============================================================================
