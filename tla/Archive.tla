------------------------------ MODULE Archive -------------------------------
(***************************************************************************)
(* What one run of the archiver promises, whatever its threads do: the     *)
(* archive takes in the heads that the node gave it, grows from a stored   *)
(* block only to that block's parent, forgets nothing, and, as long as the *)
(* archiver runs, closes every gap between a stored block and the origin.  *)
(***************************************************************************)
EXTENDS BeaconChain

VARIABLES
  archived,  \* the blocks whose blobs are stored
  given,     \* the node's head, and the head that the archiver last asked for
  running    \* has the archiver not ended yet?

vars == <<archived, given, running>>

Init ==
  /\ archived = {}
  /\ \E b \in Heads : given = {b}
  /\ running = TRUE

\* The head moves, or the archiver forgets one that it asked for.
Learn(b) ==
  /\ b \in Heads
  /\ given' \subseteq given \cup {b}
  /\ UNCHANGED <<archived, running>>

\* The blobs of a head are stored.
Follow(b) ==
  /\ running
  /\ b \in given
  /\ archived' = archived \cup {b}
  /\ given' \subseteq given
  /\ UNCHANGED running

\* The blobs of the parent of a stored block are stored.
Fill(b) ==
  /\ running
  /\ b \in archived
  /\ Parent[b] \in Blocks
  /\ archived' = archived \cup {Parent[b]}
  /\ UNCHANGED <<given, running>>

End ==
  /\ running
  /\ running' = FALSE
  /\ given' \subseteq given
  /\ UNCHANGED archived

Next == End \/ \E b \in Blocks : Learn(b) \/ Follow(b) \/ Fill(b)

Spec ==
  /\ Init
  /\ [][Next]_vars
  /\ \A b \in AboveOrigin : WF_vars(Fill(b))

=============================================================================
