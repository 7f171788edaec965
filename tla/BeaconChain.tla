---------------------------- MODULE BeaconChain ----------------------------
(***************************************************************************)
(* The beacon chain as the archiver sees it through the beacon node's API. *)
(* The node is not part of this repository: it is modelled from the two    *)
(* requests the archiver makes (BeaconBlockHeader and BlobSidecars) and    *)
(* from the fields of the answers it reads (Root, ParentRoot, Slot).       *)
(*                                                                         *)
(* A block is its root.  Block identifiers are what the archiver puts in   *)
(* a request: the word "head", a block root, or a slot number.             *)
(***************************************************************************)
EXTENDS Naturals

CONSTANTS
  Blocks,   \* every block of every fork the node will ever serve
  NoBlock,  \* the zero root: the parent of the first block, and "no header"
  HeadId,   \* the identifier "head"
  Origin,   \* the configured OriginBlock, where walking back may stop
  Parent,   \* Parent[b]: the ParentRoot field of b's header
  Slot      \* Slot[b]: the Slot field of b's header

ASSUME BlocksAssumption ==
  /\ NoBlock \notin Blocks
  /\ HeadId \notin Blocks \cup {NoBlock} \cup Nat
  /\ (Blocks \cup {NoBlock}) \cap Nat = {}
  /\ Origin \in Blocks

ASSUME ParentAssumption == Parent \in [Blocks -> Blocks \cup {NoBlock}]

\* Slots grow from parent to child: there is no cycle.
ASSUME SlotAssumption ==
  /\ Slot \in [Blocks -> Nat]
  /\ \A b \in Blocks : Parent[b] \in Blocks => Slot[Parent[b]] < Slot[b]

----------------------------------------------------------------------------

\* S contains the parent of each of its blocks.
ParentClosed(S) == \A b \in S : Parent[b] \in Blocks => Parent[b] \in S

\* AncestorsOf[b] is b, its parent, the parent's parent and so on: the least
\* parent-closed set that contains b.
AncestorsOf ==
  [b \in Blocks |->
     {x \in Blocks : \A S \in SUBSET Blocks : b \in S /\ ParentClosed(S) => x \in S}]

\* The blocks from which walking back along the parents meets the origin, and
\* those of them that lie above it.
FromOrigin  == {b \in Blocks : Origin \in AncestorsOf[b]}
AboveOrigin == FromOrigin \ {Origin}

\* The node follows a chain that contains the configured origin.
Heads == FromOrigin

Idents == Blocks \cup {NoBlock, HeadId} \cup Nat

\* The block a node whose head is h finds for an identifier, as a set that is
\* empty when the node answers 404.  A slot names a block of the canonical
\* chain only; a skipped slot names none.
Resolve(id, h) ==
  IF id = HeadId THEN {h}
  ELSE IF id \in Nat THEN {b \in AncestorsOf[h] : Slot[b] = id}
  ELSE {id} \cap Blocks
=============================================================================
