----------------------------- MODULE Validator -----------------------------
(***************************************************************************)
(* The validator: a process that compares, slot by slot and format by      *)
(* format, what the Blob API answers with what the beacon node answers     *)
(* (checkBlobs), and then shuts itself down.  It makes two requests per    *)
(* slot and format, each retried.  Meanwhile the archiver may fill a gap   *)
(* or rewrite a block, and the validator may be told to stop.              *)
(*                                                                         *)
(* Slots are uint64 in the code: here they are taken modulo SlotCount.     *)
(***************************************************************************)
EXTENDS Naturals

CONSTANTS
  SlotCount,          \* 2^64 in the code
  FinalizedL1Offset,  \* finalizedL1Offset, 64 in the code
  NumBlocks,          \* the configured NumBlocks
  HeadSlots,          \* the slots that the beacon node's head may have
  Missed,             \* the slots for which the beacon node has no sidecars
  Formats,            \* how many formats are configured: JSON, SSZ or both
  RetryAttempts,      \* retryAttempts, 10 in the code
  MaxErrors,          \* bound on requests that fail and may be retried
  MaxRefusals         \* bound on requests answered with another 4xx status

ASSUME ValidatorAssumption ==
  /\ SlotCount \in Nat \ {0}
  /\ FinalizedL1Offset \in Nat
  /\ NumBlocks \in Nat \ {0}
  /\ HeadSlots \subseteq 0 .. SlotCount - 1
  /\ Formats \in {1, 2}
  /\ RetryAttempts \in Nat \ {0}
  /\ MaxErrors \in Nat
  /\ MaxRefusals \in Nat

VARIABLES
  archive,    \* archive[n]: what the Blob API has for slot n
  repaired,   \* history: the slots whose archive was filled or rewritten
  pc,         \* which request checkBlobs makes next, or how it ended, if it did
  slot,       \* the loop variables of checkBlobs...
  format,
  end,        \* ...and its last slot
  attempts,   \* failed attempts of the request
  blob,       \* the Blob API's answer for this slot and format
  result,     \* the slots that checkBlobs reports
  cancelled,  \* is the context of checkBlobs done?
  errors,     \* requests failed so far
  refusals    \* requests refused so far

vars == <<archive, repaired, pc, slot, format, end, attempts, blob, result,
          cancelled, errors, refusals>>

Slots   == 0 .. SlotCount - 1
Answers == {"none", "blobs", "otherBlobs", "refused"}

Reports == [errorFetching    : SUBSET Slots,
            mismatchedStatus : SUBSET Slots,
            mismatchedData   : SUBSET Slots]

Ended == {"failed", "stopped", "closed"}

TypeOK ==
  /\ archive \in [Slots -> Answers \ {"refused"}]
  /\ repaired \subseteq Slots
  /\ pc \in {"head", "blob", "beacon", "hung"} \cup Ended
  /\ slot \in Slots /\ end \in Slots
  /\ pc \in {"blob", "beacon"} => slot <= end
  /\ format \in 1 .. Formats
  /\ attempts \in 0 .. RetryAttempts - 1
  /\ blob \in Answers
  /\ result \in Reports
  /\ cancelled \in BOOLEAN
  /\ errors \in 0 .. MaxErrors
  /\ refusals \in 0 .. MaxRefusals

\* What the beacon node has for a slot; its blobs are the right ones.
Beacon(n) == IF n \in Missed THEN "none" ELSE "blobs"

\* The range that Start computes from the head's slot, in unsigned arithmetic.
EndFor(head)   == (head + SlotCount - FinalizedL1Offset) % SlotCount
StartFor(head) == (EndFor(head) + SlotCount - NumBlocks) % SlotCount

\* The slots that are to be checked: the one finalizedL1Offset before the head,
\* and NumBlocks before that one.
ToCheck(head) == {n \in Slots : /\ n + FinalizedL1Offset <= head
                               /\ head <= n + FinalizedL1Offset + NumBlocks}

\* A slot's archive is right, or is missing or wrong.
Init ==
  /\ \E gaps, wrong \in SUBSET UNION {ToCheck(head) : head \in HeadSlots} :
       archive = [n \in Slots |-> IF n \in gaps THEN "none"
                                  ELSE IF n \in wrong THEN "otherBlobs" ELSE Beacon(n)]
  /\ repaired = {}
  /\ pc = "head"
  /\ slot = 0 /\ format = 1 /\ end = 0 /\ attempts = 0
  /\ blob = "none"
  /\ result = [errorFetching |-> {}, mismatchedStatus |-> {}, mismatchedData |-> {}]
  /\ cancelled = FALSE
  /\ errors = 0 /\ refusals = 0

----------------------------------------------------------------------------
(* The loop of checkBlobs *)

Continue(label, n, f) ==
  /\ pc' = label /\ slot' = n /\ format' = f
  /\ attempts' = 0

\* Variant, to be told apart: the loop leaves out its last slot.
EnterShort(n, last) == Continue(IF n < last THEN "blob" ELSE "closed", n, 1)

\* The head of the loop over the slots.
Enter(n, last) == Continue(IF n <= last THEN "blob" ELSE "closed", n, 1)

\* Variant, to be told apart: the formats of a slot are compared for ever.
NextFormatForever ==
  Continue("blob", slot, IF format < Formats THEN format + 1 ELSE 1)

\* The next format, or the next slot.  A context that is done is noticed
\* between two slots.
NextFormat ==
  \/ /\ format < Formats
     /\ Continue("blob", slot, format + 1)
  \/ /\ format = Formats
     /\ cancelled
     /\ Continue("stopped", slot, format)
  \/ /\ format = Formats
     /\ ~cancelled
     /\ Enter((slot + 1) % SlotCount, end)

Status(answer) == CASE answer = "none" -> 404 [] answer = "refused" -> 403 [] OTHER -> 200

\* What is reported of two answers for the slot.
Compare(beacon) ==
  result' = IF Status(beacon) # Status(blob)
            THEN [result EXCEPT !.mismatchedStatus = @ \cup {slot}]
            ELSE IF Status(beacon) = 200 /\ beacon # blob
            THEN [result EXCEPT !.mismatchedData = @ \cup {slot}]
            ELSE result

----------------------------------------------------------------------------
(* Requests: Start, fetchWithRetries *)

\* retry.Do makes no attempt once the context is done.
Attempt(label) == pc \in label /\ ~cancelled

FetchHead ==
  /\ Attempt({"head"})
  /\ \E head \in HeadSlots :
       /\ end' = EndFor(head)
       /\ Enter(StartFor(head), EndFor(head))
  /\ UNCHANGED <<archive, repaired, blob, result, cancelled, errors, refusals>>

\* Variant, to be told apart: an answer without blobs leaves the last one.
FetchBlobKeeps ==
  /\ Attempt({"blob"})
  /\ blob' = IF archive[slot] = "none" THEN blob ELSE archive[slot]
  /\ Continue("beacon", slot, format)
  /\ UNCHANGED <<archive, repaired, end, result, cancelled, errors, refusals>>

FetchBlob ==
  /\ Attempt({"blob"})
  /\ \/ blob' = archive[slot] /\ UNCHANGED refusals
     \/ refusals < MaxRefusals /\ refusals' = refusals + 1 /\ blob' = "refused"
  /\ Continue("beacon", slot, format)
  /\ UNCHANGED <<archive, repaired, end, result, cancelled, errors>>

FetchBeacon ==
  /\ Attempt({"beacon"})
  /\ \/ Compare(Beacon(slot)) /\ UNCHANGED refusals
     \/ refusals < MaxRefusals /\ refusals' = refusals + 1 /\ Compare("refused")
  /\ NextFormat
  /\ UNCHANGED <<archive, repaired, end, blob, cancelled, errors>>

\* Variant, to be told apart: one attempt too many.
FetchRetryLate ==
  /\ Attempt({"head", "blob", "beacon"})
  /\ errors < MaxErrors
  /\ errors' = errors + 1
  /\ attempts' = attempts + 1
  /\ UNCHANGED <<archive, repaired, pc, slot, format, end, blob, result, cancelled, refusals>>

\* A status that shouldRetry, no connection, or an answer that does not decode.
FetchRetry ==
  /\ Attempt({"head", "blob", "beacon"})
  /\ errors < MaxErrors
  /\ errors' = errors + 1
  /\ attempts + 1 < RetryAttempts
  /\ attempts' = attempts + 1
  /\ UNCHANGED <<archive, repaired, pc, slot, format, end, blob, result, cancelled, refusals>>

\* The last attempt failed, or there is none.
GivesUp ==
  \/ cancelled /\ UNCHANGED errors
  \/ attempts + 1 = RetryAttempts /\ errors < MaxErrors /\ errors' = errors + 1

FetchFails ==
  /\ pc \in {"blob", "beacon"}
  /\ GivesUp
  /\ result' = [result EXCEPT !.errorFetching = @ \cup {slot}]
  /\ NextFormat
  /\ UNCHANGED <<archive, repaired, end, blob, cancelled, refusals>>

\* Start returns the error.
StartFails ==
  /\ pc = "head"
  /\ GivesUp
  /\ Continue("failed", slot, format)
  /\ UNCHANGED <<archive, repaired, end, blob, result, cancelled, refusals>>

\* The client for the sidecars has no timeout, and its requests have no context: one
\* that is not answered does not end, though the validator be told to stop.  (The
\* request for the head has a timeout.)
Hang ==
  /\ Attempt({"blob", "beacon"})
  /\ pc' = "hung"
  /\ UNCHANGED <<archive, repaired, slot, format, end, attempts, blob, result, cancelled, errors,
                 refusals>>

----------------------------------------------------------------------------
(* What happens to the validator *)

\* The archiver fills a gap, or an operator rearchives a block.
Repair(n) ==
  /\ pc \notin Ended
  /\ archive[n] # Beacon(n) /\ Beacon(n) # "none"
  /\ archive' = [archive EXCEPT ![n] = Beacon(n)]
  /\ repaired' = repaired \cup {n}
  /\ UNCHANGED <<pc, slot, format, end, attempts, blob, result, cancelled, errors, refusals>>

\* The process is told to end.
Cancel ==
  /\ pc \notin Ended
  /\ ~cancelled
  /\ cancelled' = TRUE
  /\ UNCHANGED <<archive, repaired, pc, slot, format, end, attempts, blob, result, errors,
                 refusals>>

Check == FetchHead \/ FetchBlob \/ FetchBeacon \/ FetchRetry \/ FetchFails \/ StartFails

Next == Check \/ Hang \/ (\E n \in Slots : Repair(n)) \/ Cancel

\* The validator makes its requests; of those, only one that hangs has no end.
Spec == Init /\ [][Next]_vars /\ WF_vars(Check)

----------------------------------------------------------------------------

Reported == result.errorFetching \cup result.mismatchedStatus \cup result.mismatchedData

\* When the validator has shut itself down, every slot that was to be checked
\* and whose archive is still missing or wrong has been reported, whichever
\* requests failed and were retried: unless both endpoints refused the slot in
\* every format, which counts as agreement.
Complete ==
  pc = "closed" /\ refusals < 2 * Formats =>
    \E head \in HeadSlots :
      /\ end = EndFor(head)
      /\ \A n \in ToCheck(head) : archive[n] # Beacon(n) => n \in Reported

\* No false alarm: what is reported as different blobs was different, in the
\* same slot and at the same time, when the two endpoints were asked.
Sound ==
  \A n \in result.mismatchedData : archive[n] = "otherBlobs" \/ n \in repaired

\* The validator comes to an end, through all its slots, formats and attempts and
\* whether it is told to stop or not, unless an endpoint leaves it without an answer.
Terminates == <>(pc \in Ended \/ pc = "hung")

=============================================================================
