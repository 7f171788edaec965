--------------------------- MODULE ValidatorProof ---------------------------
(***************************************************************************)
(* The report of a validator, for any head far enough from slot 0, any     *)
(* number of slots and of attempts, and any failures, refusals and repairs *)
(* meanwhile: it has every slot that is missing or wrong, and no false     *)
(* alarm.                                                                  *)
(***************************************************************************)
EXTENDS Validator, TLAPS

----------------------------------------------------------------------------
(* Slots *)

LEMMA SlotFacts ==
  /\ Slots \subseteq Nat /\ 0 \in Slots
  /\ \A n \in Slots : /\ (n + 1) % SlotCount \in Slots
                      /\ (n + 1) % SlotCount \in {0, n + 1}
  /\ \A head \in HeadSlots : head \in Slots /\ EndFor(head) \in Slots /\ StartFor(head) \in Slots
BY ValidatorAssumption DEF Slots, EndFor, StartFor

\* A subtraction that stays above slot 0 does not wrap.
LEMMA Subtraction ==
  ASSUME NEW n \in Slots, NEW k \in Nat, k <= n
  PROVE  (n + SlotCount - k) % SlotCount = n - k
<1>1. n - k \in 0 .. SlotCount - 1 /\ SlotCount \in Nat \ {0}
  BY ValidatorAssumption DEF Slots
<1>2. \A m \in 0 .. SlotCount - 1 : (m + SlotCount) % SlotCount = m
  BY <1>1
<1>3. (n - k) + SlotCount = n + SlotCount - k
  BY <1>1 DEF Slots
<1> QED
  BY <1>1, <1>2, <1>3

LEMMA BeaconAnswers == \A n : Beacon(n) \in {"none", "blobs"}
BY DEF Beacon

----------------------------------------------------------------------------
(* Types *)

LEMMA InitType == Init => TypeOK
<1> SUFFICES ASSUME Init
             PROVE  TypeOK
  OBVIOUS
<1>1. archive \in [Slots -> Answers \ {"refused"}]
  BY BeaconAnswers DEF Init, Answers
<1>2. result \in Reports
  BY DEF Init, Reports
<1>3. 1 \in 1 .. Formats /\ 0 \in 0 .. RetryAttempts - 1 /\ 0 \in 0 .. MaxErrors
      /\ 0 \in 0 .. MaxRefusals
  BY ValidatorAssumption
<1> QED
  BY <1>1, <1>2, <1>3, SlotFacts DEF Init, TypeOK, Answers, Ended

\* The next format, or the next slot.
LEMMA NextFormatType ==
  ASSUME TypeOK, pc \in {"blob", "beacon"}, NextFormat
  PROVE  /\ pc' \in {"blob", "stopped", "closed"}
         /\ slot' \in Slots /\ format' \in 1 .. Formats /\ attempts' = 0
         /\ pc' = "blob" => slot' <= end
BY SlotFacts, ValidatorAssumption DEF TypeOK, NextFormat, Continue, Enter

\* What is reported of a slot.
LEMMA CompareType ==
  ASSUME TypeOK, NEW beacon \in Answers, Compare(beacon)
  PROVE  /\ result' \in Reports /\ Reported \subseteq Reported'
         /\ result'.mismatchedData \subseteq result.mismatchedData \cup {slot}
         /\ result'.mismatchedData # result.mismatchedData =>
              Status(beacon) = 200 /\ Status(blob) = 200 /\ beacon # blob
         /\ Status(beacon) # Status(blob) \/ (Status(beacon) = 200 /\ beacon # blob)
              => slot \in Reported'
BY DEF TypeOK, Reports, Compare, Reported

LEMMA StepType == TypeOK /\ [Next]_vars => TypeOK'
<1> SUFFICES ASSUME TypeOK, [Next]_vars
             PROVE  TypeOK'
  OBVIOUS
<1> USE SlotFacts, ValidatorAssumption DEF Ended
<1>1. CASE FetchHead
  BY <1>1 DEF FetchHead, Attempt, Enter, Continue, TypeOK
<1>2. CASE FetchBlob
  BY <1>2 DEF FetchBlob, Attempt, Continue, TypeOK, Answers
<1>3. CASE FetchBeacon
  <2>1. result' \in Reports
    BY <1>3, BeaconAnswers, CompareType DEF FetchBeacon, Answers
  <2> QED
    BY <1>3, <2>1, NextFormatType DEF FetchBeacon, Attempt, TypeOK
<1>4. CASE FetchRetry
  BY <1>4 DEF FetchRetry, Attempt, TypeOK
<1>5. CASE FetchFails
  <2>1. result' \in Reports
    BY <1>5 DEF FetchFails, TypeOK, Reports
  <2> QED
    BY <1>5, <2>1, NextFormatType DEF FetchFails, GivesUp, TypeOK
<1>6. CASE StartFails
  BY <1>6 DEF StartFails, GivesUp, Continue, TypeOK
<1>7. ASSUME NEW n \in Slots, Repair(n)
      PROVE  TypeOK'
  BY <1>7, BeaconAnswers DEF Repair, TypeOK, Answers
<1>8. CASE Cancel
  BY <1>8 DEF Cancel, TypeOK
<1>9. CASE Hang
  BY <1>9 DEF Hang, Attempt, TypeOK
<1>10. CASE UNCHANGED vars
  BY <1>10 DEF vars, TypeOK
<1> QED
  BY <1>1, <1>2, <1>3, <1>4, <1>5, <1>6, <1>7, <1>8, <1>9, <1>10 DEF Next, Check

\* Every variable keeps its type; the slot being checked is within the range.
THEOREM TypeCorrect == Spec => []TypeOK
BY InitType, StepType, PTL DEF Spec

----------------------------------------------------------------------------
(* What steps keep *)

\* A report stays, a repair is right and stays, and refusals are counted.
Keeps ==
  /\ Reported \subseteq Reported'
  /\ \A n \in Slots : archive[n] = Beacon(n) => archive'[n] = Beacon(n)
  /\ refusals <= refusals'

LEMMA StepKeeps ==
  ASSUME TypeOK, [Next]_vars
  PROVE  Keeps
<1>1. refusals \in Nat
  BY ValidatorAssumption DEF TypeOK
<1>2. CASE FetchBeacon
  <2>1. Reported \subseteq Reported'
    BY <1>2, BeaconAnswers, CompareType DEF FetchBeacon, Answers
  <2> QED
    BY <1>1, <1>2, <2>1 DEF FetchBeacon, Keeps
<1>3. CASE FetchFails
  BY <1>1, <1>3 DEF FetchFails, Keeps, Reported, TypeOK, Reports
<1>4. ASSUME NEW n \in Slots, Repair(n)
      PROVE  Keeps
  BY <1>1, <1>4 DEF Repair, Keeps, Reported, TypeOK
<1>5. CASE FetchHead \/ FetchBlob \/ FetchRetry \/ StartFails \/ Hang \/ Cancel \/ UNCHANGED vars
  BY <1>1, <1>5
  DEF FetchHead, FetchBlob, FetchRetry, StartFails, Hang, Cancel, vars, Keeps, Reported
<1> QED
  BY <1>2, <1>3, <1>4, <1>5 DEF Next, Check

----------------------------------------------------------------------------
(* No false alarm *)

\* An answer with other blobs is what the archive had when it was asked, and has
\* unless it was repaired.
SoundInv ==
  /\ TypeOK
  /\ Sound
  /\ pc = "beacon" /\ blob = "otherBlobs" => archive[slot] = "otherBlobs" \/ slot \in repaired

LEMMA StepSound == SoundInv /\ [Next]_vars => SoundInv'
<1> SUFFICES ASSUME SoundInv, [Next]_vars
             PROVE  SoundInv'
  OBVIOUS
<1> USE DEF SoundInv
<1>1. TypeOK'
  BY StepType
<1>2. CASE FetchHead
  BY <1>1, <1>2 DEF FetchHead, Enter, Continue, Sound
<1>3. CASE FetchBlob
  BY <1>1, <1>3 DEF FetchBlob, Continue, Sound
<1>4. CASE FetchBeacon
  <2>1. PICK beacon \in {"none", "blobs", "refused"} : Compare(beacon)
    BY <1>4, BeaconAnswers DEF FetchBeacon
  <2>2. beacon \in Answers /\ blob \in Answers
    BY DEF Answers, TypeOK
  <2>3. Status(beacon) = 200 /\ Status(blob) = 200 /\ beacon # blob => blob = "otherBlobs"
    BY <2>1, <2>2 DEF Status, Answers
  <2>4. /\ result'.mismatchedData \subseteq result.mismatchedData \cup {slot}
        /\ result'.mismatchedData # result.mismatchedData => blob = "otherBlobs"
    BY <2>1, <2>2, <2>3, CompareType
  <2>5. pc' # "beacon" /\ pc = "beacon" /\ UNCHANGED <<archive, repaired>>
    BY <1>4, NextFormatType DEF FetchBeacon, Attempt
  <2> QED
    BY <1>1, <2>4, <2>5 DEF Sound
<1>5. CASE FetchRetry \/ Hang \/ Cancel \/ UNCHANGED vars
  BY <1>1, <1>5 DEF FetchRetry, Hang, Cancel, vars, Sound
<1>6. CASE FetchFails
  <2>1. pc' # "beacon" /\ UNCHANGED <<archive, repaired>>
    BY <1>6, NextFormatType DEF FetchFails
  <2>2. result'.mismatchedData = result.mismatchedData
    BY <1>6 DEF FetchFails, TypeOK, Reports
  <2> QED
    BY <1>1, <2>1, <2>2 DEF Sound
<1>7. CASE StartFails
  BY <1>1, <1>7 DEF StartFails, Continue, Sound
<1>8. ASSUME NEW n \in Slots, Repair(n)
      PROVE  SoundInv'
  BY <1>1, <1>8 DEF Repair, Sound, TypeOK, Reports
<1> QED
  BY <1>2, <1>3, <1>4, <1>5, <1>6, <1>7, <1>8 DEF Next, Check

\* Sound for every range: the two answers that are compared are for the same slot
\* and format, whatever failed, was refused or was repaired in between.
THEOREM ReportIsSound == Spec => []Sound
<1>1. Init => SoundInv
  <2>1. Init => pc = "head" /\ result.mismatchedData = {}
    BY DEF Init
  <2> QED
    BY <2>1, InitType DEF SoundInv, Sound
<1>2. SoundInv => Sound
  BY DEF SoundInv
<1> QED
  BY <1>1, <1>2, StepSound, PTL DEF Spec

----------------------------------------------------------------------------
(* No omission *)

\* Nothing more is to be reported of the slot, or both endpoints have refused it in
\* every format.
Done(n) == n \in Reported \/ archive[n] = Beacon(n) \/ 2 * Formats <= refusals

\* The refusals it takes for the formats before this one, and for this one so far,
\* to hide what is wrong with the slot.
Hidden == 2 * (format - 1) + (IF pc = "beacon" /\ blob = "refused" THEN 1 ELSE 0)

\* The slots of the range before the one being checked are done.
Checked(head) ==
  /\ end = EndFor(head)
  /\ \A n \in ToCheck(head) : n < slot => Done(n)

CompleteInv ==
  /\ TypeOK
  /\ pc \in {"blob", "beacon", "closed"} => \E head \in HeadSlots : Checked(head)
  /\ pc \in {"blob", "beacon"} =>
       slot \in Reported \/ archive[slot] = Beacon(slot) \/ Hidden <= refusals
  /\ pc = "beacon" /\ blob = Beacon(slot) => archive[slot] = Beacon(slot)
  /\ pc = "closed" => end < slot

LEMMA DoneStays ==
  ASSUME TypeOK, [Next]_vars, NEW n \in Slots, Done(n)
  PROVE  Done(n)'
<1>1. refusals \in Nat /\ refusals' \in Nat /\ 2 * Formats \in Nat
  BY StepType, ValidatorAssumption DEF TypeOK
<1> QED
  BY <1>1, StepKeeps DEF Done, Keeps, Beacon

\* A step within a slot, or that leaves the loop.
LEMMA CheckedStays ==
  ASSUME TypeOK, [Next]_vars, NEW head, Checked(head), UNCHANGED <<slot, end>>
  PROVE  Checked(head)'
BY DoneStays DEF Checked, ToCheck, EndFor

\* The last slot to be checked is the last slot of the loop.
LEMMA LastSlot ==
  ASSUME NEW head \in HeadSlots, NEW n \in ToCheck(head)
  PROVE  n <= EndFor(head)
<1>1. n \in Nat /\ head \in Slots /\ FinalizedL1Offset \in Nat /\ n + FinalizedL1Offset <= head
  BY SlotFacts, ValidatorAssumption DEF ToCheck
<1>2. head \in Nat /\ FinalizedL1Offset <= head
  BY <1>1, SlotFacts
<1>3. EndFor(head) = head - FinalizedL1Offset
  BY <1>1, <1>2, Subtraction DEF EndFor
<1> QED
  BY <1>1, <1>2, <1>3

\* The first slot of the loop is the first one to be checked.
LEMMA FirstSlot ==
  ASSUME NEW head \in HeadSlots, NEW n \in ToCheck(head),
         head < FinalizedL1Offset \/ FinalizedL1Offset + NumBlocks <= head
  PROVE  StartFor(head) <= n
<1>1. /\ n \in Nat /\ head \in Slots /\ head \in Nat
      /\ FinalizedL1Offset \in Nat /\ NumBlocks \in Nat
      /\ n + FinalizedL1Offset <= head /\ head <= n + FinalizedL1Offset + NumBlocks
  BY SlotFacts, ValidatorAssumption DEF ToCheck
<1>2. FinalizedL1Offset + NumBlocks <= head
  BY <1>1
<1>3. EndFor(head) = head - FinalizedL1Offset
  BY <1>1, <1>2, Subtraction DEF EndFor
<1>4. EndFor(head) \in Slots /\ NumBlocks <= EndFor(head)
  BY <1>1, <1>2, <1>3, SlotFacts
<1>5. StartFor(head) = EndFor(head) - NumBlocks
  BY <1>1, <1>4, Subtraction DEF StartFor
<1> QED
  BY <1>1, <1>3, <1>5

\* The next format or slot, when nothing is left to be reported in this format.
LEMMA Advances ==
  ASSUME CompleteInv, [Next]_vars, pc \in {"blob", "beacon"}, NextFormat, UNCHANGED end,
         slot \in Reported' \/ archive'[slot] = Beacon(slot) \/ 2 * format <= refusals'
  PROVE  CompleteInv'
<1>1. /\ TypeOK /\ TypeOK'
      /\ slot \in Slots /\ slot \in Nat /\ end \in Nat /\ slot <= end
      /\ format \in Nat /\ Formats \in Nat /\ refusals' \in Nat
  BY StepType, SlotFacts, ValidatorAssumption DEF CompleteInv, TypeOK
<1>2. PICK head \in HeadSlots : Checked(head)
  BY DEF CompleteInv
<1>3. CASE format < Formats
  <2>1. pc' = "blob" /\ slot' = slot /\ format' = format + 1
    BY <1>1, <1>3 DEF NextFormat, Continue
  <2>2. Checked(head)'
    BY <1>1, <1>2, <2>1, CheckedStays
  <2>3. Hidden' = 2 * format
    BY <1>1, <2>1 DEF Hidden
  <2> QED
    BY <1>1, <2>1, <2>2, <2>3 DEF CompleteInv, Beacon
<1>4. CASE format = Formats /\ pc' = "stopped"
  BY <1>1, <1>4 DEF CompleteInv
<1>5. CASE format = Formats /\ pc' # "stopped"
  <2>1. /\ slot' = (slot + 1) % SlotCount /\ format' = 1
        /\ pc' = IF slot' <= end THEN "blob" ELSE "closed"
    BY <1>1, <1>5 DEF NextFormat, Continue, Enter
  <2>2. slot' \in {0, slot + 1} /\ slot' \in Nat
    BY <1>1, <2>1, SlotFacts
  <2>3. \A n \in Slots : n = slot => Done(n)'
    BY <1>1, <1>5 DEF Done, Beacon
  <2>4. ASSUME NEW n \in ToCheck(head), n < slot'
        PROVE  Done(n)'
    <3>1. n \in Slots /\ n \in Nat
      BY SlotFacts DEF ToCheck
    <3>2. n < slot \/ n = slot
      BY <1>1, <2>2, <2>4, <3>1
    <3> QED
      BY <1>1, <1>2, <2>3, <3>1, <3>2, DoneStays DEF Checked
  <2>5. Checked(head)'
    BY <1>2, <2>4 DEF Checked, ToCheck, EndFor
  <2>6. pc' = "blob" => Hidden' = 0
    BY <2>1 DEF Hidden
  <2> QED
    BY <1>1, <2>1, <2>2, <2>5, <2>6 DEF CompleteInv
<1> QED
  BY <1>1, <1>3, <1>4, <1>5, ValidatorAssumption DEF TypeOK

LEMMA StepComplete ==
  ASSUME \A head \in HeadSlots :
           head < FinalizedL1Offset \/ FinalizedL1Offset + NumBlocks <= head,
         CompleteInv, [Next]_vars
  PROVE  CompleteInv'
<1>1. TypeOK /\ TypeOK' /\ Keeps
  BY StepType, StepKeeps DEF CompleteInv
<1>2. /\ refusals \in Nat /\ refusals' \in Nat /\ refusals <= refusals'
      /\ format \in Nat \ {0} /\ slot \in Slots /\ slot \in Nat /\ end \in Nat
      /\ blob \in Answers /\ archive \in [Slots -> Answers \ {"refused"}]
  BY <1>1, SlotFacts, ValidatorAssumption DEF TypeOK, Keeps
\* A step that leaves the loop where it is.
<1>3. ASSUME UNCHANGED <<pc, slot, format, end, blob>>
      PROVE  CompleteInv'
  <2>1. pc' \in {"blob", "beacon", "closed"} => \E head \in HeadSlots : Checked(head)'
    BY <1>1, <1>3, CheckedStays DEF CompleteInv
  <2>2. Hidden' = Hidden /\ Hidden \in Nat
    BY <1>2, <1>3 DEF Hidden
  <2>3. Beacon(slot)' = Beacon(slot)
    BY <1>3 DEF Beacon
  <2>4. /\ slot \in Reported => slot \in Reported'
        /\ archive[slot] = Beacon(slot) => archive'[slot] = Beacon(slot)
    BY <1>1, <1>2 DEF Keeps
  <2>5. Hidden <= refusals => Hidden <= refusals'
    BY <1>2, <2>2
  <2>6. pc' \in {"blob", "beacon"} =>
          slot' \in Reported' \/ archive'[slot'] = Beacon(slot)' \/ Hidden' <= refusals'
    BY <1>3, <2>2, <2>3, <2>4, <2>5 DEF CompleteInv
  <2>7. pc' = "beacon" /\ blob' = Beacon(slot)' => archive'[slot'] = Beacon(slot)'
    BY <1>3, <2>3, <2>4 DEF CompleteInv
  <2> QED
    BY <1>1, <1>3, <2>1, <2>6, <2>7 DEF CompleteInv
<1>4. CASE FetchHead
  <2>1. PICK head \in HeadSlots : end' = EndFor(head) /\ Enter(StartFor(head), EndFor(head))
    BY <1>4 DEF FetchHead
  <2>2. /\ slot' = StartFor(head) /\ format' = 1
        /\ pc' = IF slot' <= end' THEN "blob" ELSE "closed"
        /\ slot' \in Nat /\ end' \in Nat
    BY <2>1, SlotFacts DEF Enter, Continue
  <2>3. Checked(head)'
    <3>1. \A n \in ToCheck(head) : n \in Nat /\ StartFor(head) <= n
      BY FirstSlot, SlotFacts DEF ToCheck
    <3> QED
      BY <2>1, <2>2, <3>1 DEF Checked, ToCheck, EndFor
  <2>4. pc' = "blob" => Hidden' = 0
    BY <2>2 DEF Hidden
  <2> QED
    BY <1>1, <1>2, <2>2, <2>3, <2>4 DEF CompleteInv
<1>5. CASE FetchBlob
  <2>1. /\ pc = "blob" /\ pc' = "beacon" /\ UNCHANGED <<slot, format, end, archive, Reported>>
        /\ \/ blob' = archive[slot] /\ UNCHANGED refusals
           \/ blob' = "refused" /\ refusals' = refusals + 1
    BY <1>5 DEF FetchBlob, Attempt, Continue, Reported
  <2>2. \A head : Checked(head) => Checked(head)'
    BY <1>1, <2>1, CheckedStays
  <2>3. Hidden' = Hidden + (IF blob' = "refused" THEN 1 ELSE 0) /\ Hidden \in Nat
    BY <1>2, <2>1 DEF Hidden
  <2>4. archive[slot] # "refused" /\ Beacon(slot) # "refused" /\ Beacon(slot)' = Beacon(slot)
    BY <1>2, <2>1, BeaconAnswers DEF Beacon
  <2>5. slot \in Reported \/ archive[slot] = Beacon(slot) \/ Hidden' <= refusals'
    BY <1>2, <2>1, <2>3, <2>4 DEF CompleteInv
  <2> QED
    BY <1>1, <2>1, <2>2, <2>4, <2>5 DEF CompleteInv
<1>6. CASE FetchBeacon
  <2>1. /\ pc = "beacon" /\ NextFormat /\ UNCHANGED <<archive, end>>
        /\ \/ Compare(Beacon(slot)) /\ UNCHANGED refusals
           \/ Compare("refused") /\ refusals' = refusals + 1
    BY <1>6 DEF FetchBeacon, Attempt
  <2>2. slot \in Reported' \/ archive[slot] = Beacon(slot) \/ 2 * format <= refusals'
    <3>1. CASE blob = "refused"
      <4>1. CASE Compare(Beacon(slot))
        <5>1. Status(Beacon(slot)) # Status(blob)
          BY <3>1, BeaconAnswers DEF Status
        <5> QED
          BY <1>1, <4>1, <5>1, BeaconAnswers, CompareType DEF Answers
      <4>2. CASE refusals' = refusals + 1
        BY <1>1, <1>2, <2>1, <3>1, <4>2 DEF CompleteInv, Hidden, Keeps
      <4> QED
        BY <2>1, <4>1, <4>2
    <3>2. CASE blob = Beacon(slot)
      BY <2>1, <3>2 DEF CompleteInv
    <3>3. CASE blob # "refused" /\ blob # Beacon(slot)
      <4>1. CASE Compare(Beacon(slot))
        <5>1. \/ Status(Beacon(slot)) # Status(blob)
              \/ Status(Beacon(slot)) = 200 /\ Beacon(slot) # blob
          BY <1>2, <3>3, BeaconAnswers DEF Status, Answers
        <5> QED
          BY <1>1, <4>1, <5>1, BeaconAnswers, CompareType DEF Answers
      <4>2. CASE Compare("refused")
        <5>1. Status("refused") # Status(blob)
          BY <1>2, <3>3 DEF Status, Answers
        <5> QED
          BY <1>1, <4>2, <5>1, CompareType DEF Answers
      <4> QED
        BY <2>1, <4>1, <4>2
    <3> QED
      BY <3>1, <3>2, <3>3
  <2> QED
    BY <2>1, <2>2, Advances
<1>7. CASE FetchFails
  <2>1. /\ pc \in {"blob", "beacon"} /\ NextFormat /\ UNCHANGED end
        /\ slot \in Reported'
    BY <1>1, <1>7 DEF FetchFails, Reported, TypeOK, Reports
  <2> QED
    BY <2>1, Advances
<1>8. CASE StartFails
  BY <1>1, <1>8 DEF StartFails, Continue, CompleteInv
<1>9. CASE FetchRetry \/ (\E n \in Slots : Repair(n)) \/ Cancel \/ UNCHANGED vars
  BY <1>3, <1>9 DEF FetchRetry, Repair, Cancel, vars
<1>10. CASE Hang
  BY <1>1, <1>10 DEF Hang, CompleteInv
<1> QED
  BY <1>4, <1>5, <1>6, <1>7, <1>8, <1>9, <1>10 DEF Next, Check

\* Complete for every number of slots, of formats, of attempts and of failures: no
\* slot is left out, though the context may end, requests fail, and the archive
\* changes behind the check; unless the range of a head close to slot 0 wraps.
THEOREM ReportIsComplete ==
  ASSUME \A head \in HeadSlots :
           head < FinalizedL1Offset \/ FinalizedL1Offset + NumBlocks <= head
  PROVE  Spec => []Complete
<1>1. Init => CompleteInv
  <2>1. Init => pc = "head"
    BY DEF Init
  <2> QED
    BY <2>1, InitType DEF CompleteInv
<1>2. CompleteInv /\ [Next]_vars => CompleteInv'
  BY StepComplete
<1>3. CompleteInv => Complete
  <2> SUFFICES ASSUME CompleteInv, pc = "closed", refusals < 2 * Formats
               PROVE  \E head \in HeadSlots :
                        /\ end = EndFor(head)
                        /\ \A n \in ToCheck(head) : archive[n] # Beacon(n) => n \in Reported
    BY DEF Complete
  <2>1. PICK head \in HeadSlots : Checked(head)
    BY DEF CompleteInv
  <2>2. slot \in Nat /\ end \in Nat /\ end < slot /\ refusals \in Nat
    BY SlotFacts, ValidatorAssumption DEF CompleteInv, TypeOK
  <2>3. \A n \in ToCheck(head) : n \in Nat /\ n <= end
    BY <2>1, LastSlot, SlotFacts DEF Checked, ToCheck
  <2>4. \A n \in ToCheck(head) : Done(n)
    BY <2>1, <2>2, <2>3 DEF Checked
  <2>5. ~(2 * Formats <= refusals)
    BY <2>2, ValidatorAssumption
  <2> QED
    BY <2>1, <2>4, <2>5 DEF Checked, Done
<1> QED
  BY <1>1, <1>2, <1>3, PTL DEF Spec
=============================================================================
