--------------------------- MODULE EepromFlashProofs ---------------------------
(***************************************************************************)
(* What EepromFlash promises, for an EEPROM of any size, any chunk size and *)
(* any image.  The argument follows the operation: before the first word is *)
(* written nothing has changed (Untouched); while words are written the     *)
(* byte kept from the last word is the one still stored behind the image    *)
(* (TailKept); while the image is read back, what was read so far is what   *)
(* is stored (ReadSoFar), as nothing writes meanwhile.                      *)
(***************************************************************************)
EXTENDS EepromFlash, TLAPS

Beginning == pc \in {"queued", "start", "tail", "check"}

Reading == pc \in {"verify", "reload"}

\* The range was checked before anything touched the bus.
RangeHolds ==
  pc \notin {"queued", "start", "end"} => size # 0 /\ Aligned <= 2 * Words

Places ==
  /\ pc = "tail" => size % 2 = 1
  /\ Beginning => word = 0
  /\ pc = "write" => word < WordCount
  /\ ~Reading /\ pc # "end" => offset = 0
  /\ Reading => offset < Aligned

Untouched ==
  /\ Beginning => contents = original
  /\ outcome \in {"cancelled", "refused"} => pc = "end" /\ contents = original

TailKept == pc \in {"check", "write"} /\ size % 2 = 1 => tail = contents[size]

ReadSoFar ==
  /\ Reading => \A i \in Addresses : i < offset => readback[i] = contents[i]
  /\ pc \in {"compare", "judge"} =>
       \A i \in Addresses : i < size => readback[i] = contents[i]

Results ==
  /\ Beginning \/ pc \in {"write", "verify", "compare"} =>
       ~equal /\ reset = "none" /\ ~reloadVerified
  /\ pc = "reset" => Exact /\ reset = "none" /\ ~reloadVerified
  /\ pc \in {"rediscover", "reload", "judge"} => reset # "none" /\ ~reloadVerified

IInv ==
  /\ TypeOK /\ RangeHolds /\ Places /\ Untouched /\ TailKept /\ ReadSoFar /\ Results
  /\ VerifiedIsExact /\ NeighboursKept

-----------------------------------------------------------------------------
(* Words, chunks and bytes                                                 *)

\* The size rounded up to whole words, and how many words that is.
LEMMA WordsOfSize ==
  ASSUME size \in Nat
  PROVE  /\ size % 2 \in {0, 1} /\ Aligned = size + (size % 2)
         /\ Aligned \in Nat /\ WordCount \in Nat /\ Aligned = 2 * WordCount
BY DEF Aligned, WordCount

\* A word holds two bytes.
LEMMA BytesOfWord ==
  ASSUME NEW i \in Nat, NEW w \in Nat
  PROVE  i \div 2 = w <=> i = 2 * w \/ i = 2 * w + 1
OBVIOUS

\* Storing a word keeps an image of bytes, and touches no byte behind the image.
LEMMA StoringAWord ==
  ASSUME TypeOK, RangeHolds, Places, TailKept, pc = "write"
  PROVE  /\ Stored \in Images
         /\ \A i \in Addresses : i >= size => Stored[i] = contents[i]
<1>1. size \in Nat /\ word \in Nat /\ tail \in Bytes /\ Words \in Nat
  BY WordsOfSize, FlashAssumption DEF TypeOK
<1>2. contents \in [Addresses -> Bytes] /\ target \in [Addresses -> Bytes]
  BY DEF TypeOK, Images
<1>3. Stored \in Images
  BY <1>1, <1>2 DEF Stored, Images
<1>4. ASSUME NEW i \in Addresses, i >= size
      PROVE  Stored[i] = contents[i]
  <2>1. CASE i \div 2 # word
    BY <2>1 DEF Stored
  <2>2. CASE i \div 2 = word
    <3>1. i = 2 * word \/ i = 2 * word + 1
      BY <1>1, <2>2, BytesOfWord DEF Addresses
    <3>2. word < WordCount /\ Aligned = 2 * WordCount /\ WordCount \in Nat
      BY <1>1, WordsOfSize DEF Places
    <3>3. size % 2 = 1 /\ i = size
      BY <1>1, <1>4, <3>1, <3>2, WordsOfSize DEF Addresses
    <3>4. tail = contents[size]
      BY <3>3 DEF TailKept
    <3> QED BY <1>1, <3>3, <3>4 DEF Stored
  <2> QED BY <2>1, <2>2
<1> QED BY <1>3, <1>4

\* One chunk: it is not empty, stays within the image, and is read as stored.
LEMMA ReadingAChunk ==
  ASSUME TypeOK, RangeHolds, Places, ReadSoFar, Reading, NEW next, ReadChunk(next)
  PROVE  /\ readback' \in Images
         /\ \/ /\ pc' = pc /\ offset' \in Nat /\ offset' < Aligned
               /\ \A i \in Addresses : i < offset' => readback'[i] = contents[i]
            \/ /\ pc' = next /\ offset' = 0
               /\ \A i \in Addresses : i < size => readback'[i] = contents[i]
<1>1. /\ size \in Nat /\ offset \in Nat /\ Words \in Nat /\ ChunkWords \in Nat \ {0}
      /\ offset < Aligned /\ Aligned \in Nat /\ size <= Aligned
  BY WordsOfSize, FlashAssumption DEF TypeOK, Places
<1>2. contents \in [Addresses -> Bytes] /\ readback \in [Addresses -> Bytes]
  BY DEF TypeOK, Images
<1>3. ChunkEnd \in Nat /\ offset < ChunkEnd /\ ChunkEnd <= Aligned
  BY <1>1 DEF ChunkEnd
<1>4. readback' \in Images
  BY <1>2 DEF ReadChunk, Images
<1>5. \A i \in Addresses : i < ChunkEnd => readback'[i] = contents[i]
  <2>1. TAKE i \in Addresses
  <2>2. HAVE i < ChunkEnd
  <2>3. i \in Nat
    BY <1>1 DEF Addresses
  <2>4. readback'[i] = IF offset <= i /\ i < ChunkEnd THEN contents[i] ELSE readback[i]
    BY DEF ReadChunk
  <2>5. i < offset => readback[i] = contents[i]
    BY DEF ReadSoFar
  <2> QED BY <1>1, <2>2, <2>3, <2>4, <2>5
<1>6. CASE ChunkEnd = Aligned
  <2>1. \A i \in Addresses : i < size => i < ChunkEnd
    BY <1>1, <1>6 DEF Addresses
  <2> QED BY <1>4, <1>5, <1>6, <2>1 DEF ReadChunk
<1>7. CASE ChunkEnd # Aligned
  BY <1>1, <1>3, <1>4, <1>5, <1>7 DEF ReadChunk
<1> QED BY <1>6, <1>7

-----------------------------------------------------------------------------
(* The invariant is inductive                                              *)

\* It holds of an operation that waits for the worker.
LEMMA InitInv == Init => IInv
<1> SUFFICES ASSUME Init PROVE IInv OBVIOUS
<1>1. size \in Nat
  BY FlashAssumption DEF Init
<1>2. word \in 0 .. WordCount /\ offset \in 0 .. Aligned /\ polls \in Nat
  BY <1>1, WordsOfSize DEF Init
<1>3. TypeOK
  BY <1>1, <1>2 DEF Init, TypeOK
<1> QED
  BY <1>1, <1>3 DEF Init, IInv, RangeHolds, Places, Reading, Beginning, Untouched, TailKept,
     ReadSoFar, Results, VerifiedIsExact, NeighboursKept

\* The request does not change, and neither do the words it has.
LEMMA SameRequest ==
  ASSUME UNCHANGED request
  PROVE  /\ target' = target /\ size' = size /\ autoReset' = autoReset /\ original' = original
         /\ Aligned' = Aligned /\ WordCount' = WordCount
BY DEF request, Aligned, WordCount

LEMMA CancelStep == IInv /\ Cancel => IInv'
<1> SUFFICES ASSUME IInv, Cancel PROVE IInv' OBVIOUS
<1> USE DEF Cancel, result
<1>1. TypeOK'
  BY SameRequest DEF IInv, TypeOK
<1> QED
  BY <1>1, SameRequest DEF IInv, RangeHolds, Places, Reading, Beginning, Untouched, TailKept,
     ReadSoFar, Results, VerifiedIsExact, NeighboursKept, Exact

LEMMA BeginStep == IInv /\ Begin => IInv'
<1> SUFFICES ASSUME IInv, Begin PROVE IInv' OBVIOUS
<1> USE DEF Begin, result
<1>1. TypeOK'
  BY SameRequest DEF IInv, TypeOK
<1> QED
  BY <1>1, SameRequest DEF IInv, RangeHolds, Places, Reading, Beginning, Untouched, TailKept,
     ReadSoFar, Results, VerifiedIsExact, NeighboursKept, Exact

LEMMA ValidateStep == IInv /\ Validate => IInv'
<1> SUFFICES ASSUME IInv, Validate PROVE IInv' OBVIOUS
<1> USE DEF Validate, Ends, result
<1>1. TypeOK'
  BY SameRequest DEF IInv, TypeOK
<1>2. (RangeHolds /\ Places)'
  BY SameRequest, WordsOfSize DEF IInv, TypeOK, RangeHolds, Places, Reading, Beginning
<1> QED
  BY <1>1, <1>2, SameRequest, WordsOfSize DEF IInv, TypeOK, Beginning, Untouched, TailKept,
     Reading, ReadSoFar, Results, VerifiedIsExact, NeighboursKept, Exact

LEMMA ReadTailStep == IInv /\ ReadTail => IInv'
<1> SUFFICES ASSUME IInv, ReadTail PROVE IInv' OBVIOUS
<1> USE DEF ReadTail, Ends, result
<1>1. size \in Addresses
  BY WordsOfSize, FlashAssumption DEF IInv, TypeOK, RangeHolds, Places, Addresses
<1>2. contents[size] \in Bytes
  BY <1>1 DEF IInv, TypeOK, Images
<1>3. TypeOK'
  BY <1>2, SameRequest DEF IInv, TypeOK
<1> QED
  BY <1>3, SameRequest DEF IInv, RangeHolds, Places, Reading, Beginning, Untouched, TailKept,
     ReadSoFar, Results, VerifiedIsExact, NeighboursKept, Exact

LEMMA CheckStep == IInv /\ Check => IInv'
<1> SUFFICES ASSUME IInv, Check PROVE IInv' OBVIOUS
<1> USE DEF Check, Ends, result
<1>1. TypeOK'
  BY SameRequest DEF IInv, TypeOK
<1>2. (RangeHolds /\ Places)'
  BY SameRequest, WordsOfSize DEF IInv, TypeOK, RangeHolds, Places, Reading, Beginning
<1> QED
  BY <1>1, <1>2, SameRequest DEF IInv, RangeHolds, Places, Reading, Beginning, Untouched,
     TailKept, ReadSoFar, Results, VerifiedIsExact, NeighboursKept, Exact

LEMMA WriteStep == IInv /\ Write => IInv'
<1> SUFFICES ASSUME IInv, Write PROVE IInv' OBVIOUS
<1> USE DEF Write, Ends, result
<1>1. /\ Stored \in Images
      /\ \A i \in Addresses : i >= size => Stored[i] = contents[i]
  BY StoringAWord DEF IInv
<1>2. contents' \in Images /\ word' \in 0 .. WordCount
  BY <1>1, WordsOfSize DEF IInv, TypeOK, Places
<1>3. TypeOK'
  BY <1>2, SameRequest DEF IInv, TypeOK
<1>4. (RangeHolds /\ Places)'
  BY <1>2, SameRequest, WordsOfSize DEF IInv, TypeOK, RangeHolds, Places, Reading, Beginning
<1>5. NeighboursKept'
  BY <1>1, SameRequest DEF IInv, NeighboursKept
<1>6. TailKept'
  <2>1. SUFFICES ASSUME pc' = "write", size % 2 = 1 PROVE tail = contents'[size]
    BY SameRequest DEF TailKept
  <2>2. size \in Addresses /\ size >= size
    BY <2>1, WordsOfSize, FlashAssumption DEF IInv, TypeOK, RangeHolds, Addresses
  <2> QED BY <1>1, <2>1, <2>2 DEF IInv, TailKept
<1>7. ReadSoFar'
  BY WordsOfSize, SameRequest, FlashAssumption DEF IInv, TypeOK, Places, Beginning, Reading,
     ReadSoFar, Addresses
<1> QED
  BY <1>3, <1>4, <1>5, <1>6, <1>7, SameRequest DEF IInv, Beginning, Untouched, Results,
     VerifiedIsExact

LEMMA VerifyStep == IInv /\ Verify => IInv'
<1> SUFFICES ASSUME IInv, Verify PROVE IInv' OBVIOUS
<1> USE DEF Verify, Ends, result
<1>1. CASE ReadChunk("compare") /\ UNCHANGED outcome
  <2>1. /\ readback' \in Images
        /\ \/ /\ pc' = pc /\ offset' \in Nat /\ offset' < Aligned
              /\ \A i \in Addresses : i < offset' => readback'[i] = contents[i]
           \/ /\ pc' = "compare" /\ offset' = 0
              /\ \A i \in Addresses : i < size => readback'[i] = contents[i]
    BY <1>1, ReadingAChunk DEF IInv, Reading
  <2>2. offset' \in 0 .. Aligned
    BY <2>1, WordsOfSize DEF IInv, TypeOK
  <2>3. TypeOK'
    BY <2>1, <2>2, SameRequest DEF IInv, TypeOK
  <2> QED
    BY <2>1, <2>3, SameRequest DEF IInv, RangeHolds, Places, Reading, Beginning, Untouched,
       TailKept, ReadSoFar, Results, VerifiedIsExact, NeighboursKept, Exact
<1>2. CASE Ends("failed") /\ UNCHANGED <<offset, readback>>
  <2>1. TypeOK'
    BY <1>2, SameRequest DEF IInv, TypeOK
  <2> QED
    BY <1>2, <2>1, SameRequest DEF IInv, RangeHolds, Places, Reading, Beginning, Untouched,
       TailKept, ReadSoFar, Results, VerifiedIsExact, NeighboursKept, Exact
<1> QED BY <1>1, <1>2

\* In the two places where the image is judged, what was read is what is stored.
LEMMA SameIsExact ==
  ASSUME IInv, pc \in {"compare", "judge"}
  PROVE  Same <=> Exact
<1>1. 0 .. size - 1 \subseteq Addresses /\ \A i \in 0 .. size - 1 : i < size
  BY WordsOfSize, FlashAssumption DEF IInv, TypeOK, RangeHolds, Addresses
<1> QED BY <1>1 DEF IInv, ReadSoFar, Same, Exact

LEMMA CompareStep == IInv /\ Compare => IInv'
<1> SUFFICES ASSUME IInv, Compare PROVE IInv' OBVIOUS
<1> USE DEF Compare, Ends, result
<1>1. size \in 0 .. 2 * Words
  BY WordsOfSize, FlashAssumption DEF IInv, TypeOK, RangeHolds
<1>2. IsSii(readback, size) \in BOOLEAN /\ Same \in BOOLEAN
  BY <1>1, FlashAssumption DEF IInv, TypeOK, Same
<1>3. TypeOK'
  BY <1>2, SameRequest DEF IInv, TypeOK
<1>4. equal' <=> Exact'
  BY SameIsExact, SameRequest DEF Exact
<1> QED
  BY <1>3, <1>4, SameRequest DEF IInv, RangeHolds, Places, Reading, Beginning, Untouched,
     TailKept, ReadSoFar, Results, VerifiedIsExact, NeighboursKept

LEMMA ResetStep == IInv /\ Reset => IInv'
<1> SUFFICES ASSUME IInv, Reset PROVE IInv' OBVIOUS
<1> USE DEF Reset, Ends, result
<1>1. contents' \in Images
  BY DEF IInv, TypeOK, Images
<1>2. TypeOK'
  BY <1>1, SameRequest DEF IInv, TypeOK
<1> QED
  BY <1>2, SameRequest DEF IInv, RangeHolds, Places, Reading, Beginning, Untouched,
     TailKept, ReadSoFar, Results, VerifiedIsExact, NeighboursKept

LEMMA RediscoverStep == IInv /\ Rediscover => IInv'
<1> SUFFICES ASSUME IInv, Rediscover PROVE IInv' OBVIOUS
<1> USE DEF Rediscover, Ends, result
<1>1. polls' \in Nat
  BY DEF IInv, TypeOK
<1>2. TypeOK'
  BY <1>1, SameRequest DEF IInv, TypeOK
<1>3. offset = 0 /\ offset < Aligned /\ \A i \in Addresses : ~(i < offset)
  BY WordsOfSize, FlashAssumption DEF IInv, TypeOK, RangeHolds, Places, Reading, Addresses
<1> QED
  BY <1>2, <1>3, SameRequest DEF IInv, RangeHolds, Places, Reading, Beginning,
     Untouched, TailKept, ReadSoFar, Results, VerifiedIsExact, NeighboursKept, Exact

LEMMA ReloadStep == IInv /\ Reload => IInv'
<1> SUFFICES ASSUME IInv, Reload PROVE IInv' OBVIOUS
<1> USE DEF Reload, Ends, result
<1>1. CASE ReadChunk("judge") /\ UNCHANGED outcome
  <2>1. /\ readback' \in Images
        /\ \/ /\ pc' = pc /\ offset' \in Nat /\ offset' < Aligned
              /\ \A i \in Addresses : i < offset' => readback'[i] = contents[i]
           \/ /\ pc' = "judge" /\ offset' = 0
              /\ \A i \in Addresses : i < size => readback'[i] = contents[i]
    BY <1>1, ReadingAChunk DEF IInv, Reading
  <2>2. offset' \in 0 .. Aligned
    BY <2>1, WordsOfSize DEF IInv, TypeOK
  <2>3. TypeOK'
    BY <2>1, <2>2, SameRequest DEF IInv, TypeOK
  <2> QED
    BY <2>1, <2>3, SameRequest DEF IInv, RangeHolds, Places, Reading, Beginning, Untouched,
       TailKept, ReadSoFar, Results, VerifiedIsExact, NeighboursKept, Exact
<1>2. CASE Ends("finished") /\ UNCHANGED <<offset, readback>>
  <2>1. TypeOK'
    BY <1>2, SameRequest DEF IInv, TypeOK
  <2> QED
    BY <1>2, <2>1, SameRequest DEF IInv, RangeHolds, Places, Reading, Beginning, Untouched,
       TailKept, ReadSoFar, Results, VerifiedIsExact, NeighboursKept, Exact
<1> QED BY <1>1, <1>2

LEMMA JudgeStep == IInv /\ Judge => IInv'
<1> SUFFICES ASSUME IInv, Judge PROVE IInv' OBVIOUS
<1> USE DEF Judge, Ends, result
<1>1. reloadVerified' \in BOOLEAN
  BY DEF Same
<1>2. TypeOK'
  BY <1>1, SameRequest DEF IInv, TypeOK
<1>3. reloadVerified' => Exact'
  BY SameIsExact, SameRequest DEF Exact
<1> QED
  BY <1>2, <1>3, SameRequest DEF IInv, RangeHolds, Places, Reading, Beginning, Untouched,
     TailKept, ReadSoFar, Results, VerifiedIsExact, NeighboursKept

LEMMA NextStep == IInv /\ [Next]_vars => IInv'
<1> SUFFICES ASSUME IInv, [Next]_vars PROVE IInv' OBVIOUS
<1>1. CASE Next
  BY <1>1, CancelStep, BeginStep, ValidateStep, ReadTailStep, CheckStep, WriteStep, VerifyStep,
     CompareStep, ResetStep, RediscoverStep, ReloadStep, JudgeStep DEF Next, Flash
<1>2. CASE UNCHANGED vars
  BY <1>2, SameRequest DEF vars, result, IInv, TypeOK, RangeHolds, Places, Reading, Beginning,
     Untouched, TailKept, ReadSoFar, Results, VerifiedIsExact, NeighboursKept, Exact
<1> QED BY <1>1, <1>2

LEMMA Inductive == Spec => []IInv
BY InitInv, NextStep, PTL DEF Spec

-----------------------------------------------------------------------------
(* What follows                                                            *)

\* The variables keep their types, and no word or byte beyond the image is
\* addressed (EepromService.flash, read_full).
THEOREM TypeCorrect == Spec => []TypeOK
<1>1. IInv => TypeOK
  BY DEF IInv
<1> QED BY <1>1, Inductive, PTL

\* Whatever writes were lost, an image that flash reports as programmed, or as
\* still there after the reset, is in the EEPROM byte for byte.
THEOREM VerifiedImageIsExact == Spec => []VerifiedIsExact
<1>1. IInv => VerifiedIsExact
  BY DEF IInv
<1> QED BY <1>1, Inductive, PTL

\* Wherever flash fails or ends, it has left the bytes behind the image alone,
\* the odd one in the last word included.
THEOREM NeighboursAreKept == Spec => []NeighboursKept
<1>1. IInv => NeighboursKept
  BY DEF IInv
<1> QED BY <1>1, Inductive, PTL

\* A flash that ends as cancelled or refused has written nothing.
THEOREM CancelledIsUntouched == Spec => []CancelledUntouched
<1>1. IInv => CancelledUntouched
  BY DEF IInv, Untouched, CancelledUntouched
<1> QED BY <1>1, Inductive, PTL

\* flash resets a slave only when its EEPROM holds the image.
THEOREM ResetsOnlyExact == Spec => ResetsExactOnly
<1>1. ASSUME IInv, [Next]_vars, reset = "none", reset' # "none"
      PROVE  Exact
  <2>1. CASE Reset
    BY <1>1, <2>1 DEF Reset, IInv, Results
  <2>2. CASE UNCHANGED reset
    BY <1>1, <2>2
  <2>3. Reset \/ UNCHANGED reset
    BY <1>1 DEF Next, Flash, vars, result, Cancel, Begin, Validate, ReadTail, Check, Write,
       Verify, Compare, Rediscover, Reload, Judge
  <2> QED BY <2>1, <2>2, <2>3
<1>2. IInv /\ [Next]_vars => [reset = "none" /\ reset' # "none" => Exact]_vars
  BY <1>1
<1> QED BY <1>2, Inductive, PTL DEF Spec, ResetsExactOnly
=============================================================================
