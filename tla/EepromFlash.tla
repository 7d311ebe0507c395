------------------------------ MODULE EepromFlash ------------------------------
(***************************************************************************)
(* EepromService.flash and restore (services/eeprom_service.py), as the    *)
(* bridge calls them: one task of the worker that writes an image to the   *)
(* EEPROM of a slave word by word, reads all of it back, compares, and on  *)
(* request resets the slave and reads the EEPROM once more.                *)
(*                                                                         *)
(* The EEPROM is external: a write may be lost although it was             *)
(* acknowledged, and may be stored although it raised; a read is honest or *)
(* raises; after a reset the slave may have changed one byte by itself.    *)
(* pc is the place in the operation: "queued" (waits for the worker),      *)
(* "start", "tail" (the read before an image of odd size), "check" (the    *)
(* last look at the cancel flag), "write", "verify" (the full read),       *)
(* "compare", "reset", "rediscover", "reload", "judge", "end".             *)
(* Left out: progress, wording, hashes (equal exactly when the bytes are). *)
(***************************************************************************)
EXTENDS Integers

CONSTANTS Bytes,       \* the values of a byte
          Words,       \* words of the EEPROM (MAX_EEPROM_BYTES / 2)
          ChunkWords,  \* words read per request (64)
          MaxPolls,    \* bound: scans before the rediscovery deadline
          IsSii(_, _)  \* do the first n bytes of an image parse as SII?

Addresses == 0 .. 2 * Words - 1

Images == [Addresses -> Bytes]

ASSUME FlashAssumption ==
  /\ Bytes # {}
  /\ Words \in Nat \ {0} /\ ChunkWords \in Nat \ {0} /\ MaxPolls \in Nat
  /\ \A image \in Images, n \in 0 .. 2 * Words : IsSii(image, n) \in BOOLEAN

VARIABLES pc, cancel,
          target, size, autoReset,      \* the image is target[0 .. size - 1]
          contents,                     \* the EEPROM
          tail, word, offset, readback, \* locals of flash and read_full
          outcome,                      \* how the operation ended
          equal, siiValid, reset, rediscovered, reloadVerified,  \* its result
          polls,
          original                      \* history: the EEPROM before

request == <<target, size, autoReset, original>>
result == <<equal, siiValid, reset, rediscovered, reloadVerified>>
vars == <<pc, cancel, request, contents, tail, word, offset, readback, outcome,
          result, polls>>

Aligned == size + (size % 2)
WordCount == Aligned \div 2

Init ==
  /\ pc = "queued" /\ cancel \in BOOLEAN
  /\ target \in Images /\ size \in 0 .. 2 * Words + 1 /\ autoReset \in BOOLEAN
  /\ contents \in Images /\ original = contents
  /\ tail \in Bytes /\ word = 0 /\ offset = 0 /\ readback = contents
  /\ outcome = "none"
  /\ equal = FALSE /\ siiValid = FALSE /\ reset = "none"
  /\ rediscovered = FALSE /\ reloadVerified = FALSE
  /\ polls = 0

Ends(o) == pc' = "end" /\ outcome' = o

-----------------------------------------------------------------------------
\* The cancel command, on the control lane.
Cancel ==
  /\ ~cancel /\ cancel' = TRUE
  /\ UNCHANGED <<pc, request, contents, tail, word, offset, readback, outcome,
                 result, polls>>

\* self.cancel.clear(): a cancel that came before is forgotten.
Begin ==
  /\ pc = "queued" /\ pc' = "start"
  /\ cancel' = FALSE
  /\ UNCHANGED <<request, contents, tail, word, offset, readback, outcome,
                 result, polls>>

\* An empty image, or one beyond the address range, is refused.
Validate ==
  /\ pc = "start"
  /\ \/ (size = 0 \/ Aligned > 2 * Words) /\ Ends("refused")
     \/ size # 0 /\ Aligned <= 2 * Words /\ cancel /\ Ends("cancelled")
     \/ /\ size # 0 /\ Aligned <= 2 * Words /\ ~cancel
        /\ pc' = IF size % 2 = 1 THEN "tail" ELSE "check"
        /\ UNCHANGED outcome
  /\ UNCHANGED <<cancel, request, contents, tail, word, offset, readback, result, polls>>

\* The byte behind an image of odd size shares its last word.
ReadTail ==
  /\ pc = "tail"
  /\ \/ tail' = contents[size] /\ pc' = "check" /\ UNCHANGED outcome
     \/ Ends("failed") /\ UNCHANGED tail
  /\ UNCHANGED <<cancel, request, contents, word, offset, readback, result, polls>>

Check ==
  /\ pc = "check"
  /\ IF cancel THEN Ends("cancelled")
     ELSE pc' = "write" /\ UNCHANGED outcome
  /\ UNCHANGED <<cancel, request, contents, tail, word, offset, readback, result, polls>>

\* Mutant of Stored: an image of odd size is padded with its own last byte.
StoredPadded ==
  [i \in Addresses |->
     IF i \div 2 # word THEN contents[i] ELSE IF i < size THEN target[i] ELSE target[size - 1]]

\* The EEPROM once the word is stored.
Stored ==
  [i \in Addresses |->
     IF i \div 2 # word THEN contents[i] ELSE IF i < size THEN target[i] ELSE tail]

Write ==
  /\ pc = "write"
  /\ contents' \in {contents, Stored}
  /\ \/ /\ word' = word + 1
        /\ pc' = IF word' = WordCount THEN "verify" ELSE "write"
        /\ UNCHANGED outcome
     \/ Ends("failed") /\ UNCHANGED word
  /\ UNCHANGED <<cancel, request, tail, offset, readback, result, polls>>

-----------------------------------------------------------------------------
(* Reading back                                                            *)

\* The end of the chunk that starts at offset.
ChunkEnd ==
  IF offset + 2 * ChunkWords < Aligned THEN offset + 2 * ChunkWords ELSE Aligned

\* One request of read_full.
ReadChunk(next) ==
  /\ readback' = [i \in Addresses |->
                    IF offset <= i /\ i < ChunkEnd THEN contents[i] ELSE readback[i]]
  /\ offset' = IF ChunkEnd = Aligned THEN 0 ELSE ChunkEnd
  /\ pc' = IF ChunkEnd = Aligned THEN next ELSE pc

Verify ==
  /\ pc = "verify"
  /\ \/ ReadChunk("compare") /\ UNCHANGED outcome
     \/ Ends("failed") /\ UNCHANGED <<offset, readback>>
  /\ UNCHANGED <<cancel, request, contents, tail, word, result, polls>>

\* Mutant of Same: whole words are compared, and a last single byte is not.
SameWords == \A i \in 0 .. (size \div 2) * 2 - 1 : readback[i] = target[i]

\* compare_images on what was read
Same == \A i \in 0 .. size - 1 : readback[i] = target[i]

\* Mutant of Compare: a reset is sent whatever was read back.
CompareAndReset ==
  /\ pc = "compare"
  /\ equal' = Same /\ siiValid' = IsSii(readback, size)
  /\ IF autoReset THEN pc' = "reset" /\ UNCHANGED outcome ELSE Ends("finished")
  /\ UNCHANGED <<cancel, request, contents, tail, word, offset, readback, reset,
                 rediscovered, reloadVerified, polls>>

Compare ==
  /\ pc = "compare"
  /\ equal' = Same /\ siiValid' = IsSii(readback, size)
  /\ IF equal' /\ autoReset THEN pc' = "reset" /\ UNCHANGED outcome ELSE Ends("finished")
  /\ UNCHANGED <<cancel, request, contents, tail, word, offset, readback, reset,
                 rediscovered, reloadVerified, polls>>

-----------------------------------------------------------------------------
(* The optional reset                                                      *)

\* The reset sequence, complete or failed half-way; the slave may restart and
\* change its EEPROM in either case.
Reset ==
  /\ pc = "reset" /\ pc' = "rediscover"
  /\ reset' \in {"sent", "failed"}
  /\ \/ UNCHANGED contents
     \/ \E i \in Addresses, b \in Bytes : contents' = [contents EXCEPT ![i] = b]
  /\ UNCHANGED <<cancel, request, tail, word, offset, readback, outcome, equal,
                 siiValid, rediscovered, reloadVerified, polls>>

\* Mutant of Rediscover: the deadline is never looked at.
RediscoverForever ==
  /\ pc = "rediscover"
  /\ \/ rediscovered' = TRUE /\ pc' = "reload" /\ UNCHANGED <<outcome, polls>>
     \/ UNCHANGED <<pc, outcome, rediscovered>> /\ polls' = (polls + 1) % 2
  /\ UNCHANGED <<cancel, request, contents, tail, word, offset, readback, equal,
                 siiValid, reset, reloadVerified>>

\* One scan of _rediscover: found, not yet, or the deadline has passed.
Rediscover ==
  /\ pc = "rediscover"
  /\ \/ rediscovered' = TRUE /\ pc' = "reload" /\ UNCHANGED <<outcome, polls>>
     \/ polls < MaxPolls /\ polls' = polls + 1 /\ UNCHANGED <<pc, outcome, rediscovered>>
     \/ Ends("finished") /\ UNCHANGED <<rediscovered, polls>>
  /\ UNCHANGED <<cancel, request, contents, tail, word, offset, readback, equal,
                 siiValid, reset, reloadVerified>>

Reload ==
  /\ pc = "reload"
  /\ \/ ReadChunk("judge") /\ UNCHANGED outcome
     \/ Ends("finished") /\ UNCHANGED <<offset, readback>>
  /\ UNCHANGED <<cancel, request, contents, tail, word, result, polls>>

Judge ==
  /\ pc = "judge"
  /\ reloadVerified' = (reset = "sent" /\ Same)
  /\ Ends("finished")
  /\ UNCHANGED <<cancel, request, contents, tail, word, offset, readback, equal,
                 siiValid, reset, rediscovered, polls>>

-----------------------------------------------------------------------------
Flash ==
  \/ Begin \/ Validate \/ ReadTail \/ Check \/ Write \/ Verify \/ Compare
  \/ Reset \/ Rediscover \/ Reload \/ Judge

Next == Cancel \/ Flash

Spec == Init /\ [][Next]_vars

\* Every backend call has a time limit.
FairSpec == Spec /\ WF_vars(Flash)

-----------------------------------------------------------------------------
(* What is checked                                                         *)

\* The variables keep their types, and the word and the offset stay within the
\* image.
TypeOK ==
  /\ pc \in {"queued", "start", "tail", "check", "write", "verify", "compare",
             "reset", "rediscover", "reload", "judge", "end"}
  /\ outcome \in {"none", "refused", "cancelled", "failed", "finished"}
  /\ cancel \in BOOLEAN /\ autoReset \in BOOLEAN
  /\ target \in Images /\ contents \in Images /\ original \in Images /\ readback \in Images
  /\ size \in Nat /\ tail \in Bytes
  /\ word \in 0 .. WordCount /\ offset \in 0 .. Aligned
  /\ equal \in BOOLEAN /\ siiValid \in BOOLEAN /\ rediscovered \in BOOLEAN
  /\ reloadVerified \in BOOLEAN /\ reset \in {"none", "sent", "failed"}
  /\ polls \in Nat

Exact == \A i \in 0 .. size - 1 : contents[i] = target[i]

\* An image reported as programmed is in the EEPROM byte for byte, whatever
\* writes were lost; one reported as reloaded still is after the reset.
VerifiedIsExact ==
  /\ equal /\ reset = "none" => Exact
  /\ reloadVerified => Exact

\* Until a slave is reset, the bytes behind the image are what they were, even
\* when the image ends in the middle of a word or the operation fails anywhere.
NeighboursKept ==
  reset = "none" => \A i \in Addresses : i >= size => contents[i] = original[i]

\* An operation that ends as cancelled or refused has written nothing: once
\* the first word is under way, a cancel no longer leaves half an image behind.
CancelledUntouched ==
  outcome \in {"cancelled", "refused"} => contents = original

\* A slave is reset only when its EEPROM holds the image, byte for byte.
ResetsExactOnly == [][reset = "none" /\ reset' # "none" => Exact]_vars

\* The operation ends, rediscovery included.
FlashEnds == <>(pc = "end")
=============================================================================
