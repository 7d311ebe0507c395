----------------------------- MODULE MCEepromFlash -----------------------------
(* EepromFlash with an EEPROM of two words and two values of a byte: enough  *)
(* for an image that ends within a word, one that leaves a word alone, one   *)
(* that fills the EEPROM, and for reading back in one or in several chunks.  *)
EXTENDS EepromFlash

\* Structure is abstract: an image parses when its first byte has the value 1.
FirstByteSet(image, n) == n > 0 /\ image[0] = 1
=============================================================================
