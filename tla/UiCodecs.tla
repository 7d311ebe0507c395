------------------------------ MODULE UiCodecs ------------------------------
(* What the pages compute from the bytes and the lists the core gives them,   *)
(* each algorithm beside what it promises: register values and their fields   *)
(* (registerValues.ts, RegistersPage.tsx), ConfigData and the EEPROM prefix   *)
(* (eepromConfig.ts, eepromDiagnostics.ts), the comparison of two images      *)
(* (eepromViewModel.ts), the port configuration of the ET1100                 *)
(* (escHardware.ts), the reuse of unchanged slaves (busSnapshot.ts), the      *)
(* search and the window of the register list.  Numbers are not their texts:  *)
(* the digits of an input and the labels of a value are left out.             *)
EXTENDS Integers, Sequences, FiniteSets, SequencesExt

CONSTANTS
  ByteBits,     \* bits of a byte: 8
  DigitBase,    \* base of an address as the user types it: 16
  RowHeight,    \* registerRowHeight and registerHeaderHeight: 36
  Overscan,     \* registerOverscan: 8
  PageBytes,    \* bytes on a page of the hex view
  Small         \* bound on lengths, widths, addresses and counts

\* 1n << BigInt(n); as a function, so that it can be reasoned about
PowerOfTwo[n \in Nat] == IF n = 0 THEN 1 ELSE 2 * PowerOfTwo[n - 1]
Byte == PowerOfTwo[ByteBits]
Bytes(n) == [1 .. n -> 0 .. Byte - 1]
Least(a, b) == IF a < b THEN a ELSE b
Greatest(a, b) == IF a > b THEN a ELSE b
Ceiling(a, b) == (a + b - 1) \div b

-----------------------------------------------------------------------------
(* Register values                                                            *)

\* The last n bytes as a number, the last one being the most significant
registerNumber(bytes) ==
  LET last[n \in 0 .. Len(bytes)] == IF n = 0 THEN 0 ELSE last[n - 1] * Byte + bytes[Len(bytes) - n + 1]
  IN  last[Len(bytes)]
TooLarge == <<>>
encodeRegisterInput(value, width) ==
  IF value >= PowerOfTwo[width * ByteBits] THEN TooLarge
  ELSE [i \in 1 .. width |-> (value \div PowerOfTwo[(i - 1) * ByteBits]) % Byte]

BitField(high, low) == [shift |-> Least(high, low), width |-> Greatest(high, low) - Least(high, low) + 1]
FieldValue(number, field) == (number \div PowerOfTwo[field.shift]) % PowerOfTwo[field.width]
\* Fields that do not fit in the register are not decoded.
FieldsIn(width) ==
  {field \in {BitField(high, low) : high, low \in 0 .. Small * ByteBits} :
     field.shift + field.width <= width * ByteBits}
editField(bytes, field, value) ==
  LET number == registerNumber(bytes) IN
  IF value >= PowerOfTwo[field.width] THEN bytes
  ELSE encodeRegisterInput(number + (value - FieldValue(number, field)) * PowerOfTwo[field.shift], Len(bytes))

EncodesExactly(value, width) ==
  LET bytes == encodeRegisterInput(value, width)
  IN  IF value >= PowerOfTwo[width * ByteBits] THEN bytes = TooLarge
      ELSE bytes \in Bytes(width) /\ registerNumber(bytes) = value
EditsOnlyField(bytes, field, value) ==
  LET before == registerNumber(bytes)
      after == registerNumber(editField(bytes, field, value))
  IN  /\ FieldValue(after, field) = IF value < PowerOfTwo[field.width] THEN value ELSE FieldValue(before, field)
      /\ \A bit \in 0 .. Len(bytes) * ByteBits - 1 :
           bit \notin field.shift .. field.shift + field.width - 1 =>
             FieldValue(after, BitField(bit, bit)) = FieldValue(before, BitField(bit, bit))
\* A value is encoded in address order without losing a bit, or refused; an edit
\* of a field changes that field and no other bit of the register.
ValuesRoundTrip ==
  \A width \in 1 .. Small :
    /\ \A value \in 0 .. PowerOfTwo[width * ByteBits] : EncodesExactly(value, width)
    /\ \A bytes \in Bytes(width), field \in FieldsIn(width), value \in 0 .. PowerOfTwo[Small * ByteBits] :
         EditsOnlyField(bytes, field, value)

-----------------------------------------------------------------------------
(* ConfigData and the words of the EEPROM prefix                              *)

ByteAt(bytes, offset) == IF offset < Len(bytes) THEN bytes[offset + 1] ELSE 0
Word(bytes, offset) == ByteAt(bytes, offset) + ByteAt(bytes, offset + 1) * Byte
NotConfigData == [pdi |-> -1]
\* digits: how many hexadecimal digits the text of these bytes has
decodeConfigData(digits, bytes) ==
  IF digits % 2 # 0 \/ digits < 2 \/ digits > 28 THEN NotConfigData
  ELSE [pdi |-> ByteAt(bytes, 0), esc |-> ByteAt(bytes, 1), pdiConfiguration |-> ByteAt(bytes, 2),
        sync |-> ByteAt(bytes, 3), pulse |-> Word(bytes, 4), extended |-> Word(bytes, 6), alias |-> Word(bytes, 8)]
decodeEepromPrefix(bytes) ==
  [pdi |-> ByteAt(bytes, 0), esc |-> ByteAt(bytes, 1), pdiConfiguration |-> ByteAt(bytes, 2),
   sync |-> ByteAt(bytes, 3), pulse |-> Word(bytes, 4), extended |-> Word(bytes, 6), alias |-> Word(bytes, 8)]

\* The overview, which decodes the EEPROM, and the EEPROM page, which decodes the
\* ConfigData of a file, never disagree on one that was programmed.
SamePrefix(config) ==
  LET prefix == config \o [i \in 1 .. 16 - Len(config) |-> 0]
  IN  decodeConfigData(2 * Len(config), config) = decodeEepromPrefix(prefix)
PagesAgree ==
  \A size \in 1 .. 14, fill \in 0 .. 1 : SamePrefix([i \in 1 .. size |-> (i * i + fill) % Byte])

-----------------------------------------------------------------------------
(* The comparison of two images, the pages of the hex view                    *)

\* An offset that differs is put to the last range, if it follows it, or starts one.
Extended(ranges, offset) ==
  IF ranges # <<>> /\ Last(ranges).offset + Last(ranges).length = offset
  THEN [ranges EXCEPT ![Len(ranges)].length = @ + 1]
  ELSE Append(ranges, [offset |-> offset, length |-> 1])
compareSnapshots(actual, target) ==
  LET compared == Least(Len(actual), Len(target))
      upTo[n \in 0 .. compared] ==
        IF n = 0 THEN <<>>
        ELSE IF actual[n] = target[n] THEN upTo[n - 1] ELSE Extended(upTo[n - 1], n)
  IN  [compared |-> compared, ranges |-> upTo[compared],
       unread |-> Greatest(0, Len(target) - Len(actual)), extra |-> Greatest(0, Len(actual) - Len(target))]

Covered(range) == range.offset .. range.offset + range.length - 1
\* Every differing byte is in one range, the ranges do not touch, and bytes that
\* were not read are counted and not called equal.
ExactDifferences(actual, target) ==
  LET result == compareSnapshots(actual, target)
      ranges == ToSet(result.ranges)
  IN  /\ UNION {Covered(range) : range \in ranges}
           = {i \in 1 .. Least(Len(actual), Len(target)) : actual[i] # target[i]}
      /\ \A a, b \in ranges : a # b => (a.offset + a.length < b.offset \/ b.offset + b.length < a.offset)
      /\ result.compared + result.unread = Len(target) /\ result.compared + result.extra = Len(actual)
DifferencesAreExact ==
  \A n, m \in 0 .. Small + 1 : \A actual \in [1 .. n -> 0 .. 1], target \in [1 .. m -> 0 .. 1] :
    ExactDifferences(actual, target)

\* Offsets from 0; the page that is shown is one of the data there is.
HexPage(length, page) ==
  LET current == Least(page, Greatest(0, Ceiling(length, PageBytes) - 1))
  IN  current * PageBytes .. Least(current * PageBytes + PageBytes, length) - 1
JumpTo(offset) == offset \div PageBytes
AddressIsShown ==
  \A length \in 0 .. 3 * PageBytes, page \in 0 .. 3 :
    /\ length > 0 => HexPage(length, page) # {}
    /\ \A offset \in 0 .. length - 1 : offset \in HexPage(length, JumpTo(offset))

-----------------------------------------------------------------------------
(* Port configuration of the ET1100: bits 2 to 5 of its hardware register     *)

Ports == <<{0, 1}, {0, 1, 2}, {0, 1, 3}, {0, 1, 2, 3}>>
\* Mutant of PortOfBit: the third port is always port 2.
PortOfBitPlain(mode, bit) == bit - 2

PortOfBit(mode, bit) == IF bit = 4 /\ mode = 2 THEN 3 ELSE bit - 2
ActiveBit(mode, bit) == IF bit = 5 THEN mode = 3 ELSE PortOfBit(mode, bit) \in Ports[mode + 1]
\* The bits that are shown as active name every port of the mode, each once.
PortsAreNamedOnce ==
  \A mode \in 0 .. 3 :
    LET bits == {bit \in 2 .. 5 : ActiveBit(mode, bit)} IN
      {PortOfBit(mode, bit) : bit \in bits} = Ports[mode + 1] /\ Cardinality(bits) = Cardinality(Ports[mode + 1])

-----------------------------------------------------------------------------
(* Unchanged slaves keep their object                                         *)

Slaves(ref) == [position : 1 .. 2, data : 0 .. 1, ref : {ref}]
SnapshotsOf(ref) ==
  [session : 1 .. 2, data : 0 .. 1, ref : {ref},
   slaves : {<<>>} \cup {<<s>> : s \in Slaves(ref)}
            \cup {<<s, t>> : s \in {r \in Slaves(ref) : r.position = 1}, t \in {r \in Slaves(ref) : r.position = 2}}]
\* equalValue compares the values of two objects, not the objects.
equalValue(a, b) == [a EXCEPT !.ref = b.ref] = b
Plain(snapshot) ==
  [snapshot EXCEPT !.ref = "", !.slaves = [i \in DOMAIN @ |-> [@[i] EXCEPT !.ref = ""]]]
\* Of several slaves at a position the last one is compared.
Keeps(slaves, slave) ==
  LET places == {i \in DOMAIN slaves : slaves[i].position = slave.position}
      previous == slaves[CHOOSE i \in places : \A j \in places : j <= i]
  IN  IF places # {} /\ equalValue(previous, slave) THEN previous ELSE slave
reconcileBusSnapshot(current, incoming) ==
  LET slaves == [i \in DOMAIN incoming.slaves |-> Keeps(current.slaves, incoming.slaves[i])]
      next == [incoming EXCEPT !.slaves = slaves]
  IN  IF current.session # incoming.session THEN incoming
      ELSE IF Plain(current) = Plain(next) THEN current ELSE next

\* The page shows what came last, and only a slave that changed, or one of
\* another session, is drawn again.
DrawsChanges(current, incoming) ==
  LET next == reconcileBusSnapshot(current, incoming) IN
    /\ Plain(next) = Plain(incoming)
    /\ \A slave \in ToSet(next.slaves) :
         slave.ref = "new" <=> current.session # incoming.session
           \/ \A old \in ToSet(current.slaves) : ~equalValue(old, slave)
OnlyChangesAreDrawn ==
  \A current \in SnapshotsOf("old"), incoming \in SnapshotsOf("new") : DrawsChanges(current, incoming)

-----------------------------------------------------------------------------
(* The register list: its search and the rows that are mounted                *)

\* A text of digits is an address, and the start of other addresses.
DigitPrefix(text, address) ==
  address = text \/ (text > 0 /\ \E n \in 1 .. Small : address \div DigitBase ^ n = text)
NoMatch == 4
registerSearchRank(register, address, textMatches) ==
  IF address = register.address THEN 0
  ELSE IF address > register.address /\ address < register.address + register.width THEN 1
  ELSE IF DigitPrefix(address, register.address) THEN 2
  ELSE IF textMatches THEN 3 ELSE NoMatch
RangeMatches(register, from, to) ==
  from <= to /\ register.address <= to /\ register.address + register.width > from
ListedBefore(a, b, address, text) ==
  LET rankA == registerSearchRank(a, address, text[a]) rankB == registerSearchRank(b, address, text[b])
  IN  rankA < rankB \/ (rankA = rankB /\ a.address < b.address)

Holds(register, address) == address \in register.address .. register.address + register.width - 1
\* The register that holds the address the user types comes before every other
\* one, and a range finds exactly the registers with a byte in it.
SearchFindsTheAddress ==
  LET registers == [address : 0 .. 2 * DigitBase, width : 1 .. 2] IN
  \A a, b \in registers, address \in 0 .. 2 * DigitBase :
    /\ Holds(a, address) /\ ~Holds(b, address) =>
         \A text \in [{a, b} -> BOOLEAN] : ListedBefore(a, b, address, text)
    /\ RangeMatches(a, b.address, b.address + b.width - 1) <=>
         \E byte \in b.address .. b.address + b.width - 1 : Holds(a, byte)

MountedRows(count, top, height) ==
  LET first == Greatest(0, top - RowHeight) \div RowHeight
      start == Greatest(0, Least(first - Overscan, count - 1))
      end == Least(count, Ceiling(top + height, RowHeight) + Overscan)
  IN  start .. end - 1
\* Where the table has scrolled to when a key moves to a row.
ScrolledTo(row, top, height) ==
  LET rowTop == row * RowHeight + RowHeight IN
  IF rowTop < top + RowHeight THEN rowTop - RowHeight
  ELSE IF rowTop + RowHeight > top + height THEN rowTop + RowHeight - height ELSE top

\* Pixels of a row that the sticky header and the viewport leave
Visible(row, top, height) ==
  (top + RowHeight .. top + height - 1) \cap (row * RowHeight + RowHeight .. row * RowHeight + 2 * RowHeight - 1)
\* A row that is in view is mounted, and the row that a key moves to is in view as
\* a whole, so that it can take the focus.
VisibleRowsAreMounted ==
  \A count \in 1 .. Small + 2, height \in 2 * RowHeight .. 4 * RowHeight :
    \A top \in 0 .. Greatest(0, (count + 1) * RowHeight - height), row \in 0 .. count - 1 :
      /\ Visible(row, top, height) # {} => row \in MountedRows(count, top, height)
      /\ LET next == ScrolledTo(row, top, height) IN
           /\ next >= 0 /\ Cardinality(Visible(row, next, height)) = RowHeight
           /\ row \in MountedRows(count, next, height)

AlgorithmsAgree ==
  /\ ValuesRoundTrip /\ PagesAgree /\ DifferencesAreExact /\ AddressIsShown
  /\ PortsAreNamedOnce /\ OnlyChangesAreDrawn /\ SearchFindsTheAddress /\ VisibleRowsAreMounted
=============================================================================
