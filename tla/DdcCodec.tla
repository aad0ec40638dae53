------------------------------ MODULE DdcCodec ------------------------------
(***************************************************************************)
(* The pure parts of packages/hardware/src/ddc: reassembling and parsing   *)
(* what a display says of itself, and moving values between the ranges of  *)
(* the display and the ones the desk uses.  Text is a sequence of          *)
(* characters: what arrives may be cut off inside a number.  The case of   *)
(* letters in names, white space around a whole text and the checksums of  *)
(* frames are left out.                                                    *)
(***************************************************************************)
EXTENDS Integers, Sequences, SequencesExt

-----------------------------------------------------------------------------
(* Brightness and power *)

(* Math.round(percent / 100 * max), and the percentage a reading stands for. *)
RawOf(percent, max) == (2 * percent * max + 100) \div 200

PercentOf(raw, max) ==
  LET percent == (200 * raw + max) \div (2 * max)
  IN  IF percent > 100 THEN 100 ELSE percent

(* The values of VCP 0xD6 that stand for a named state, best first. *)
PowerPreferences == [on |-> <<1>>, standby |-> <<2, 3, 4>>, off |-> <<5, 4>>]

Unsupported == 0

(* resolvePowerValue, for a display that supports power and lists these values. *)
ResolvePower(listed, state) ==
  LET best == SelectInSeq(PowerPreferences[state], LAMBDA value : value \in listed)
  IN  IF best # 0 THEN PowerPreferences[state][best]
      ELSE IF listed = {} /\ state = "on" THEN 1 ELSE Unsupported

DescribePower(value) ==
  CASE value = 1 -> "on"
    [] value \in {2, 3} -> "standby"
    [] value \in {4, 5} -> "off"
    [] OTHER -> "unknown"

-----------------------------------------------------------------------------
(* Reassembling a capabilities string *)

Broken == <<"broken">>

(***************************************************************************)
(* readCapabilitiesString: fragments[offset] is what the display answers  *)
(* to a request for that offset, Broken when no whole fragment arrives.    *)
(* The offset in the reply is not looked at.                               *)
(***************************************************************************)
Reassembled(fragments, maxLength, maxRounds) ==
  LET Round[n \in 0..maxRounds] ==  \* the string after n exchanges, and whether to go on
        IF n = 0 THEN [text |-> <<>>, more |-> TRUE]
        ELSE LET before == Round[n - 1]
                 data   == fragments[Len(before.text)]
             IN  CASE ~before.more -> before
                   [] before.more /\ data = Broken -> [text |-> Broken, more |-> FALSE]
                   [] before.more /\ data = <<>> -> [before EXCEPT !.more = FALSE]
                   [] OTHER ->
                        IF Len(before.text) + Len(data) > maxLength
                        THEN [text |-> Broken, more |-> FALSE]
                        ELSE [text |-> before.text \o data, more |-> TRUE]
  IN  Round[maxRounds].text

(* parseCapabilitiesFragment: a reply longer than the read has no whole fragment in it. *)
Arriving(fragment, replyLength) ==
  IF Len(fragment) + 5 > replyLength THEN Broken ELSE fragment

-----------------------------------------------------------------------------
(* Parsing a capabilities string *)

Open == "("
Shut == ")"

(* How deep a text is nested after its first n words, from the first parenthesis on. *)
Depth(text, n) ==
  Len(SelectSeq(SubSeq(text, 1, n), LAMBDA w : w = Open)) -
  Len(SelectSeq(SubSeq(text, 1, n), LAMBDA w : w = Shut))

(* Faulty variant: a group that never closes loses its last character. *)
GroupEnd_Trimmed(text, from) ==
  LET ends == {i \in from..Len(text) : Depth(text, i) = Depth(text, from - 1)}
  IN  IF ends = {} THEN Len(text) ELSE CHOOSE i \in ends : \A other \in ends : i <= other
(* Where the group that opens at from ends: its parenthesis, or past the end if it never does. *)
GroupEnd(text, from) ==
  LET ends == {i \in from..Len(text) : Depth(text, i) = Depth(text, from - 1)}
  IN  IF ends = {} THEN Len(text) + 1 ELSE CHOOSE i \in ends : \A other \in ends : i <= other

StripOuterGroup(text) ==
  CASE text = <<>> \/ text[1] # Open -> text
    [] OTHER -> IF GroupEnd(text, 1) = Len(text) THEN SubSeq(text, 2, Len(text) - 1)
                ELSE IF GroupEnd(text, 1) > Len(text) THEN Tail(text) ELSE text

(* A class of characters: these, or all but these. *)
Only(chars) == [chars |-> chars, has |-> TRUE]
AnyBut(chars) == [chars |-> chars, has |-> FALSE]
In(c, class) == IF class.has THEN c \in class.chars ELSE c \notin class.chars

(* The first position from i on with a character that is not of the class. *)
Past(text, i, class) == Min({k \in i..Len(text) : ~In(text[k], class)} \cup {Len(text) + 1})

(* The hexadecimal digits, and what Number.parseInt makes of a sequence of them. *)
UpperDigits == <<"0", "1", "2", "3", "4", "5", "6", "7", "8", "9", "A", "B", "C", "D", "E", "F">>
LowerDigits == <<"0", "1", "2", "3", "4", "5", "6", "7", "8", "9", "a", "b", "c", "d", "e", "f">>
Hex == {UpperDigits[n] : n \in 1..16} \cup {LowerDigits[n] : n \in 1..16}
Digit(d) == CHOOSE n \in 0..15 : d \in {UpperDigits[n + 1], LowerDigits[n + 1]}
HexValue(digits) ==
  LET First[n \in 0..Len(digits)] == IF n = 0 THEN 0 ELSE 16 * First[n - 1] + Digit(digits[n])
  IN  First[Len(digits)]

(***************************************************************************)
(* The loops of splitSections and parseVcpBody: what to skip before a name *)
(* or a code, what it consists of, and what may come before the group      *)
(* behind it.  White space before a group belongs to a section, a code     *)
(* ends at it; a stray parenthesis is part of a name, and skipped between  *)
(* codes.  Values are what split leaves between white space.               *)
(***************************************************************************)
SectionSyntax == [skip |-> Only({" "}), name |-> AnyBut({" ", Open}), gap |-> Only({" "})]
TableSyntax == [skip |-> AnyBut(Hex), name |-> Only(Hex), gap |-> Only({})]
ValueSyntax == [skip |-> Only({" "}), name |-> AnyBut({" "}), gap |-> Only({})]

(* The entries of a text, each with its name and, if a group follows the name, the body of that. *)
Entries(text, syntax) ==
  LET From[i \in 1..Len(text) + 1] ==
        LET start == Past(text, i, syntax.skip)
            stop  == Past(text, start, syntax.name)
            open  == Past(text, stop, syntax.gap)
            close == GroupEnd(text, open)
            name  == SubSeq(text, start, stop - 1)
        IN  IF start > Len(text) THEN <<>>
            ELSE IF open > Len(text) \/ text[open] # Open
            THEN <<[name |-> name, body |-> <<>>, group |-> FALSE]>> \o From[open]
            ELSE <<[name |-> name, body |-> SubSeq(text, open + 1, close - 1), group |-> TRUE]>> \o
                 From[IF close > Len(text) THEN Len(text) + 1 ELSE close + 1]
  IN  From[1]

(* The first section of a name, as sections.find gives it. *)
FirstGroup(entries, name) ==
  LET found == SelectInSeq(entries, LAMBDA e : e.group /\ e.name = name)
  IN  IF found = 0 THEN <<>> ELSE entries[found].body
SectionBody(text, name) == FirstGroup(Entries(StripOuterGroup(text), SectionSyntax), name)

(* The values of a group: parseInt reads the digits a part begins with, without any it is dropped. *)
Values(body) ==
  LET parts   == Entries(body, ValueSyntax)
      digits  == [n \in DOMAIN parts |->
                    SubSeq(parts[n].name, 1, Past(parts[n].name, 1, Only(Hex)) - 1)]
      numbers == SelectSeq(digits, LAMBDA d : d # <<>>)
  IN  [n \in DOMAIN numbers |-> HexValue(numbers[n])]

(* The VCP table: code -> the values listed for it; the last mention of a code counts. *)
CodeAt(entries, i) == HexValue(entries[i].name)
LastOf(entries, code) ==
  CHOOSE i \in DOMAIN entries :
    CodeAt(entries, i) = code /\ \A j \in DOMAIN entries : CodeAt(entries, j) = code => j <= i
TableOf(entries) ==
  [code \in {CodeAt(entries, i) : i \in DOMAIN entries} |-> Values(entries[LastOf(entries, code)].body)]

Vcp == <<"v", "c", "p">>
Model == <<"m", "o", "d", "e", "l">>
VcpTable(text) == TableOf(Entries(SectionBody(text, Vcp), TableSyntax))

(* VCP_BRIGHTNESS 0x10, VCP_INPUT_SOURCE 0x60, VCP_POWER_MODE 0xd6. *)
BrightnessCode == 16
InputCode == 96
PowerCode == 214

CapabilitiesFromVcp(table) ==
  UNION {{"input-switch", "read-active-input"} : code \in DOMAIN table \cap {InputCode}} \cup
  {"brightness" : code \in DOMAIN table \cap {BrightnessCode}} \cup
  {"power" : code \in DOMAIN table \cap {PowerCode}}

-----------------------------------------------------------------------------
(* Identity *)

Missing == "missing"

(* parseEdid: a serial of zero, or the one a whole production run ships with, tells nothing. *)
Serial(edid) ==
  CASE edid.serial # Missing -> edid.serial
    [] edid.serial = Missing /\ edid.number \in {"0", "0x01010101"} -> Missing
    [] OTHER -> edid.number

(* buildDdcMonitorIdentity and buildMonitorId, as the parts of the id. *)
StableId(edid, described, handle) ==
  LET model == CASE edid.name # Missing -> edid.name
                 [] edid.name = Missing /\ described # Missing -> described
                 [] OTHER -> edid.product
  IN  IF Serial(edid) # Missing
      THEN [maker |-> edid.maker, model |-> model, which |-> Serial(edid), weak |-> FALSE]
      ELSE [maker |-> edid.maker, model |-> model, which |-> handle, weak |-> TRUE]

-----------------------------------------------------------------------------
(***************************************************************************)
(* The read-back of setBrightness confirms every write a display carries   *)
(* out, if it has steps enough: rounding twice stays within the tolerance  *)
(* of 3 for ranges up to 100, from 15 steps on.                            *)
(***************************************************************************)
ReadBackWithinTolerance ==
  \A max \in 15..100, percent \in 0..100 :
    PercentOf(RawOf(percent, max), max) - percent \in -3..3

Letters == <<"a", "b", "c", "d", "e", "f", "g">>

(***************************************************************************)
(* A display that answers each offset with the text from there on is read  *)
(* exactly, in fragments of any size that fits the read, if the exchanges  *)
(* and the length allowed are enough for it.  One that repeats a fragment  *)
(* for ever is read until the exchanges are spent, and given up if that    *)
(* comes to more than the length allowed.                                  *)
(***************************************************************************)
ReaderIsExact ==
  \A length \in 0..Len(Letters), size \in 1..4, rounds \in {2, 8}, max \in {6, 20} :
    LET text == SubSeq(Letters, 1, length)
        upTo(offset) == IF offset + size > length THEN length ELSE offset + size
        honest == [offset \in 0..max |-> Arriving(SubSeq(text, offset + 1, upTo(offset)), 9)]
        repeating == [offset \in 0..max |-> Arriving(SubSeq(Letters, 1, size), 9)]
    IN  /\ length <= size * rounds /\ length <= max => Reassembled(honest, max, rounds) = text
        /\ IF size * rounds > max THEN Reassembled(repeating, max, rounds) = Broken
           ELSE Len(Reassembled(repeating, max, rounds)) = size * rounds

(***************************************************************************)
(* A capabilities string, given as the words it consists of, is read as    *)
(* far as it goes wherever it is cut off: every code that arrived is       *)
(* found, with the values that did; and nothing is found that was not sent *)
(* but for what the cut leaves of the last number, which may be taken for  *)
(* a value of its code, or for a code without values that stands for       *)
(* nothing a display can be asked to do.                                   *)
(***************************************************************************)
TruncationLosesOnlyTheRest(words, model, lists) ==
  LET text == FlattenSeq(words)
      Arrived(cut) == {words[n] : n \in {n \in DOMAIN words : Len(FlattenSeq(SubSeq(words, 1, n))) <= cut}}
      Tells(cut, arrived, part, described) ==
        /\ \A code \in DOMAIN lists :
             (\E word \in arrived : Range(word) \subseteq Hex /\ HexValue(word) = code) =>
               code \in DOMAIN part
        /\ \A code \in DOMAIN part \cap DOMAIN lists :
             LET values == part[code]
             IN  values = <<>> \/ IsPrefix(Front(values), lists[code])
        /\ \A code \in DOMAIN part \ DOMAIN lists : code < 16 /\ part[code] = <<>>
        /\ CapabilitiesFromVcp(part) \subseteq CapabilitiesFromVcp(lists)
        /\ model \in arrived => described = model
        /\ cut = Len(text) => part = lists
  IN  \A cut \in 0..Len(text) :
        Tells(cut, Arrived(cut),
              VcpTable(SubSeq(text, 1, cut)), SectionBody(SubSeq(text, 1, cut), Model))

(***************************************************************************)
(* Agents on different platforms, with other handles and luck in reading   *)
(* the capabilities, give a display with a name and a serial one id; and   *)
(* two displays that only differ in their handles keep two ids.            *)
(***************************************************************************)
Edids == [maker : {"AUS"}, product : {"276D"}, name : {"PA278CV", Missing},
          serial : {"S1", Missing}, number : {"0", "0x01010101", "77"}]

IdentityIsStable ==
  \A edid \in Edids, described \in {"PA278", Missing} :
    /\ edid.name # Missing /\ Serial(edid) # Missing =>
         StableId(edid, described, "windows") = StableId(edid, Missing, "mac")
    /\ Serial(edid) = Missing =>
         StableId(edid, described, "left") # StableId(edid, described, "right")

=============================================================================
