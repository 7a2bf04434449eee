------------------------------ MODULE Terminal ------------------------------
(***************************************************************************)
(* Keyboard input: kscanf, which the keyboard interrupt runs, fills the    *)
(* line buffer terminal_buf; check_for_ip, which a read of descriptor 0    *)
(* runs with interrupts on, polls the buffer, copies it out and resets it. *)
(* A key is handled with interrupts off, so it is one step; the reader is  *)
(* split wherever a key can come between.  There is one reader: it polls   *)
(* without calling schedule().                                             *)
(*                                                                         *)
(* mem is the memory around terminal_buf: byte 0 is its first byte, the    *)
(* bytes below belong to someone else.  pos is address_of_buf as an        *)
(* offset.  Echo on the screen is left out, and so are key releases, which *)
(* kscanf ignores.                                                         *)
(***************************************************************************)
EXTENDS Integers, Sequences, FiniteSetsExt

CONSTANTS
  SIZE,       \* bytes of the buffer (1024 in the code)
  Keys,       \* keys of the keyboard
  Wants,      \* sizes readers ask for; 0 is a whole line
  MaxKeys     \* bound: keys pressed

Modifiers == {"caps", "shift", "ctrl"}
(* "dead" stands for the keys whose entry in scantochar is 0: escape, tab, *)
(* the function and arrow keys.                                            *)
Special == Modifiers \cup {"enter", "back", "dead"}
Letters == Keys \ Special

ASSUME SizeAssumption == SIZE \in Nat \ {0}
ASSUME WantsAssumption == Wants \subseteq Nat
ASSUME MaxKeysAssumption == MaxKeys \in Nat

VARIABLES
  mem, pos, size,      \* terminal_buf and the bytes around it, address_of_buf
  controlflag,         \* the modifiers in force
  pc, want, len, got,  \* the reader: place, size_ip, size, what it copied
  presses,             \* keys pressed so far
  text,                \* keys pressed, not discarded and not read (history)
  spoiled              \* which of the Causes have happened since the buffer
                       \* was last discarded by a key (history)

line == <<mem, pos, size>>
reader == <<pc, want, len, got>>
vars == <<mem, pos, size, controlflag, pc, want, len, got, presses,
          text, spoiled>>

(* A character is a key and the table that translated it.                  *)
NUL == <<"nul", "plain">>
NL == <<"enter", "plain">>
CARET == <<"caret", "plain">>
FOREIGN == <<"foreign", "plain">>     \* a byte that is not terminal input
Tables == {"plain", "upper", "ctrl"}
Chars == {NUL, NL, CARET, FOREIGN} \cup (Letters \X Tables)

Bytes == -(MaxKeys + 2)..(2 * MaxKeys + 2)

Line == [mem |-> mem, pos |-> pos, size |-> size]

-----------------------------------------------------------------------------
(* Faulty: the last byte of the buffer is never counted.                   *)
LengthWithin(m) == Min({SIZE - 1} \cup {i \in Bytes : i >= 0 /\ m[i] = NUL})

(* get_terminal_size: the bytes before the first 0.                        *)
get_terminal_size(m) == Min({i \in Bytes : i >= 0 /\ m[i] = NUL})

Copied(m, n) == [i \in 1..n |-> m[i - 1]]
Contents == Copied(mem, get_terminal_size(mem))

(* initialize_keyboard_buffer: the page is fresh; below it lie some bytes  *)
(* that are not 0, kscanf looks no further than the first 0.               *)
Init ==
  /\ \E n \in 0..(MaxKeys + 2) :
       mem = [i \in Bytes |-> IF i \in (-n)..(-1) THEN FOREIGN ELSE NUL]
  /\ pos = 0 /\ size = 0
  /\ controlflag = {}
  /\ pc = "idle" /\ want = 0 /\ len = 0 /\ got = <<>>
  /\ presses = 0
  /\ text = <<>>
  /\ spoiled = {}

-----------------------------------------------------------------------------
(* kscanf.                                                                 *)

Wiped(m, first) ==
  [i \in Bytes |-> IF i \in first..(first + SIZE - 1) THEN NUL ELSE m[i]]

(* Faulty: the pointer is not set back.                                    *)
ResetBytesOnly(r) == [r EXCEPT !.mem = Wiped(r.mem, 0), !.size = 0]

reset_terminal(r) == [mem |-> Wiped(r.mem, 0), pos |-> 0, size |-> 0]

(* Faulty: size is not looked at.                                          *)
PutAlways(r, c) ==
  [r EXCEPT !.mem = [@ EXCEPT ![r.pos] = c, ![r.pos + 1] = NUL]]

(* A character and the 0 behind it, unless erasing has made size negative. *)
Put(r, c) ==
  IF r.size >= 0
  THEN [r EXCEPT !.mem = [@ EXCEPT ![r.pos] = c, ![r.pos + 1] = NUL]]
  ELSE r

(* With control, a caret takes a byte that size does not count.            *)
PutCaret(r) ==
  IF r.size >= 0
  THEN [r EXCEPT !.mem = [@ EXCEPT ![r.pos] = CARET], !.pos = @ + 1]
  ELSE r

(* Backspace goes back twice, since the end of kscanf goes forward once.   *)
Erase(r) ==
  [r EXCEPT !.mem = [@ EXCEPT ![r.pos - 1] = NUL],
            !.pos = @ - 2, !.size = @ - 2]

(* The end of kscanf: forward over a byte that is not 0 while there is     *)
(* room, else the line is discarded.                                       *)
Advances(r) == r.size # SIZE /\ r.mem[r.pos] # NUL
Settle(r) ==
  IF Advances(r) THEN [r EXCEPT !.pos = @ + 1, !.size = @ + 1]
  ELSE reset_terminal(r)

Table ==
  IF "ctrl" \in controlflag THEN "ctrl"
  ELSE IF controlflag \cap {"shift", "caps"} # {} THEN "upper"
  ELSE "plain"

(* Faulty: a key without a character has one.                              *)
RawGlyph(k) == <<k, Table>>

Glyph(k) == IF k = "dead" THEN NUL ELSE <<k, Table>>

(* Control and shift hold for one key; control hides shift.                *)
FlagsAfterGlyph ==
  IF "ctrl" \in controlflag THEN controlflag \ {"ctrl"}
  ELSE controlflag \ {"shift"}

(* The line before Settle.                                                 *)
Typed(k) ==
  CASE k = "back" -> Erase(Line)
    [] k = "enter" -> Put(Line, NL)
    [] "ctrl" \in controlflag /\ k \notin {"back", "enter"} ->
         Put(PutCaret(Line), Glyph(k))
    [] OTHER -> Put(Line, Glyph(k))

(* Faulty: the byte behind the line is tested.                             *)
TakingOffByOne ==
  \/ pc \in {"copy", "rewind", "wipe", "zero"}
  \/ pc = "test" /\ IF want = 0 THEN mem[len] = NL ELSE len = want

(* The reader has seen what it waits for and is about to take it.          *)
Taking ==
  \/ pc \in {"copy", "rewind", "wipe", "zero"}
  \/ pc = "test" /\ IF want = 0 THEN mem[len - 1] = NL ELSE len = want

(* The text after key k: the key discards, erases or appends.              *)
Expected(k) ==
  IF ~Advances(Typed(k)) THEN <<>>
  ELSE CASE k = "back" -> SubSeq(text, 1, Len(text) - 1)
         [] k = "enter" -> Append(text, NL)
         [] OTHER -> Append(text, Glyph(k))

(* What makes the buffer differ from the text: a key while the reader      *)
(* takes the line, an erase on an empty line, a control character.         *)
Causes == {"race", "erase", "ctrl"}
Spoils(k) ==
  {c \in Causes :
     \/ c = "race" /\ Taking
     \/ c = "erase" /\ k = "back" /\ text = <<>>
     \/ c = "ctrl" /\ k \notin {"back", "enter"} /\ c \in controlflag}

PressModifier(k) ==
  /\ controlflag' = IF k = "caps" /\ k \in controlflag
                    THEN controlflag \ {k} ELSE controlflag \cup {k}
  /\ UNCHANGED <<line, text, spoiled>>

PressOther(k) ==
  LET r == Settle(Typed(k))
  IN  /\ mem' = r.mem /\ pos' = r.pos /\ size' = r.size
      /\ controlflag' = IF k \in {"back", "enter"} THEN controlflag
                        ELSE FlagsAfterGlyph
      /\ text' = Expected(k)
      /\ spoiled' = IF Advances(Typed(k)) THEN spoiled \cup Spoils(k)
                    ELSE Spoils(k) \cap {"race"}

(* interrupt1: a key is pressed.                                           *)
interrupt1 ==
  /\ presses < MaxKeys
  /\ presses' = presses + 1
  /\ \E k \in Keys :
       \/ k \in Modifiers /\ PressModifier(k)
       \/ k \notin Modifiers /\ PressOther(k)
  /\ UNCHANGED reader

-----------------------------------------------------------------------------
(* check_for_ip.                                                           *)

Read ==
  /\ pc = "idle"
  /\ pc' = "scan"
  /\ want' \in Wants
  /\ got' = <<>> /\ len' = 0
  /\ UNCHANGED <<line, controlflag, presses, text, spoiled>>

Scan ==
  /\ pc = "scan"
  /\ pc' = "test"
  /\ len' = get_terminal_size(mem)
  /\ UNCHANGED <<line, controlflag, want, got, presses, text, spoiled>>

Test ==
  /\ pc = "test"
  /\ pc' = IF Taking THEN "copy" ELSE "scan"
  /\ UNCHANGED <<line, controlflag, want, len, got, presses, text, spoiled>>

(* kmemcpychar copies len bytes, kstrncopy stops at a 0.                   *)
Copy ==
  /\ pc = "copy"
  /\ pc' = "rewind"
  /\ got' = Copied(mem, IF want = 0 THEN len
                        ELSE Min({len, get_terminal_size(mem)}))
  /\ text' = SubSeq(text, Len(got') + 1, Len(text))
  /\ UNCHANGED <<line, controlflag, want, len, presses, spoiled>>

(* The three parts of reset_terminal.                                      *)
Rewind ==
  /\ pc = "rewind"
  /\ pc' = "wipe"
  /\ pos' = 0
  /\ UNCHANGED <<mem, size, controlflag, want, len, got, presses, text, spoiled>>

(* The loop goes through address_of_buf, which a key may have moved; the   *)
(* build may read it once, before the loop, or on every turn.              *)
Wipe ==
  /\ pc = "wipe"
  /\ pc' = "zero"
  /\ \E first \in {0, pos} : mem' = Wiped(mem, first)
  /\ UNCHANGED <<pos, size, controlflag, want, len, got, presses, text, spoiled>>

Zero ==
  /\ pc = "zero"
  /\ pc' = "idle"
  /\ size' = 0
  /\ len' = 0
  /\ UNCHANGED <<mem, pos, controlflag, want, got, presses, text, spoiled>>

check_for_ip == Scan \/ Test \/ Copy \/ Rewind \/ Wipe \/ Zero

Next == interrupt1 \/ Read \/ check_for_ip

(* The reader runs: it is the current thread, and keys come finitely often *)
(* between two of its instructions.                                        *)
Spec == Init /\ [][Next]_vars /\ WF_vars(check_for_ip)

-----------------------------------------------------------------------------
(* The buffer and the reader hold values of their kinds; pos stays among   *)
(* the bytes MaxKeys keys can reach.                                       *)
TypeOK ==
  /\ mem \in [Bytes -> Chars]
  /\ pos \in Bytes /\ size \in Int
  /\ controlflag \subseteq Modifiers
  /\ pc \in {"idle", "scan", "test", "copy", "rewind", "wipe", "zero"}
  /\ want \in Wants \cup {0} /\ len \in Nat
  /\ got \in Seq(Chars) /\ text \in Seq(Chars)
  /\ presses \in 0..MaxKeys
  /\ spoiled \subseteq Causes

(* While no line is being taken, the buffer, its length and both positions *)
(* agree with what the user typed, unless a key came while a line was      *)
(* being taken, a backspace hit an empty line, or a control character was  *)
(* typed since the buffer was last discarded.  A full buffer or a key      *)
(* without a character discards the line and repairs whatever was wrong    *)
(* (kscanf's call of reset_terminal).                                      *)
LineIntact ==
  spoiled = {} /\ pc \in {"idle", "scan", "test", "copy"} =>
    Contents = text /\ pos = Len(text) /\ size = Len(text)

(* What check_for_ip copies is everything typed since the last read, under *)
(* the same conditions: no part of the line is left for the reset to wipe. *)
(* A length counted before a key discarded the buffer may be that of a     *)
(* spoiled line; if it is more than the buffer holds, a newline behind the *)
(* buffer can end the wait.                                                *)
ReadsWholeText ==
  [][ pc = "copy" /\ pc' = "rewind" /\ spoiled = {} /\ len <= SIZE
        => got' = text ]_vars

(* A character is never written below the buffer: however often backspace  *)
(* is pressed on an empty line, kscanf puts only zeros there, as long as   *)
(* no key has come while a line was being taken.                           *)
OnlyErasedBelow ==
  [][ "race" \notin spoiled \cup spoiled' =>
        \A i \in Bytes : i < 0 => mem'[i] \in {mem[i], NUL} ]_vars

(* The bytes of terminal_buf end with a newline and a reader waits for a   *)
(* line.                                                                   *)
LineWaits ==
  /\ pc \in {"scan", "test"} /\ want = 0
  /\ Contents # <<>> /\ Contents[Len(Contents)] = NL

(* A complete line does not stay in the buffer while a reader polls: it is *)
(* taken, or another key changes it.                                       *)
LineIsTaken == LineWaits ~> ~LineWaits

(* Every key pressed is in the buffer or has been read: between reads the *)
(* buffer holds the text.  ("Keeps track of the key which was pressed",    *)
(* idt.c:172.)                                                             *)
KeyIsKept == pc \in {"idle", "scan"} => Contents = text
=============================================================================
