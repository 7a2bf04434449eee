--------------------------- MODULE TerminalProofs ---------------------------
(***************************************************************************)
(* Proofs about keyboard input, for a buffer of any size, any number of    *)
(* keys and any sizes asked for.  Keys come between any two steps of the   *)
(* reader.                                                                 *)
(***************************************************************************)
EXTENDS Terminal, ListLemmas

USE SizeAssumption, WantsAssumption, MaxKeysAssumption

(* How far keys move the pointer, and that the bytes behind are zero: the  *)
(* count of get_terminal_size ends.                                        *)
Reach ==
  /\ pos \in (-presses)..(2 * presses)
  /\ size <= SIZE
  /\ len \in 0..(2 * MaxKeys + 1)
  /\ \A i \in Bytes : i > 2 * presses => mem[i] = NUL

(* Places of the reader before it resets the buffer.                       *)
Before == {"idle", "scan", "test", "copy"}

(* The buffer, up to the first zero, is the text.                          *)
Whole ==
  /\ pos = Len(text) /\ size = Len(text)
  /\ \A i \in 1..Len(text) : text[i] # NUL /\ mem[i - 1] = text[i]
  /\ mem[Len(text)] = NUL

Intact == spoiled = {} /\ pc \in Before => Whole

(* A reader that is about to take the line has counted all of it.          *)
Counted ==
  /\ spoiled = {} /\ Taking /\ pc \in {"test", "copy"}
  /\ want # 0 \/ len <= SIZE
  => len = Len(text)

(* What is left while the buffer is being reset.                           *)
Reset ==
  spoiled = {} =>
    /\ pc \in {"rewind", "wipe", "zero"} => text = <<>>
    /\ pc \in {"wipe", "zero"} => pos = 0
    /\ pc = "zero" => mem[0] = NUL

(* The pointer lies below the buffer only when size is negative, too.      *)
Below ==
  "race" \notin spoiled =>
    /\ pc \in Before => pos >= size
    /\ pc \in {"wipe", "zero"} => pos = 0

IInv == TypeOK /\ Reach /\ Intact /\ Counted /\ Reset /\ Below

-----------------------------------------------------------------------------
(* Characters                                                              *)

LEMMA CharsDiffer == NUL # NL /\ NUL # CARET /\ NUL # FOREIGN /\ NL # CARET
BY DEF NUL, NL, CARET, FOREIGN

LEMMA CharsIn ==
  /\ NUL \in Chars /\ NL \in Chars /\ CARET \in Chars /\ FOREIGN \in Chars
BY DEF Chars

(* A key that is not a modifier, backspace or enter puts a character that  *)
(* is no newline.                                                          *)
LEMMA GlyphTyped ==
  ASSUME NEW k \in Keys, k \notin Modifiers, k # "back", k # "enter"
  PROVE  Glyph(k) \in Chars /\ Glyph(k) # NL
<1>1. Table \in Tables
  BY Zenon DEF Table, Tables
<1>2. CASE k = "dead"
  BY <1>2, CharsDiffer, CharsIn DEF Glyph
<1>3. CASE k # "dead"
  <2>1. k \in Letters
    BY <1>3 DEF Letters, Special
  <2> DEFINE t == Table
             g == <<k, t>>
  <2>2. Glyph(k) = g
    BY <1>3 DEF Glyph
  <2> HIDE DEF t
  <2>3. g \in Letters \X Tables
    BY <1>1, <2>1 DEF t
  <2>4. g # NL
    BY DEF NL
  <2> QED BY <2>2, <2>3, <2>4 DEF Chars
<1> QED
  BY <1>2, <1>3

(* Where the bytes of terminal_buf end.                                    *)
LEMMA SizeIsFirst ==
  ASSUME NEW m, NEW z \in Bytes, z >= 0, m[z] = NUL
  PROVE  /\ get_terminal_size(m) \in Bytes
         /\ get_terminal_size(m) >= 0 /\ get_terminal_size(m) <= z
         /\ m[get_terminal_size(m)] = NUL
         /\ \A i \in Bytes : i >= 0 /\ m[i] = NUL => get_terminal_size(m) <= i
<1> DEFINE S == {i \in Bytes : i >= 0 /\ m[i] = NUL}
<1>1. S \in SUBSET Nat /\ S # {}
  BY DEF Bytes
<1>2. \A i \in S : i \in Bytes /\ i >= 0 /\ m[i] = NUL
  OBVIOUS
<1>3. get_terminal_size(m) = Min(S)
  BY DEF get_terminal_size
<1>4. z \in S /\ \A i \in Bytes : i >= 0 /\ m[i] = NUL => i \in S
  OBVIOUS
<1> HIDE DEF S
<1>5. Min(S) \in S /\ \A y \in S : Min(S) <= y
  BY <1>1, MinOfNat
<1> QED
  BY <1>2, <1>3, <1>4, <1>5

(* The buffer that Whole describes.                                        *)
LEMMA WholeSize ==
  ASSUME TypeOK, Whole
  PROVE  /\ get_terminal_size(mem) = Len(text)
         /\ Copied(mem, Len(text)) = text
<1> DEFINE n == Len(text)
           g == get_terminal_size(mem)
<1>1. text \in Seq(Chars) /\ n \in Nat /\ n \in Bytes /\ mem[n] = NUL
  BY DEF TypeOK, Whole
<1>2. \A i \in 0..(n - 1) : mem[i] # NUL /\ mem[i] = text[i + 1]
  <2> SUFFICES ASSUME NEW i \in 0..(n - 1)
               PROVE  mem[i] # NUL /\ mem[i] = text[i + 1]
    OBVIOUS
  <2>1. i + 1 \in 1..n /\ (i + 1) - 1 = i
    BY <1>1
  <2> QED BY <2>1 DEF Whole
<1>3. g \in Bytes /\ g >= 0 /\ g <= n /\ mem[g] = NUL
  <2> HIDE DEF n
  <2> QED BY <1>1, SizeIsFirst
<1>4. g = n
  <2>1. g \in Int
    BY <1>3 DEF Bytes
  <2> HIDE DEF g, n
  <2> QED BY <1>1, <1>2, <1>3, <2>1
<1>5. Copied(mem, n) = [i \in 1..n |-> text[i]]
  BY <1>1 DEF Copied, Whole
<1>6. text = [i \in 1..n |-> text[i]]
  BY <1>1
<1> QED
  BY <1>4, <1>5, <1>6

-----------------------------------------------------------------------------
(* A key                                                                   *)

IsLine(r) ==
  /\ r = [mem |-> r.mem, pos |-> r.pos, size |-> r.size]
  /\ r.mem \in [Bytes -> Chars] /\ r.pos \in Bytes /\ r.size \in Int

LEMMA LineIs ==
  ASSUME TypeOK
  PROVE  /\ IsLine(Line) /\ Line.mem = mem /\ Line.pos = pos
         /\ Line.size = size
<1>1. Line.mem = mem /\ Line.pos = pos /\ Line.size = size
  BY DEF Line
<1>2. Line = [mem |-> Line.mem, pos |-> Line.pos, size |-> Line.size]
  BY DEF Line
<1> QED
  BY <1>1, <1>2 DEF TypeOK, IsLine

(* What Put leaves.                                                        *)
LEMMA PutIs ==
  ASSUME NEW r, IsLine(r), NEW c \in Chars, r.pos + 1 \in Bytes
  PROVE  /\ IsLine(Put(r, c)) /\ Put(r, c).pos = r.pos
         /\ Put(r, c).size = r.size
         /\ r.size < 0 => Put(r, c).mem = r.mem
         /\ r.size >= 0 =>
              \A i \in Bytes : Put(r, c).mem[i] =
                IF i = r.pos THEN c ELSE IF i = r.pos + 1 THEN NUL ELSE r.mem[i]
<1> DEFINE m == [r.mem EXCEPT ![r.pos] = c, ![r.pos + 1] = NUL]
           q == [mem |-> m, pos |-> r.pos, size |-> r.size]
<1>1. /\ r.mem \in [Bytes -> Chars] /\ r.pos \in Bytes /\ r.size \in Int
      /\ r.pos \in Int
  BY DEF IsLine, Bytes
<1>2. CASE r.size < 0
  <2>1. Put(r, c) = r
    BY <1>1, <1>2 DEF Put
  <2> QED BY <1>1, <1>2, <2>1
<1>3. CASE r.size >= 0
  <2>1. Put(r, c) = [r EXCEPT !.mem = m]
    BY <1>3 DEF Put
  <2>2. m \in [Bytes -> Chars]
    BY <1>1, CharsIn
  <2>3. \A i \in Bytes : m[i] = IF i = r.pos THEN c
                                ELSE IF i = r.pos + 1 THEN NUL ELSE r.mem[i]
    BY <1>1
  <2> HIDE DEF m
  <2>4. Put(r, c) = q
    BY <2>1 DEF IsLine
  <2>5. q.mem = m /\ q.pos = r.pos /\ q.size = r.size
        /\ q = [mem |-> q.mem, pos |-> q.pos, size |-> q.size]
    OBVIOUS
  <2> HIDE DEF q
  <2>6. IsLine(q)
    BY <1>1, <2>2, <2>5 DEF IsLine
  <2> QED BY <1>1, <1>3, <2>3, <2>4, <2>5, <2>6
<1> QED
  BY <1>1, <1>2, <1>3

(* What PutCaret leaves.                                                   *)
LEMMA PutCaretIs ==
  ASSUME NEW r, IsLine(r), r.pos + 1 \in Bytes
  PROVE  /\ IsLine(PutCaret(r)) /\ PutCaret(r).size = r.size
         /\ r.size < 0 => PutCaret(r).mem = r.mem /\ PutCaret(r).pos = r.pos
         /\ r.size >= 0 =>
              /\ PutCaret(r).pos = r.pos + 1
              /\ \A i \in Bytes : PutCaret(r).mem[i] =
                   IF i = r.pos THEN CARET ELSE r.mem[i]
<1> DEFINE m == [r.mem EXCEPT ![r.pos] = CARET]
           q == [mem |-> m, pos |-> r.pos + 1, size |-> r.size]
<1>1. /\ r.mem \in [Bytes -> Chars] /\ r.pos \in Bytes /\ r.size \in Int
      /\ r.pos \in Int
  BY DEF IsLine, Bytes
<1>2. CASE r.size < 0
  <2>1. PutCaret(r) = r
    BY <1>1, <1>2 DEF PutCaret
  <2> QED BY <1>1, <1>2, <2>1
<1>3. CASE r.size >= 0
  <2>1. PutCaret(r) = [r EXCEPT !.mem = m, !.pos = r.pos + 1]
    BY <1>3 DEF PutCaret
  <2>2. m \in [Bytes -> Chars]
    BY <1>1, CharsIn
  <2>3. \A i \in Bytes : m[i] = IF i = r.pos THEN CARET ELSE r.mem[i]
    BY <1>1
  <2> HIDE DEF m
  <2>4. PutCaret(r) = q
    BY <2>1 DEF IsLine
  <2>5. q.mem = m /\ q.pos = r.pos + 1 /\ q.size = r.size
        /\ q = [mem |-> q.mem, pos |-> q.pos, size |-> q.size]
    OBVIOUS
  <2> HIDE DEF q
  <2>6. IsLine(q)
    BY <1>1, <2>2, <2>5 DEF IsLine
  <2> QED BY <1>1, <1>3, <2>3, <2>4, <2>5, <2>6
<1> QED
  BY <1>1, <1>2, <1>3

(* What Erase leaves.                                                      *)
LEMMA EraseIs ==
  ASSUME NEW r, IsLine(r), r.pos - 2 \in Bytes
  PROVE  /\ IsLine(Erase(r)) /\ Erase(r).pos = r.pos - 2
         /\ Erase(r).size = r.size - 2
         /\ \A i \in Bytes : Erase(r).mem[i] =
              IF i = r.pos - 1 THEN NUL ELSE r.mem[i]
<1> DEFINE m == [r.mem EXCEPT ![r.pos - 1] = NUL]
           q == [mem |-> m, pos |-> r.pos - 2, size |-> r.size - 2]
<1>1. /\ r.mem \in [Bytes -> Chars] /\ r.pos \in Bytes /\ r.size \in Int
      /\ r.pos \in Int
  BY DEF IsLine, Bytes
<1>2. Erase(r) = [r EXCEPT !.mem = m, !.pos = r.pos - 2, !.size = r.size - 2]
  BY DEF Erase
<1>3. m \in [Bytes -> Chars]
  BY <1>1, CharsIn
<1>4. \A i \in Bytes : m[i] = IF i = r.pos - 1 THEN NUL ELSE r.mem[i]
  BY <1>1
<1> HIDE DEF m
<1>5. Erase(r) = q
  BY <1>2 DEF IsLine
<1>6. q.mem = m /\ q.pos = r.pos - 2 /\ q.size = r.size - 2
      /\ q = [mem |-> q.mem, pos |-> q.pos, size |-> q.size]
  OBVIOUS
<1> HIDE DEF q
<1>7. IsLine(q)
  BY <1>1, <1>3, <1>6 DEF IsLine
<1> QED
  BY <1>4, <1>5, <1>6, <1>7

(* The character a key other than backspace puts.                          *)
Mark(k) == IF k = "enter" THEN NL ELSE Glyph(k)

(* The cases of Typed.                                                     *)
LEMMA TypedCases ==
  ASSUME NEW k \in Keys, k \notin Modifiers
  PROVE  /\ k = "back" => Typed(k) = Erase(Line)
         /\ k # "back" /\ (k = "enter" \/ "ctrl" \notin controlflag)
              => Typed(k) = Put(Line, Mark(k))
         /\ k # "back" /\ k # "enter" /\ "ctrl" \in controlflag
              => Typed(k) = Put(PutCaret(Line), Mark(k))
         /\ k # "back" => Mark(k) \in Chars
<1>0. "enter" # "back"
  OBVIOUS
<1>1. k = "back" => Typed(k) = Erase(Line)
  BY <1>0, Zenon DEF Typed
<1>2. k = "enter" => Typed(k) = Put(Line, NL)
  BY <1>0, Zenon DEF Typed
<1>3. ASSUME k # "back", k # "enter", "ctrl" \in controlflag
      PROVE  Typed(k) = Put(PutCaret(Line), Glyph(k))
  BY <1>3, Zenon DEF Typed
<1>4. ASSUME k # "back", k # "enter", "ctrl" \notin controlflag
      PROVE  Typed(k) = Put(Line, Glyph(k))
  BY <1>4, Zenon DEF Typed
<1>5. k # "back" => Mark(k) \in Chars
  BY GlyphTyped, CharsIn DEF Mark
<1> QED
  BY <1>1, <1>2, <1>3, <1>4, <1>5, Zenon DEF Mark

(* Backspace.                                                              *)
LEMMA TypedBack ==
  ASSUME TypeOK, Reach, presses < MaxKeys, "back" \in Keys
  PROVE  /\ IsLine(Typed("back"))
         /\ Typed("back").pos = pos - 2 /\ Typed("back").size = size - 2
         /\ \A i \in Bytes : Typed("back").mem[i] =
              IF i = pos - 1 THEN NUL ELSE mem[i]
<1>1. "back" \notin Modifiers
  BY DEF Modifiers
<1>2. Typed("back") = Erase(Line)
  BY <1>1, TypedCases
<1>3. pos - 2 \in Bytes
  BY DEF TypeOK, Reach, Bytes
<1>4. IsLine(Line) /\ Line.mem = mem /\ Line.pos = pos /\ Line.size = size
  BY LineIs
<1> QED
  BY <1>2, <1>3, <1>4, EraseIs

(* A key that puts one character.                                          *)
LEMMA TypedPlain ==
  ASSUME TypeOK, Reach, presses < MaxKeys, NEW k \in Keys, k \notin Modifiers,
         k # "back", k = "enter" \/ "ctrl" \notin controlflag
  PROVE  /\ IsLine(Typed(k)) /\ Typed(k).pos = pos /\ Typed(k).size = size
         /\ size < 0 => Typed(k).mem = mem
         /\ size >= 0 =>
              \A i \in Bytes : Typed(k).mem[i] =
                IF i = pos THEN Mark(k) ELSE IF i = pos + 1 THEN NUL ELSE mem[i]
<1>1. Typed(k) = Put(Line, Mark(k)) /\ Mark(k) \in Chars
  BY TypedCases
<1>2. pos + 1 \in Bytes
  BY DEF TypeOK, Reach, Bytes
<1>3. IsLine(Line) /\ Line.mem = mem /\ Line.pos = pos /\ Line.size = size
  BY LineIs
<1> QED
  BY <1>1, <1>2, <1>3, PutIs

(* A key that control precedes: a caret and a character.                   *)
LEMMA TypedControl ==
  ASSUME TypeOK, Reach, presses < MaxKeys, NEW k \in Keys, k \notin Modifiers,
         k # "back", k # "enter", "ctrl" \in controlflag
  PROVE  /\ IsLine(Typed(k)) /\ Typed(k).size = size
         /\ size < 0 => Typed(k).mem = mem /\ Typed(k).pos = pos
         /\ size >= 0 =>
              /\ Typed(k).pos = pos + 1
              /\ \A i \in Bytes : /\ i < pos => Typed(k).mem[i] = mem[i]
                                  /\ i > pos + 1 => Typed(k).mem[i] \in {mem[i], NUL}
<1> DEFINE r == PutCaret(Line)
<1>1. Typed(k) = Put(r, Mark(k)) /\ Mark(k) \in Chars
  BY TypedCases
<1>2. pos + 1 \in Bytes /\ pos + 2 \in Bytes /\ pos \in Int /\ size \in Int
  BY DEF TypeOK, Reach, Bytes
<1>3. IsLine(Line) /\ Line.mem = mem /\ Line.pos = pos /\ Line.size = size
  BY LineIs
<1>4. /\ IsLine(r) /\ r.size = size
      /\ size < 0 => r.mem = mem /\ r.pos = pos
      /\ size >= 0 => /\ r.pos = pos + 1
                      /\ \A i \in Bytes : r.mem[i] = IF i = pos THEN CARET ELSE mem[i]
  BY <1>2, <1>3, PutCaretIs
<1>5. r.pos + 1 \in Bytes
  BY <1>2, <1>4
<1> HIDE DEF r
<1>6. /\ IsLine(Typed(k)) /\ Typed(k).pos = r.pos /\ Typed(k).size = r.size
      /\ r.size < 0 => Typed(k).mem = r.mem
      /\ r.size >= 0 =>
           \A i \in Bytes : Typed(k).mem[i] =
             IF i = r.pos THEN Mark(k) ELSE IF i = r.pos + 1 THEN NUL ELSE r.mem[i]
  BY <1>1, <1>4, <1>5, PutIs
<1>7. Bytes \subseteq Int
  BY DEF Bytes
<1> QED
  BY <1>2, <1>4, <1>6, <1>7

(* What every key leaves before Settle: the pointer within reach, zeros    *)
(* behind it, and below the buffer no new character.                       *)
LEMMA TypedReach ==
  ASSUME TypeOK, Reach, presses < MaxKeys, NEW k \in Keys, k \notin Modifiers
  PROVE  /\ IsLine(Typed(k))
         /\ Typed(k).pos \in (-presses - 2)..(2 * presses + 1)
         /\ Typed(k).size <= SIZE
         /\ \A i \in Bytes : i > 2 * presses + 1 => Typed(k).mem[i] = NUL
         /\ pos >= size =>
              \A i \in Bytes : i < 0 => Typed(k).mem[i] \in {mem[i], NUL}
<1> DEFINE r == Typed(k)
<1>1. /\ pos \in (-presses)..(2 * presses) /\ size \in Int /\ size <= SIZE
      /\ presses \in Nat /\ Bytes \subseteq Int
      /\ \A i \in Bytes : i > 2 * presses => mem[i] = NUL
  BY DEF TypeOK, Reach, Bytes
<1>2. CASE k = "back"
  <2>1. /\ IsLine(r) /\ r.pos = pos - 2 /\ r.size = size - 2
        /\ \A i \in Bytes : r.mem[i] = IF i = pos - 1 THEN NUL ELSE mem[i]
    BY <1>2, TypedBack
  <2> HIDE DEF r
  <2>2. r.pos \in (-presses - 2)..(2 * presses + 1) /\ r.size <= SIZE
    BY <1>1, <2>1
  <2>3. \A i \in Bytes : i > 2 * presses + 1 => r.mem[i] = NUL
    BY <1>1, <2>1
  <2>4. \A i \in Bytes : i < 0 => r.mem[i] \in {mem[i], NUL}
    BY <2>1
  <2> QED BY <2>1, <2>2, <2>3, <2>4 DEF r
<1>3. CASE k # "back" /\ (k = "enter" \/ "ctrl" \notin controlflag)
  <2> DEFINE c == Mark(k)
  <2>1. /\ IsLine(r) /\ r.pos = pos /\ r.size = size
        /\ size < 0 => r.mem = mem
        /\ size >= 0 =>
             \A i \in Bytes : r.mem[i] =
               IF i = pos THEN c ELSE IF i = pos + 1 THEN NUL ELSE mem[i]
    BY <1>3, TypedPlain
  <2> HIDE DEF r, c
  <2>2. r.pos \in (-presses - 2)..(2 * presses + 1) /\ r.size <= SIZE
    BY <1>1, <2>1
  <2>3. \A i \in Bytes : i > 2 * presses + 1 => r.mem[i] = NUL
    BY <1>1, <2>1
  <2>4. pos >= size => \A i \in Bytes : i < 0 => r.mem[i] \in {mem[i], NUL}
    BY <1>1, <2>1
  <2> QED BY <2>1, <2>2, <2>3, <2>4 DEF r
<1>4. CASE k # "back" /\ k # "enter" /\ "ctrl" \in controlflag
  <2>1. /\ IsLine(r) /\ r.size = size
        /\ size < 0 => r.mem = mem /\ r.pos = pos
        /\ size >= 0 =>
             /\ r.pos = pos + 1
             /\ \A i \in Bytes : /\ i < pos => r.mem[i] = mem[i]
                                 /\ i > pos + 1 => r.mem[i] \in {mem[i], NUL}
    BY <1>4, TypedControl
  <2> HIDE DEF r
  <2>2. r.pos \in (-presses - 2)..(2 * presses + 1) /\ r.size <= SIZE
    BY <1>1, <2>1
  <2>3. \A i \in Bytes : i > 2 * presses + 1 => r.mem[i] = NUL
    BY <1>1, <2>1
  <2>4. pos >= size => \A i \in Bytes : i < 0 => r.mem[i] \in {mem[i], NUL}
    BY <1>1, <2>1
  <2> QED BY <2>1, <2>2, <2>3, <2>4 DEF r
<1> QED
  BY <1>2, <1>3, <1>4

(* A wiped buffer.                                                         *)
LEMMA WipedIs ==
  ASSUME NEW m \in [Bytes -> Chars], NEW first \in Int
  PROVE  /\ Wiped(m, first) \in [Bytes -> Chars]
         /\ \A i \in Bytes : Wiped(m, first)[i] \in {m[i], NUL}
         /\ \A i \in Bytes : first <= i /\ i < first + SIZE
                               => Wiped(m, first)[i] = NUL
BY CharsIn DEF Wiped, Bytes

(* A key that leaves a character under the pointer goes on; any other      *)
(* discards the line.                                                      *)
LEMMA KeySettles ==
  ASSUME TypeOK, Reach, presses < MaxKeys, NEW k \in Keys, k \notin Modifiers,
         PressOther(k)
  PROVE  /\ Advances(Typed(k)) =>
              /\ mem' = Typed(k).mem /\ pos' = Typed(k).pos + 1
              /\ size' = Typed(k).size + 1
              /\ Typed(k).size # SIZE /\ Typed(k).mem[Typed(k).pos] # NUL
              /\ spoiled' = spoiled \cup Spoils(k)
         /\ ~Advances(Typed(k)) =>
              /\ mem' = Wiped(Typed(k).mem, 0) /\ pos' = 0 /\ size' = 0
              /\ text' = <<>> /\ spoiled' = Spoils(k) \cap {"race"}
<1> DEFINE r == Typed(k)
<1>1. IsLine(r)
  BY TypedReach
<1>2. /\ mem' = Settle(r).mem /\ pos' = Settle(r).pos
      /\ size' = Settle(r).size
      /\ spoiled' = IF Advances(r) THEN spoiled \cup Spoils(k)
                    ELSE Spoils(k) \cap {"race"}
      /\ text' = Expected(k)
  BY DEF PressOther
<1>3. ~Advances(r) => text' = <<>>
  BY <1>2, Zenon DEF Expected
<1> HIDE DEF r
<1>4. CASE Advances(r)
  <2>1. Settle(r) = [mem |-> r.mem, pos |-> r.pos + 1, size |-> r.size + 1]
    BY <1>1, <1>4 DEF Settle, IsLine
  <2>2. r.size # SIZE /\ r.mem[r.pos] # NUL
    BY <1>4 DEF Advances
  <2> QED BY <1>2, <1>4, <2>1, <2>2 DEF r
<1>5. CASE ~Advances(r)
  <2>1. Settle(r) = [mem |-> Wiped(r.mem, 0), pos |-> 0, size |-> 0]
    BY <1>5 DEF Settle, reset_terminal
  <2> QED BY <1>2, <1>3, <1>5, <2>1 DEF r
<1> QED
  BY <1>4, <1>5

(* What a key that goes on does to the text.                               *)
LEMMA KeyText ==
  ASSUME NEW k \in Keys, PressOther(k), Advances(Typed(k))
  PROVE  /\ k = "back" => text' = SubSeq(text, 1, Len(text) - 1)
         /\ k # "back" => text' = Append(text, Mark(k))
<1>0. "enter" # "back" /\ text' = Expected(k)
  BY DEF PressOther
<1>1. k = "back" => text' = SubSeq(text, 1, Len(text) - 1)
  BY <1>0, Zenon DEF Expected
<1>2. k = "enter" => text' = Append(text, NL)
  BY <1>0, Zenon DEF Expected
<1>3. k # "back" /\ k # "enter" => text' = Append(text, Glyph(k))
  BY <1>0, Zenon DEF Expected
<1> QED
  BY <1>1, <1>2, <1>3, Zenon DEF Mark

(* What spoils.                                                            *)
LEMMA SpoilsIs ==
  ASSUME NEW k
  PROVE  /\ Spoils(k) \subseteq Causes
         /\ "race" \in Spoils(k) <=> Taking
         /\ "erase" \in Spoils(k) <=> k = "back" /\ text = <<>>
         /\ "ctrl" \in Spoils(k)
              <=> k # "back" /\ k # "enter" /\ "ctrl" \in controlflag
<1>1. "race" # "erase" /\ "race" # "ctrl" /\ "erase" # "ctrl"
  OBVIOUS
<1>2. Spoils(k) \subseteq Causes
  BY DEF Spoils
<1>3. "race" \in Spoils(k) <=> Taking
  BY <1>1, Zenon DEF Spoils, Causes
<1>4. "erase" \in Spoils(k) <=> k = "back" /\ text = <<>>
  BY <1>1, Zenon DEF Spoils, Causes
<1>5. "ctrl" \in Spoils(k)
        <=> k # "back" /\ k # "enter" /\ "ctrl" \in controlflag
  BY <1>1, Zenon DEF Spoils, Causes
<1> QED
  BY <1>2, <1>3, <1>4, <1>5

(* A reader that takes nothing has not begun to reset.                     *)
LEMMA NotTaking ==
  ASSUME TypeOK, ~Taking
  PROVE  pc \in Before /\ pc # "copy"
BY Zenon DEF TypeOK, Taking, Before

(* What a key leaves of the types and the reach.                           *)
LEMMA KeyTyped ==
  ASSUME TypeOK, Reach, presses < MaxKeys, presses' = presses + 1,
         NEW k \in Keys, k \notin Modifiers, PressOther(k), UNCHANGED reader
  PROVE  TypeOK' /\ Reach'
<1> DEFINE r == Typed(k)
<1>1. /\ IsLine(r)
      /\ r.pos \in (-presses - 2)..(2 * presses + 1)
      /\ r.size <= SIZE
      /\ \A i \in Bytes : i > 2 * presses + 1 => r.mem[i] = NUL
  BY TypedReach
<1>2. /\ Advances(r) =>
           /\ mem' = r.mem /\ pos' = r.pos + 1
           /\ size' = r.size + 1
           /\ r.size # SIZE /\ r.mem[r.pos] # NUL
           /\ spoiled' = spoiled \cup Spoils(k)
      /\ ~Advances(r) =>
           /\ mem' = Wiped(r.mem, 0) /\ pos' = 0 /\ size' = 0
           /\ text' = <<>> /\ spoiled' = Spoils(k) \cap {"race"}
  BY KeySettles
<1>3. /\ presses \in Nat /\ Bytes \subseteq Int /\ presses + 1 <= MaxKeys
      /\ r.mem \in [Bytes -> Chars] /\ r.size \in Int
  <2>1. /\ presses \in Nat /\ Bytes \subseteq Int /\ presses + 1 <= MaxKeys
    BY DEF TypeOK, Bytes
  <2> QED BY <1>1, <2>1 DEF IsLine
<1>4. text' \in Seq(Chars)
  <2>1. CASE Advances(r)
    <3>1. text \in Seq(Chars)
      BY DEF TypeOK
    <3>2. CASE k = "back"
      BY <2>1, <3>1, <3>2, KeyText
    <3>3. CASE k # "back"
      BY <2>1, <3>1, <3>3, KeyText, TypedCases
    <3> QED BY <3>2, <3>3
  <2>2. CASE ~Advances(r)
    BY <1>2, <2>2
  <2> QED BY <2>1, <2>2
<1>5. spoiled' \subseteq Causes
  BY <1>2, SpoilsIs DEF TypeOK
<1>6. controlflag' \subseteq Modifiers
  BY DEF PressOther, FlagsAfterGlyph, TypeOK
<1> HIDE DEF r
<1>7. /\ mem' \in [Bytes -> Chars] /\ size' \in Int /\ size' <= SIZE
      /\ pos' \in (-(presses + 1))..(2 * (presses + 1))
  BY <1>1, <1>2, <1>3, WipedIs
<1>8. \A i \in Bytes : i > 2 * (presses + 1) => mem'[i] = NUL
  BY <1>1, <1>2, <1>3, WipedIs
<1>9. pos' \in Bytes /\ presses' \in 0..MaxKeys
  BY <1>3, <1>7 DEF Bytes
<1>10. /\ pc' \in {"idle", "scan", "test", "copy", "rewind", "wipe", "zero"}
       /\ want' \in Wants \cup {0} /\ len' \in Nat
       /\ got' \in Seq(Chars)
       /\ len' \in 0..(2 * MaxKeys + 1)
  BY DEF TypeOK, reader, Reach
<1>11. TypeOK'
  BY <1>4, <1>5, <1>6, <1>7, <1>9, <1>10, Zenon DEF TypeOK
<1> QED
  BY <1>7, <1>8, <1>10, <1>11 DEF Reach

(* A key that discards the line.                                           *)
LEMMA DiscardKeeps ==
  ASSUME IInv, presses < MaxKeys, presses' = presses + 1,
         NEW k \in Keys, k \notin Modifiers, PressOther(k), UNCHANGED reader,
         ~Advances(Typed(k))
  PROVE  Intact' /\ Counted' /\ Reset' /\ Below'
<1>1. TypeOK /\ Reach
  BY DEF IInv
<1>2. /\ mem' = Wiped(Typed(k).mem, 0) /\ pos' = 0 /\ size' = 0
      /\ text' = <<>> /\ spoiled' = Spoils(k) \cap {"race"}
  BY <1>1, KeySettles
<1>3. /\ pc' = pc /\ want' = want /\ len' = len /\ len \in 0..(2 * MaxKeys + 1)
  BY <1>1 DEF reader, Reach
<1>4. "race" \notin spoiled' => ~Taking
  BY <1>2, SpoilsIs
<1>5. \A i \in Bytes : 0 <= i /\ i < SIZE => mem'[i] = NUL
  <2>1. Typed(k).mem \in [Bytes -> Chars]
    BY <1>1, TypedReach DEF IsLine
  <2> QED BY <1>2, <2>1, WipedIs
<1>6. Len(text') = 0
  BY <1>2
<1>7. Intact'
  <2>1. 0 \in Bytes
    BY DEF Bytes
  <2>2. mem'[0] = NUL
    BY <1>5, <2>1
  <2> QED BY <1>2, <1>6, <2>2 DEF Intact, Whole
<1>8. Counted'
  <2> SUFFICES ASSUME spoiled' = {}, Taking', pc' \in {"test", "copy"},
                      want' # 0 \/ len' <= SIZE
               PROVE  len' = 0
    BY <1>6 DEF Counted
  <2>1. ~Taking
    BY <1>4
  <2>2. pc = "test" /\ pc' = "test"
    BY <1>1, <1>3, <2>1, NotTaking
  <2>3. want = 0 /\ mem'[len - 1] = NL
    BY <1>3, <2>1, <2>2 DEF Taking
  <2>4. ASSUME len # 0 PROVE FALSE
    <3>1. len - 1 \in Bytes /\ 0 <= len - 1 /\ len - 1 < SIZE
      BY <1>3, <2>3, <2>4 DEF Bytes
    <3> QED BY <1>5, <2>3, <3>1, CharsDiffer
  <2> QED BY <1>3, <2>4
<1>9. Reset'
  BY <1>1, <1>2, <1>3, <1>4, NotTaking DEF Reset, Before
<1>10. Below'
  BY <1>1, <1>2, <1>3, <1>4, NotTaking DEF Below, Before
<1> QED
  BY <1>7, <1>8, <1>9, <1>10

(* What a key that goes on finds when nothing is spoiled after it.         *)
LEMMA Unspoiled ==
  ASSUME IInv, NEW k, spoiled' = spoiled \cup Spoils(k)
  PROVE  /\ "race" \notin spoiled' => ~Taking /\ pc \in Before /\ pos >= size
         /\ spoiled' = {} =>
              /\ ~Taking /\ pc \in Before /\ Whole
              /\ k = "back" => text # <<>>
              /\ k # "back" => k = "enter" \/ "ctrl" \notin controlflag
<1>1. "race" \notin spoiled' => ~Taking /\ "race" \notin spoiled
  BY SpoilsIs
<1>2. "race" \notin spoiled' => pc \in Before
  BY <1>1, NotTaking DEF IInv
<1>3. "race" \notin spoiled' => pos >= size
  BY <1>1, <1>2 DEF IInv, Below
<1>4. spoiled' = {} => spoiled = {} /\ Spoils(k) = {}
  OBVIOUS
<1>5. spoiled' = {} => Whole
  BY <1>2, <1>4 DEF IInv, Intact
<1>6. spoiled' = {} => /\ k = "back" => text # <<>>
                       /\ k # "back" => k = "enter" \/ "ctrl" \notin controlflag
  BY <1>4, SpoilsIs
<1> QED
  BY <1>1, <1>2, <1>3, <1>5, <1>6

(* A reader that waits still waits, unless the key put the newline at the  *)
(* end of what it counted.                                                 *)
LEMMA WaitsOn ==
  ASSUME TypeOK, Reach, ~Taking, UNCHANGED reader, Taking',
         pc \in {"test", "copy"}
  PROVE  /\ want = 0 /\ mem'[len - 1] = NL /\ mem[len - 1] # NL
         /\ len - 1 \in Bytes /\ len \in Nat
<1>1. pc = "test" /\ pc' = "test" /\ want' = want /\ len' = len
  BY NotTaking DEF reader
<1>2. want = 0 /\ mem'[len - 1] = NL /\ mem[len - 1] # NL
  BY <1>1 DEF Taking
<1> QED
  BY <1>2 DEF Reach, Bytes

(* Backspace on a line that goes on.                                       *)
LEMMA EraseKeeps ==
  ASSUME IInv, presses < MaxKeys, presses' = presses + 1,
         "back" \in Keys, PressOther("back"), UNCHANGED reader,
         Advances(Typed("back"))
  PROVE  Intact' /\ Counted' /\ Reset' /\ Below'
<1>0. "back" \notin Modifiers
  BY DEF Modifiers
<1>1. /\ TypeOK /\ Reach /\ pc' = pc /\ pos \in Int /\ size \in Int
      /\ text \in Seq(Chars) /\ Bytes \subseteq Int
  BY DEF IInv, reader, TypeOK, Bytes
<1>2. /\ mem' = Typed("back").mem /\ pos' = Typed("back").pos + 1
      /\ size' = Typed("back").size + 1
      /\ spoiled' = spoiled \cup Spoils("back")
  BY <1>0, <1>1, KeySettles
<1>3. /\ pos' = pos - 1 /\ size' = size - 1
      /\ \A i \in Bytes : mem'[i] = IF i = pos - 1 THEN NUL ELSE mem[i]
  BY <1>1, <1>2, TypedBack
<1>4. text' = SubSeq(text, 1, Len(text) - 1)
  BY KeyText
<1>5. /\ "race" \notin spoiled' => ~Taking /\ pc \in Before /\ pos >= size
      /\ spoiled' = {} => ~Taking /\ pc \in Before /\ Whole /\ text # <<>>
  BY <1>2, Unspoiled
<1>6. Intact'
  <2> SUFFICES ASSUME spoiled' = {} PROVE Whole'
    BY DEF Intact
  <2> DEFINE n == Len(text)
  <2>1. n \in Nat \ {0} /\ pos = n /\ size = n /\ n \in Bytes
    BY <1>1, <1>5 DEF Whole, TypeOK
  <2>2. Len(text') = n - 1 /\ \A i \in 1..(n - 1) : text'[i] = text[i]
    BY <1>1, <1>4, <2>1
  <2>3. \A i \in 0..n : i \in Bytes
    BY <2>1 DEF Bytes
  <2>4. \A i \in 1..(n - 1) : text[i] # NUL /\ mem'[i - 1] = text[i]
    <3> SUFFICES ASSUME NEW i \in 1..(n - 1)
                 PROVE  text[i] # NUL /\ mem'[i - 1] = text[i]
      OBVIOUS
    <3>1. text[i] # NUL /\ mem[i - 1] = text[i]
      BY <1>5, <2>1 DEF Whole
    <3>2. i - 1 \in Bytes /\ i - 1 # pos - 1
      BY <2>1, <2>3
    <3> QED BY <1>3, <3>1, <3>2
  <2>5. mem'[n - 1] = NUL
    BY <1>3, <2>1, <2>3
  <2> HIDE DEF n
  <2> QED BY <1>3, <2>1, <2>2, <2>4, <2>5 DEF Whole
<1>7. Counted'
  <2> SUFFICES ASSUME spoiled' = {}, Taking', pc' \in {"test", "copy"}
               PROVE  FALSE
    BY DEF Counted
  <2>1. mem'[len - 1] = NL /\ mem[len - 1] # NL /\ len - 1 \in Bytes
    BY <1>1, <1>5, WaitsOn
  <2> QED BY <1>3, <2>1, CharsDiffer
<1>8. Reset'
  BY <1>1, <1>5 DEF Reset, Before
<1>9. Below'
  BY <1>1, <1>3, <1>5 DEF Below, Before
<1> QED
  BY <1>6, <1>7, <1>8, <1>9

(* A key that puts one character and goes on.                              *)
LEMMA AppendKeeps ==
  ASSUME IInv, presses < MaxKeys, presses' = presses + 1,
         NEW k \in Keys, k \notin Modifiers, PressOther(k), UNCHANGED reader,
         Advances(Typed(k)), k # "back", k = "enter" \/ "ctrl" \notin controlflag
  PROVE  Intact' /\ Counted' /\ Reset' /\ Below'
<1> DEFINE c == Mark(k)
<1>1. /\ TypeOK /\ Reach /\ pc' = pc /\ pos \in Int /\ size \in Int
      /\ text \in Seq(Chars) /\ Bytes \subseteq Int /\ len' = len
  BY DEF IInv, reader, TypeOK, Bytes
<1>2. /\ mem' = Typed(k).mem /\ pos' = Typed(k).pos + 1
      /\ size' = Typed(k).size + 1 /\ Typed(k).mem[Typed(k).pos] # NUL
      /\ spoiled' = spoiled \cup Spoils(k)
  BY <1>1, KeySettles
<1>3. /\ pos' = pos + 1 /\ size' = size + 1 /\ mem'[pos] # NUL
      /\ size >= 0 =>
           \A i \in Bytes : mem'[i] =
             IF i = pos THEN c ELSE IF i = pos + 1 THEN NUL ELSE mem[i]
  BY <1>1, <1>2, TypedPlain
<1>4. text' = Append(text, c) /\ c \in Chars
  BY KeyText, TypedCases
<1>5. /\ "race" \notin spoiled' => ~Taking /\ pc \in Before /\ pos >= size
      /\ spoiled' = {} => ~Taking /\ pc \in Before /\ Whole
  BY <1>2, Unspoiled
<1> HIDE DEF c
<1> DEFINE n == Len(text)
<1>6. ASSUME spoiled' = {}
      PROVE  /\ n \in Nat /\ pos = n /\ size = n /\ n \in Bytes /\ n + 1 \in Bytes
             /\ Len(text') = n + 1 /\ text'[n + 1] = c
             /\ \A i \in 1..n : text'[i] = text[i]
  <2>1. n \in Nat /\ pos = n /\ size = n
    BY <1>1, <1>5, <1>6 DEF Whole
  <2>2. pos \in Bytes /\ pos + 1 \in Bytes
    BY <1>1 DEF Reach, Bytes, TypeOK
  <2> QED BY <1>1, <1>4, <2>1, <2>2
<1>7. Intact'
  <2> SUFFICES ASSUME spoiled' = {} PROVE Whole'
    BY DEF Intact
  <2>1. \A i \in 0..n : i \in Bytes
    BY <1>6 DEF Bytes
  <2>2. \A i \in 1..(n + 1) : text'[i] # NUL /\ mem'[i - 1] = text'[i]
    <3> SUFFICES ASSUME NEW i \in 1..(n + 1)
                 PROVE  text'[i] # NUL /\ mem'[i - 1] = text'[i]
      OBVIOUS
    <3>1. CASE i = n + 1
      <4>1. i - 1 = n /\ mem'[n] = c /\ c # NUL
        BY <1>3, <1>6, <3>1
      <4> QED BY <1>6, <3>1, <4>1
    <3>2. CASE i # n + 1
      <4>1. i \in 1..n /\ i - 1 \in Bytes /\ i - 1 # n /\ i - 1 # n + 1
        BY <1>6, <2>1, <3>2
      <4>2. text[i] # NUL /\ mem[i - 1] = text[i]
        BY <1>5, <4>1 DEF Whole
      <4>3. mem'[i - 1] = mem[i - 1]
        BY <1>3, <1>6, <4>1
      <4> QED BY <1>6, <4>1, <4>2, <4>3
    <3> QED BY <3>1, <3>2
  <2>3. mem'[n + 1] = NUL
    BY <1>3, <1>6
  <2> HIDE DEF n
  <2> QED BY <1>3, <1>6, <2>2, <2>3 DEF Whole
<1>8. Counted'
  <2> SUFFICES ASSUME spoiled' = {}, Taking', pc' \in {"test", "copy"}
               PROVE  len = n + 1
    BY <1>1, <1>6 DEF Counted
  <2>1. mem'[len - 1] = NL /\ mem[len - 1] # NL /\ len - 1 \in Bytes /\ len \in Nat
    BY <1>1, <1>5, WaitsOn
  <2>2. len - 1 = n
    BY <1>3, <1>6, <2>1, CharsDiffer
  <2> QED BY <1>6, <2>1, <2>2
<1>9. Reset'
  BY <1>1, <1>5 DEF Reset, Before
<1>10. Below'
  BY <1>1, <1>3, <1>5 DEF Below, Before
<1> QED
  BY <1>7, <1>8, <1>9, <1>10

(* A control character that goes on.                                       *)
LEMMA ControlKeeps ==
  ASSUME IInv, presses < MaxKeys, presses' = presses + 1,
         NEW k \in Keys, k \notin Modifiers, PressOther(k), UNCHANGED reader,
         Advances(Typed(k)), k # "back", k # "enter", "ctrl" \in controlflag
  PROVE  Intact' /\ Counted' /\ Reset' /\ Below'
<1>1. /\ TypeOK /\ Reach /\ pc' = pc /\ pos \in Int /\ size \in Int
  BY DEF IInv, reader, TypeOK, Bytes
<1>2. /\ pos' = Typed(k).pos + 1 /\ size' = Typed(k).size + 1
      /\ spoiled' = spoiled \cup Spoils(k)
  BY <1>1, KeySettles
<1>3. "ctrl" \in spoiled'
  BY <1>2, SpoilsIs
<1>4. /\ Typed(k).size = size
      /\ Typed(k).pos = pos \/ Typed(k).pos = pos + 1
  BY <1>1, TypedControl
<1>5. /\ "race" \notin spoiled' => ~Taking /\ pc \in Before /\ pos >= size
  BY <1>2, Unspoiled
<1>6. Intact' /\ Counted' /\ Reset'
  BY <1>3 DEF Intact, Counted, Reset
<1>7. Below'
  BY <1>1, <1>2, <1>4, <1>5 DEF Below, Before
<1> QED
  BY <1>6, <1>7

(* A modifier.                                                             *)
LEMMA ModifierKeeps ==
  ASSUME IInv, presses < MaxKeys, presses' = presses + 1,
         NEW k \in Modifiers, PressModifier(k), UNCHANGED reader
  PROVE  IInv'
<1>1. /\ mem' = mem /\ pos' = pos /\ size' = size /\ text' = text
      /\ spoiled' = spoiled /\ pc' = pc /\ want' = want /\ len' = len
      /\ got' = got
  BY DEF PressModifier, line, reader
<1>2. controlflag' \subseteq Modifiers
  BY DEF PressModifier, IInv, TypeOK
<1>3. presses \in Nat /\ presses' \in 0..MaxKeys
  BY DEF IInv, TypeOK
<1>4. TypeOK'
  BY <1>1, <1>2, <1>3 DEF IInv, TypeOK
<1>5. Reach'
  <2>1. Bytes \subseteq Int
    BY DEF Bytes
  <2> QED BY <1>1, <1>3, <2>1 DEF IInv, Reach
<1>6. Taking' <=> Taking
  BY <1>1 DEF Taking
<1>7. Intact' /\ Counted' /\ Reset' /\ Below'
  BY <1>1, <1>6 DEF IInv, Intact, Counted, Reset, Below, Whole
<1> QED
  BY <1>4, <1>5, <1>7 DEF IInv

(* Every key.                                                              *)
LEMMA KeyKeeps ==
  ASSUME IInv, interrupt1
  PROVE  IInv'
<1>1. presses < MaxKeys /\ presses' = presses + 1 /\ UNCHANGED reader
  BY DEF interrupt1
<1>2. PICK k \in Keys : \/ k \in Modifiers /\ PressModifier(k)
                        \/ k \notin Modifiers /\ PressOther(k)
  BY DEF interrupt1
<1>3. CASE k \in Modifiers /\ PressModifier(k)
  BY <1>1, <1>3, ModifierKeeps
<1>4. CASE k \notin Modifiers /\ PressOther(k)
  <2>1. TypeOK' /\ Reach'
    BY <1>1, <1>4, KeyTyped DEF IInv
  <2>2. CASE ~Advances(Typed(k))
    BY <1>1, <1>4, <2>1, <2>2, DiscardKeeps DEF IInv
  <2>3. CASE Advances(Typed(k)) /\ k = "back"
    BY <1>1, <1>4, <2>1, <2>3, EraseKeeps DEF IInv
  <2>4. CASE Advances(Typed(k)) /\ k # "back"
             /\ (k = "enter" \/ "ctrl" \notin controlflag)
    BY <1>1, <1>4, <2>1, <2>4, AppendKeeps DEF IInv
  <2>5. CASE Advances(Typed(k)) /\ k # "back" /\ k # "enter"
             /\ "ctrl" \in controlflag
    BY <1>1, <1>4, <2>1, <2>5, ControlKeeps DEF IInv
  <2> QED BY <2>2, <2>3, <2>4, <2>5
<1> QED
  BY <1>2, <1>3, <1>4

(* Below the buffer a key puts only zeros.                                 *)
LEMMA KeyBelow ==
  ASSUME IInv, interrupt1, "race" \notin spoiled \cup spoiled',
         NEW i \in Bytes, i < 0
  PROVE  mem'[i] \in {mem[i], NUL}
<1>1. presses < MaxKeys /\ presses' = presses + 1 /\ TypeOK /\ Reach
  BY DEF interrupt1, IInv
<1>2. PICK k \in Keys : \/ k \in Modifiers /\ PressModifier(k)
                        \/ k \notin Modifiers /\ PressOther(k)
  BY DEF interrupt1
<1>3. CASE k \in Modifiers /\ PressModifier(k)
  BY <1>3 DEF PressModifier, line
<1>4. CASE k \notin Modifiers /\ PressOther(k)
  <2> DEFINE r == Typed(k)
  <2>1. /\ Advances(r) => mem' = r.mem /\ spoiled' = spoiled \cup Spoils(k)
        /\ ~Advances(r) =>
             mem' = Wiped(r.mem, 0) /\ spoiled' = Spoils(k) \cap {"race"}
    BY <1>1, <1>4, KeySettles
  <2>2. "race" \notin Spoils(k)
    BY <2>1
  <2>3. pos >= size
    BY <1>1, <2>2, SpoilsIs, NotTaking DEF IInv, Below
  <2>4. r.mem[i] \in {mem[i], NUL} /\ IsLine(r)
    BY <1>1, <1>4, <2>3, TypedReach
  <2> HIDE DEF r
  <2>5. r.mem \in [Bytes -> Chars]
    BY <2>4 DEF IsLine
  <2>6. Wiped(r.mem, 0)[i] \in {r.mem[i], NUL}
    BY <2>5, WipedIs
  <2> QED BY <2>1, <2>4, <2>6
<1> QED
  BY <1>2, <1>3, <1>4

-----------------------------------------------------------------------------
(* The reader                                                              *)

(* The count ends.                                                         *)
LEMMA SizeTyped ==
  ASSUME TypeOK, Reach
  PROVE  get_terminal_size(mem) \in 0..(2 * MaxKeys + 1)
<1> DEFINE z == 2 * MaxKeys + 1
           g == get_terminal_size(mem)
<1>1. z \in Bytes /\ z >= 0
  BY DEF Bytes
<1>2. mem[z] = NUL
  BY <1>1 DEF TypeOK, Reach
<1> HIDE DEF z
<1>3. g \in Bytes /\ g >= 0 /\ g <= z
  BY <1>1, <1>2, SizeIsFirst
<1> HIDE DEF g
<1>4. g \in Nat /\ g <= 2 * MaxKeys + 1
  BY <1>3 DEF Bytes, z
<1>5. g \in 0..(2 * MaxKeys + 1)
  BY <1>4
<1> QED
  BY <1>5 DEF g

(* How many bytes Copy copies.                                             *)
Count == IF want = 0 THEN len ELSE Min({len, get_terminal_size(mem)})

LEMMA CountIs ==
  ASSUME TypeOK, Reach
  PROVE  /\ Count \in 0..(2 * MaxKeys + 1)
         /\ want = 0 => Count = len
         /\ len = get_terminal_size(mem) => Count = len
<1> DEFINE g == get_terminal_size(mem)
<1>1. len \in 0..(2 * MaxKeys + 1) /\ g \in 0..(2 * MaxKeys + 1)
  BY SizeTyped DEF Reach
<1>2. Count = IF want = 0 THEN len ELSE Min({len, g})
  BY DEF Count
<1> HIDE DEF g
<1> DEFINE S == {len, g}
<1>3. S \in SUBSET Nat /\ S # {}
  BY <1>1
<1> HIDE DEF S
<1>4. Min(S) \in S
  BY <1>3, MinOfNat
<1> QED
  BY <1>1, <1>2, <1>4 DEF S, g

(* Read, Scan and Test change only the reader.                             *)
LEMMA ReadKeeps ==
  ASSUME IInv, Read
  PROVE  IInv'
<1>1. /\ pc = "idle" /\ pc' = "scan" /\ want' \in Wants /\ got' = <<>>
      /\ len' = 0 /\ mem' = mem /\ pos' = pos /\ size' = size
      /\ text' = text /\ spoiled' = spoiled /\ controlflag' = controlflag
      /\ presses' = presses
  BY DEF Read, line
<1>2. TypeOK'
  BY <1>1 DEF IInv, TypeOK
<1>3. Reach'
  BY <1>1 DEF IInv, Reach
<1>4. Intact' /\ Counted' /\ Reset' /\ Below'
  BY <1>1 DEF IInv, Intact, Counted, Reset, Below, Whole, Before
<1> QED
  BY <1>2, <1>3, <1>4 DEF IInv

LEMMA ScanKeeps ==
  ASSUME IInv, Scan
  PROVE  IInv'
<1>1. /\ pc = "scan" /\ pc' = "test" /\ want' = want /\ got' = got
      /\ len' = get_terminal_size(mem)
      /\ mem' = mem /\ pos' = pos /\ size' = size
      /\ text' = text /\ spoiled' = spoiled /\ controlflag' = controlflag
      /\ presses' = presses
  BY DEF Scan, line
<1>2. len' \in 0..(2 * MaxKeys + 1)
  BY <1>1, SizeTyped DEF IInv
<1>3. TypeOK'
  BY <1>1, <1>2 DEF IInv, TypeOK
<1>4. Reach'
  BY <1>1, <1>2 DEF IInv, Reach
<1>5. spoiled' = {} => len' = Len(text')
  BY <1>1, WholeSize DEF IInv, Intact, Before
<1>6. Counted'
  BY <1>5 DEF Counted
<1>7. Intact' /\ Reset' /\ Below'
  BY <1>1 DEF IInv, Intact, Reset, Below, Whole, Before
<1> QED
  BY <1>3, <1>4, <1>6, <1>7 DEF IInv

LEMMA TestKeeps ==
  ASSUME IInv, Test
  PROVE  IInv'
<1>1. /\ pc = "test" /\ pc' \in {"copy", "scan"} /\ want' = want /\ got' = got
      /\ pc' = "copy" => Taking
      /\ len' = len /\ mem' = mem /\ pos' = pos /\ size' = size
      /\ text' = text /\ spoiled' = spoiled /\ controlflag' = controlflag
      /\ presses' = presses
  BY DEF Test, line
<1>2. TypeOK'
  BY <1>1 DEF IInv, TypeOK
<1>3. Reach'
  BY <1>1 DEF IInv, Reach
<1>4. Counted'
  BY <1>1 DEF IInv, Counted
<1>5. Intact' /\ Reset' /\ Below'
  BY <1>1 DEF IInv, Intact, Reset, Below, Whole, Before
<1> QED
  BY <1>2, <1>3, <1>4, <1>5 DEF IInv

(* Copy takes all of the text.                                             *)
LEMMA CopyTakes ==
  ASSUME IInv, Copy
  PROVE  /\ got' \in Seq(Chars) /\ Len(got') = Count
         /\ text' = SubSeq(text, Count + 1, Len(text))
         /\ spoiled = {} => Count >= Len(text)
         /\ spoiled = {} /\ len <= SIZE => got' = text
<1>1. /\ TypeOK /\ Reach /\ pc = "copy" /\ Taking
  BY DEF IInv, Copy, Taking
<1>2. got' = Copied(mem, Count) /\ text' = SubSeq(text, Len(got') + 1, Len(text))
  BY DEF Copy, Count
<1> DEFINE n == Count
           g == get_terminal_size(mem)
<1>3. /\ n \in 0..(2 * MaxKeys + 1)
      /\ want = 0 => n = len
      /\ len = g => n = len
  BY <1>1, CountIs
<1>4. got' = [i \in 1..n |-> mem[i - 1]]
  BY <1>2 DEF Copied
<1>5. spoiled = {} => Whole
  BY <1>1 DEF IInv, Intact, Before
<1>6. spoiled = {} => g = Len(text) /\ Copied(mem, Len(text)) = text
                      /\ size = Len(text)
  BY <1>1, <1>5, WholeSize DEF Whole
<1>7. spoiled = {} /\ (want # 0 \/ len <= SIZE) => len = Len(text)
  BY <1>1 DEF IInv, Counted
<1>8. size <= SIZE /\ len \in Nat /\ mem \in [Bytes -> Chars] /\ size \in Int
  BY <1>1 DEF Reach, TypeOK
<1>9. \A i \in 1..n : i - 1 \in Bytes
  BY <1>3 DEF Bytes
<1> HIDE DEF n, g
<1>10. got' \in Seq(Chars) /\ Len(got') = n
  <2>1. n \in Nat /\ \A i \in 1..n : mem[i - 1] \in Chars
    BY <1>3, <1>8, <1>9
  <2> QED BY <1>4, <2>1
<1>11. spoiled = {} => n >= Len(text)
  BY <1>3, <1>6, <1>7, <1>8
<1>12. spoiled = {} /\ len <= SIZE => n = Len(text)
  BY <1>3, <1>6, <1>7
<1> QED
  BY <1>2, <1>6, <1>10, <1>11, <1>12 DEF n

LEMMA CopyKeeps ==
  ASSUME IInv, Copy
  PROVE  IInv'
<1>1. /\ pc = "copy" /\ pc' = "rewind" /\ want' = want
      /\ len' = len /\ mem' = mem /\ pos' = pos /\ size' = size
      /\ spoiled' = spoiled /\ controlflag' = controlflag
      /\ presses' = presses
  BY DEF Copy, line
<1>2. /\ got' \in Seq(Chars) /\ Count \in Nat
      /\ text' = SubSeq(text, Count + 1, Len(text))
      /\ spoiled = {} => Count >= Len(text)
  BY CopyTakes, CountIs DEF IInv
<1>3. text \in Seq(Chars)
  BY DEF IInv, TypeOK
<1>4. text' \in Seq(Chars) /\ (spoiled = {} => text' = <<>>)
  BY <1>2, <1>3
<1>5. TypeOK'
  BY <1>1, <1>2, <1>4 DEF IInv, TypeOK
<1>6. Reach'
  BY <1>1 DEF IInv, Reach
<1>7. Intact' /\ Counted' /\ Reset' /\ Below'
  BY <1>1, <1>4 DEF Intact, Counted, Reset, Below, Before
<1> QED
  BY <1>5, <1>6, <1>7 DEF IInv

(* The three parts of the reset.                                           *)
LEMMA RewindKeeps ==
  ASSUME IInv, Rewind
  PROVE  IInv'
<1>1. /\ pc = "rewind" /\ pc' = "wipe" /\ want' = want /\ got' = got
      /\ len' = len /\ mem' = mem /\ pos' = 0 /\ size' = size
      /\ text' = text /\ spoiled' = spoiled /\ controlflag' = controlflag
      /\ presses' = presses
  BY DEF Rewind
<1>2. TypeOK'
  <2>1. 0 \in Bytes
    BY DEF Bytes
  <2> QED BY <1>1, <2>1 DEF IInv, TypeOK
<1>3. Reach'
  <2>1. presses \in Nat
    BY DEF IInv, TypeOK
  <2> QED BY <1>1, <2>1 DEF IInv, Reach
<1>4. Intact' /\ Counted' /\ Reset' /\ Below'
  BY <1>1 DEF IInv, Intact, Counted, Reset, Below, Before
<1> QED
  BY <1>2, <1>3, <1>4 DEF IInv

(* What Wipe leaves.                                                       *)
LEMMA WipeIs ==
  ASSUME TypeOK, Wipe
  PROVE  /\ mem' \in [Bytes -> Chars]
         /\ \A i \in Bytes : mem'[i] \in {mem[i], NUL}
         /\ pos = 0 => mem'[0] = NUL
<1>1. PICK first \in {0, pos} : mem' = Wiped(mem, first)
  BY DEF Wipe
<1>2. mem \in [Bytes -> Chars] /\ first \in Int /\ 0 \in Bytes
  BY DEF TypeOK, Bytes
<1>3. /\ Wiped(mem, first) \in [Bytes -> Chars]
      /\ \A i \in Bytes : Wiped(mem, first)[i] \in {mem[i], NUL}
      /\ \A i \in Bytes : first <= i /\ i < first + SIZE
                            => Wiped(mem, first)[i] = NUL
  BY <1>2, WipedIs
<1> QED
  BY <1>1, <1>2, <1>3

LEMMA WipeKeeps ==
  ASSUME IInv, Wipe
  PROVE  IInv'
<1>1. /\ pc = "wipe" /\ pc' = "zero" /\ want' = want /\ got' = got
      /\ len' = len /\ pos' = pos /\ size' = size
      /\ text' = text /\ spoiled' = spoiled /\ controlflag' = controlflag
      /\ presses' = presses
  BY DEF Wipe
<1>2. /\ mem' \in [Bytes -> Chars]
      /\ \A i \in Bytes : mem'[i] \in {mem[i], NUL}
      /\ pos = 0 => mem'[0] = NUL
  BY WipeIs DEF IInv
<1>3. TypeOK'
  BY <1>1, <1>2 DEF IInv, TypeOK
<1>4. Reach'
  BY <1>1, <1>2 DEF IInv, Reach
<1>5. Intact' /\ Counted' /\ Reset' /\ Below'
  BY <1>1, <1>2 DEF IInv, Intact, Counted, Reset, Below, Before
<1> QED
  BY <1>3, <1>4, <1>5 DEF IInv

LEMMA ZeroKeeps ==
  ASSUME IInv, Zero
  PROVE  IInv'
<1>1. /\ pc = "zero" /\ pc' = "idle" /\ want' = want /\ got' = got
      /\ len' = 0 /\ mem' = mem /\ pos' = pos /\ size' = 0
      /\ text' = text /\ spoiled' = spoiled /\ controlflag' = controlflag
      /\ presses' = presses
  BY DEF Zero
<1>2. TypeOK'
  BY <1>1 DEF IInv, TypeOK
<1>3. Reach'
  BY <1>1 DEF IInv, Reach
<1>4. Intact'
  <2>1. spoiled' = {} => text' = <<>> /\ pos' = 0 /\ mem'[0] = NUL
    BY <1>1 DEF IInv, Reset
  <2>2. text' = <<>> => Len(text') = 0
    OBVIOUS
  <2> QED BY <1>1, <2>1, <2>2 DEF Intact, Whole
<1>5. Counted' /\ Reset' /\ Below'
  BY <1>1 DEF IInv, Counted, Reset, Below, Before
<1> QED
  BY <1>2, <1>3, <1>4, <1>5 DEF IInv

-----------------------------------------------------------------------------
(* The theorems                                                            *)

LEMMA Start == Init => IInv
<1> SUFFICES ASSUME Init PROVE IInv
  OBVIOUS
<1>1. PICK n \in 0..(MaxKeys + 2) :
        mem = [i \in Bytes |-> IF i \in (-n)..(-1) THEN FOREIGN ELSE NUL]
  BY DEF Init
<1>2. /\ pos = 0 /\ size = 0 /\ controlflag = {} /\ pc = "idle" /\ want = 0
      /\ len = 0 /\ got = <<>> /\ presses = 0 /\ text = <<>> /\ spoiled = {}
  BY DEF Init
<1>3. 0 \in Bytes /\ Bytes \subseteq Int
  BY DEF Bytes
<1>4. mem \in [Bytes -> Chars]
  BY <1>1, CharsIn
<1>5. \A i \in Bytes : i >= 0 => mem[i] = NUL
  BY <1>1, <1>3
<1>6. TypeOK
  BY <1>2, <1>3, <1>4 DEF TypeOK
<1>7. Reach
  BY <1>2, <1>3, <1>5 DEF Reach
<1>8. Intact
  BY <1>2, <1>3, <1>5 DEF Intact, Whole
<1>9. Counted /\ Reset /\ Below
  BY <1>2 DEF Counted, Reset, Below
<1> QED
  BY <1>6, <1>7, <1>8, <1>9 DEF IInv

LEMMA Step == IInv /\ [Next]_vars => IInv'
<1> SUFFICES ASSUME IInv, [Next]_vars PROVE IInv'
  OBVIOUS
<1>1. CASE interrupt1
  BY <1>1, KeyKeeps
<1>2. CASE Read
  BY <1>2, ReadKeeps
<1>3. CASE check_for_ip
  BY <1>3, ScanKeeps, TestKeeps, CopyKeeps, RewindKeeps, WipeKeeps, ZeroKeeps
     DEF check_for_ip
<1>4. CASE UNCHANGED vars
  <2>1. Taking' <=> Taking
    BY <1>4 DEF Taking, vars
  <2> QED
    BY <1>4, <2>1 DEF IInv, TypeOK, Reach, Intact, Counted, Reset, Below, Whole,
                      vars
<1> QED
  BY <1>1, <1>2, <1>3, <1>4 DEF Next

(* Whatever keys come between the steps of check_for_ip, the line buffer,  *)
(* its pointer, its size and the length the reader counted stay related:   *)
(* the conjunction of all parts is inductive.                              *)
THEOREM Inductive == Spec => []IInv
BY Start, Step, PTL DEF Spec

(* The pointer of kscanf stays among the bytes the keys pressed so far can *)
(* reach, and everything holds values of its kind.                         *)
THEOREM TypeCorrect == Spec => []TypeOK
<1>1. IInv => TypeOK
  BY DEF IInv
<1> QED
  BY <1>1, Inductive, PTL

(* Unless one of the three causes occurred, terminal_buf, address_of_buf   *)
(* and the size agree with what was typed, whenever no line is being       *)
(* reset.                                                                  *)
THEOREM LineStaysIntact == Spec => []LineIntact
<1>1. IInv => LineIntact
  <2> SUFFICES ASSUME IInv, spoiled = {}, pc \in {"idle", "scan", "test", "copy"}
               PROVE  Contents = text /\ pos = Len(text) /\ size = Len(text)
    BY DEF LineIntact
  <2>1. Whole /\ TypeOK
    BY DEF IInv, Intact, Before
  <2> QED BY <2>1, WholeSize DEF Contents, Whole
<1> QED
  BY <1>1, Inductive, PTL

(* check_for_ip copies everything typed since the last read, even when     *)
(* keys come between its count, its test and its copy.                     *)
THEOREM ReadsAreWhole == Spec => ReadsWholeText
<1>1. IInv /\ [Next]_vars =>
        [pc = "copy" /\ pc' = "rewind" /\ spoiled = {} /\ len <= SIZE
           => got' = text]_vars
  <2> SUFFICES ASSUME IInv, Next, pc = "copy", pc' = "rewind", spoiled = {},
                      len <= SIZE
               PROVE  got' = text
    BY DEF vars
  <2>1. ~interrupt1
    BY DEF interrupt1, reader
  <2>2. Copy
    BY <2>1 DEF Next, Read, check_for_ip, Scan, Test, Rewind, Wipe, Zero
  <2> QED BY <2>2, CopyTakes
<1> QED
  BY <1>1, Inductive, PTL DEF Spec, ReadsWholeText

(* kscanf puts no character below terminal_buf, unless a key has come      *)
(* while a line was being taken.                                           *)
THEOREM OnlyZerosBelow == Spec => OnlyErasedBelow
<1>1. IInv /\ [Next]_vars =>
        ["race" \notin spoiled \cup spoiled' =>
           \A i \in Bytes : i < 0 => mem'[i] \in {mem[i], NUL}]_vars
  <2> SUFFICES ASSUME IInv, Next, "race" \notin spoiled \cup spoiled',
                      NEW i \in Bytes, i < 0
               PROVE  mem'[i] \in {mem[i], NUL}
    BY DEF vars
  <2>1. CASE interrupt1
    BY <2>1, KeyBelow
  <2>2. CASE Read
    BY <2>2 DEF Read, line
  <2>3. CASE Scan \/ Test \/ Copy \/ Rewind \/ Zero
    BY <2>3 DEF Scan, Test, Copy, Rewind, Zero, line
  <2>4. CASE Wipe
    BY <2>4, WipeIs DEF IInv
  <2> QED BY <2>1, <2>2, <2>3, <2>4 DEF Next, check_for_ip
<1> QED
  BY <1>1, Inductive, PTL DEF Spec, OnlyErasedBelow
=============================================================================
