---------------------------- MODULE ReplayWindow ----------------------------
(***************************************************************************)
(* The sliding replay bitmap of src/internal/peer/replay.go, as operators  *)
(* on a window record.  A uint64 word is the set of its one bits, so a     *)
(* word-wise shift is an arithmetic shift of bit positions that drops the  *)
(* bits leaving the word.                                                  *)
(***************************************************************************)
EXTENDS Integers

CONSTANTS Size,      \* replayWindowSizeBits: the width of the window
          WordBits   \* bits in one word of the bitmap: 64 in the code

ASSUME SizeAssumption == Size \in Nat \ {0}
ASSUME WordBitsAssumption == WordBits \in Nat \ {0}

\* len(w.bits)
NWords == (Size + WordBits - 1) \div WordBits

Words == 0 .. NWords - 1

Word == SUBSET (0 .. WordBits - 1)

Bitmap == [Words -> Word]

Window == [max : Nat, start : Nat, bits : Bitmap, zeroSeen : BOOLEAN]

Cleared == [i \in Words |-> {}]

newReplayWindow == [max |-> 0, start |-> 0, bits |-> Cleared, zeroSeen |-> FALSE]

windowStart(max) == IF max >= Size THEN max - Size + 1 ELSE 0

getBit(bits, idx) == idx % WordBits \in bits[idx \div WordBits]

\* Mutant: only the bits that stay in their word survive a slide.
SlideNoCarry(bits, shift) ==
  LET dw == shift \div WordBits
      db == shift % WordBits
      At(i) == IF i \in Words THEN bits[i] ELSE {}
  IN  [i \in Words |-> {b \in 0 .. WordBits - 1 : b + db \in At(i + dw)}]

\* Whether the index of an access to w.bits is within the slice.
InRange(idx) == idx \div WordBits \in Words

\* What is left of the bitmap when an access is not: Go panics, and there is
\* no window any more.
Panic == <<>>

setBit(bits, idx) ==
  IF InRange(idx) THEN [bits EXCEPT ![idx \div WordBits] = @ \cup {idx % WordBits}]
                  ELSE Panic

ShiftRight(v, k) == {b \in 0 .. WordBits - 1 : b + k \in v}

ShiftLeft(v, k) == {b \in 0 .. WordBits - 1 : b - k \in v}

\* Every word of the bitmap moved down by `shift` bits: word i receives the
\* high bits of word i+dw and the low bits of its right neighbour.
Slide(bits, shift) ==
  LET dw == shift \div WordBits
      db == shift % WordBits
      At(i) == IF i \in Words THEN bits[i] ELSE {}
  IN  [i \in Words |-> ShiftRight(At(i + dw), db)
                         \cup ShiftLeft(At(i + dw + 1), WordBits - db)]

\* Mutant: the bits move and so does max, but start is left behind.
advanceKeepsStart(w, nonce) ==
  LET shift == windowStart(nonce) - w.start
  IN  [w EXCEPT !.max = nonce,
                !.bits = IF shift = 0 THEN @ ELSE IF shift >= Size THEN Cleared ELSE Slide(@, shift)]

advance(w, nonce) ==
  LET newStart == windowStart(nonce)
      shift == newStart - w.start
  IN  [max |-> nonce,
       start |-> newStart,
       bits |-> IF shift = 0 THEN w.bits
                ELSE IF shift >= Size THEN Cleared
                ELSE Slide(w.bits, shift),
       zeroSeen |-> w.zeroSeen]

Check(w, nonce) ==
  IF nonce = 0 THEN ~w.zeroSeen
  ELSE \/ w.max = 0
       \/ nonce > w.max
       \/ nonce >= w.start /\ ~getBit(w.bits, nonce - w.start)

Commit(w, nonce) ==
  IF nonce = 0 THEN [w EXCEPT !.zeroSeen = TRUE]
  ELSE LET moved == IF w.max = 0
                      THEN [w EXCEPT !.max = nonce,
                                     !.start = windowStart(nonce),
                                     !.bits = Cleared]
                      ELSE IF nonce > w.max THEN advance(w, nonce) ELSE w
       IN  [moved EXCEPT !.bits = setBit(@, nonce - moved.start)]
=============================================================================
