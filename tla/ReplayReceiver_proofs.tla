----------------------- MODULE ReplayReceiver_proofs -----------------------
(***************************************************************************)
(* Proofs about the replay gate, for every window size and word width.     *)
(***************************************************************************)
EXTENDS ReplayReceiver, TLAPS

(* A position splits into a word number and a bit number in one way only.   *)
LEMMA DivModUnique ==
  ASSUME NEW q \in Nat, NEW r \in 0 .. WordBits - 1
  PROVE  /\ (q * WordBits + r) \div WordBits = q
         /\ (q * WordBits + r) % WordBits = r
  BY WordBitsAssumption, SMT

(* Every natural number is its word number times the width plus its bit.    *)
LEMMA DivMod ==
  ASSUME NEW n \in Nat
  PROVE  /\ n \div WordBits \in Nat
         /\ n % WordBits \in 0 .. WordBits - 1
         /\ n = (n \div WordBits) * WordBits + (n % WordBits)
  BY WordBitsAssumption, SMT

(* Multiplying by the word width keeps the order.                           *)
LEMMA TimesMonotone ==
  ASSUME NEW a \in Nat, NEW b \in Nat, a <= b
  PROVE  a * WordBits <= b * WordBits
<1>1. PICK d \in Nat : b = a + d
  <2>1. b - a \in Nat /\ b = a + (b - a)
    BY SMT
  <2> QED
    BY <2>1
<1>2. b * WordBits = a * WordBits + d * WordBits
  BY <1>1, WordBitsAssumption, SMT
<1>3. d * WordBits \in Nat
  BY WordBitsAssumption, SMT
<1> QED
  BY <1>2, <1>3, WordBitsAssumption, SMT

(* The bitmap has room for every offset within the window.                  *)
LEMMA Room ==
  /\ NWords \in Nat
  /\ NWords * WordBits >= Size
  BY SizeAssumption, WordBitsAssumption, SMT DEF NWords

Bits == 0 .. NWords * WordBits - 1

(* An offset of the bitmap lies in one of its words.                        *)
LEMMA WordOf ==
  ASSUME NEW idx \in Bits
  PROVE  idx \in Nat /\ idx \div WordBits \in Words /\ idx % WordBits \in 0 .. WordBits - 1
<1>1. NWords \in Nat /\ idx \in Nat
  BY Room, WordBitsAssumption, SMT DEF Bits
<1>2. /\ idx \div WordBits \in Nat
      /\ idx % WordBits \in 0 .. WordBits - 1
      /\ idx = (idx \div WordBits) * WordBits + (idx % WordBits)
  BY <1>1, DivMod
<1>3. idx < NWords * WordBits
  BY <1>1, WordBitsAssumption, SMT DEF Bits
<1>4. idx \div WordBits < NWords
  BY <1>1, <1>2, <1>3, WordBitsAssumption, SMT
<1> QED
  BY <1>1, <1>2, <1>4, SMT DEF Words

(* Adding a shift to an offset adds word numbers and bit numbers, with a    *)
(* carry when the bit numbers overflow the word.                            *)
LEMMA ShiftSplit ==
  ASSUME NEW idx \in Nat, NEW shift \in Nat
  PROVE  LET q == idx \div WordBits
             r == idx % WordBits
             dw == shift \div WordBits
             db == shift % WordBits
         IN  IF r + db < WordBits
               THEN /\ (idx + shift) \div WordBits = q + dw
                    /\ (idx + shift) % WordBits = r + db
               ELSE /\ (idx + shift) \div WordBits = q + dw + 1
                    /\ (idx + shift) % WordBits = r + db - WordBits
<1> DEFINE q == idx \div WordBits
           r == idx % WordBits
           dw == shift \div WordBits
           db == shift % WordBits
<1>1. /\ q \in Nat /\ r \in 0 .. WordBits - 1 /\ idx = q * WordBits + r
      /\ dw \in Nat /\ db \in 0 .. WordBits - 1 /\ shift = dw * WordBits + db
  BY DivMod
<1> HIDE DEF q, r, dw, db
<1>2. CASE r + db < WordBits
  <2>1. /\ q + dw \in Nat /\ r + db \in 0 .. WordBits - 1
        /\ idx + shift = (q + dw) * WordBits + (r + db)
    BY <1>1, <1>2, WordBitsAssumption, SMT
  <2>2. (idx + shift) \div WordBits = q + dw /\ (idx + shift) % WordBits = r + db
    BY <2>1, DivModUnique
  <2> QED
    BY <1>2, <2>2 DEF q, r, dw, db
<1>3. CASE ~(r + db < WordBits)
  <2>1. /\ q + dw + 1 \in Nat /\ r + db - WordBits \in 0 .. WordBits - 1
        /\ idx + shift = (q + dw + 1) * WordBits + (r + db - WordBits)
    BY <1>1, <1>3, WordBitsAssumption, SMT
  <2>2. /\ (idx + shift) \div WordBits = q + dw + 1
        /\ (idx + shift) % WordBits = r + db - WordBits
    BY <2>1, DivModUnique
  <2> QED
    BY <1>3, <2>2 DEF q, r, dw, db
<1> QED
  BY <1>2, <1>3

(* The word-wise slide of advance moves every bit down by exactly shift     *)
(* positions and fills the top with zeros.                                  *)
LEMMA SlideBit ==
  ASSUME NEW bits \in Bitmap, NEW shift \in Nat, NEW idx \in Bits
  PROVE  getBit(Slide(bits, shift), idx) <=> (idx + shift \in Bits /\ getBit(bits, idx + shift))
<1> DEFINE q == idx \div WordBits
           r == idx % WordBits
           dw == shift \div WordBits
           db == shift % WordBits
           At(i) == IF i \in Words THEN bits[i] ELSE {}
<1>1. /\ idx \in Nat /\ q \in Words /\ q \in Nat /\ r \in 0 .. WordBits - 1
      /\ dw \in Nat /\ db \in 0 .. WordBits - 1
  BY WordOf, DivMod
<1>2. getBit(Slide(bits, shift), idx) <=> (r + db \in At(q + dw) \/ r - (WordBits - db) \in At(q + dw + 1))
  BY <1>1 DEF getBit, Slide, ShiftRight, ShiftLeft
<1>3. \A i : At(i) \subseteq 0 .. WordBits - 1
  BY DEF Bitmap, Word
<1>4. /\ NWords \in Nat
      /\ idx + shift \in Nat
      /\ (idx + shift) \div WordBits \in Nat
      /\ (idx + shift) % WordBits \in 0 .. WordBits - 1
      /\ idx + shift = ((idx + shift) \div WordBits) * WordBits + ((idx + shift) % WordBits)
  <2>1. idx + shift \in Nat
    BY <1>1, SMT
  <2> QED
    BY <2>1, DivMod, Room
<1>5. idx + shift \in Bits <=> (idx + shift) \div WordBits \in Words
  <2>1. idx + shift \in Bits => (idx + shift) \div WordBits \in Words
    BY WordOf
  <2>2. ASSUME (idx + shift) \div WordBits \in Words PROVE idx + shift \in Bits
    <3>1. (idx + shift) \div WordBits + 1 <= NWords
      BY <2>2, <1>4, SMT DEF Words
    <3>2. ((idx + shift) \div WordBits + 1) * WordBits <= NWords * WordBits
      BY <3>1, <1>4, TimesMonotone
    <3> QED
      BY <3>2, <1>4, WordBitsAssumption, SMT DEF Bits
  <2> QED
    BY <2>1, <2>2
<1>6. (idx + shift \in Bits /\ getBit(bits, idx + shift))
        <=> (idx + shift) % WordBits \in At((idx + shift) \div WordBits)
  BY <1>5 DEF getBit
<1>7. CASE r + db < WordBits
  <2>1. (idx + shift) \div WordBits = q + dw /\ (idx + shift) % WordBits = r + db
    BY <1>1, <1>7, ShiftSplit
  <2>2. r - (WordBits - db) \notin 0 .. WordBits - 1
    BY <1>1, <1>7, WordBitsAssumption, SMT
  <2> HIDE DEF q, r, dw, db, At
  <2> QED
    BY <1>2, <1>3, <1>6, <2>1, <2>2
<1>8. CASE ~(r + db < WordBits)
  <2>1. /\ (idx + shift) \div WordBits = q + dw + 1
        /\ (idx + shift) % WordBits = r + db - WordBits
    BY <1>1, <1>8, ShiftSplit
  <2>2. /\ r + db \notin 0 .. WordBits - 1
        /\ r - (WordBits - db) = r + db - WordBits
    BY <1>1, <1>8, WordBitsAssumption, SMT
  <2> HIDE DEF q, r, dw, db, At
  <2> QED
    BY <1>2, <1>3, <1>6, <2>1, <2>2
<1> QED
  BY <1>7, <1>8

-----------------------------------------------------------------------------
(* What ties a window to the set of nonces accepted so far: the bitmap is   *)
(* exactly the accepted nonces from start on, and no bit is set above max.  *)
Tracks(win, acc) ==
  /\ win \in Window
  /\ acc \in SUBSET Nat
  /\ win.start = windowStart(win.max)
  /\ win.max # 0 => win.max \in acc
  /\ \A n \in acc : n <= win.max
  /\ win.zeroSeen <=> 0 \in acc
  /\ \A idx \in Bits : getBit(win.bits, idx) <=> (win.start + idx \in acc \ {0})

IInv == verdict \in Verdict /\ Tracks(w, accepted)

(* The newest nonce is always less than a window above start.               *)
LEMMA StartBounds ==
  ASSUME NEW m \in Nat
  PROVE  /\ windowStart(m) \in Nat
         /\ windowStart(m) <= m
         /\ m - windowStart(m) < Size
         /\ \A n \in Nat : n < windowStart(m) <=> m >= n + Size
  BY SizeAssumption, SMT DEF windowStart

(* Every offset below Size is an offset of the bitmap.                      *)
LEMMA InBits ==
  ASSUME NEW idx \in Nat, idx < Size
  PROVE  idx \in Bits
<1>1. NWords * WordBits \in Nat
  BY Room, WordBitsAssumption, SMT
<1> QED
  BY <1>1, Room, SizeAssumption, SMT DEF Bits

(* A cleared bitmap has no bit set.                                         *)
LEMMA ClearedBit ==
  /\ Cleared \in Bitmap
  /\ \A idx \in Bits : ~getBit(Cleared, idx)
<1>1. Cleared \in Bitmap
  BY DEF Cleared, Bitmap, Word
<1>2. ASSUME NEW idx \in Bits PROVE ~getBit(Cleared, idx)
  BY WordOf DEF getBit, Cleared
<1> QED
  BY <1>1, <1>2

(* setBit sets one bit and no other.                                        *)
LEMMA SetBit ==
  ASSUME NEW bits \in Bitmap, NEW k \in Bits
  PROVE  /\ setBit(bits, k) \in Bitmap
         /\ \A idx \in Bits : getBit(setBit(bits, k), idx) <=> (idx = k \/ getBit(bits, idx))
<1>1. /\ k \div WordBits \in Words
      /\ k % WordBits \in 0 .. WordBits - 1
  BY WordOf
<1>2. setBit(bits, k) \in Bitmap
  BY <1>1 DEF setBit, InRange, Bitmap, Word
<1>3. ASSUME NEW idx \in Bits
      PROVE  getBit(setBit(bits, k), idx) <=> (idx = k \/ getBit(bits, idx))
  <2>1. /\ idx \div WordBits \in Words
        /\ idx % WordBits \in 0 .. WordBits - 1
        /\ k \in Nat /\ idx \in Nat
    BY WordOf
  <2>2. (idx \div WordBits = k \div WordBits /\ idx % WordBits = k % WordBits) => idx = k
    <3>1. /\ idx = (idx \div WordBits) * WordBits + (idx % WordBits)
          /\ k = (k \div WordBits) * WordBits + (k % WordBits)
      BY <2>1, DivMod
    <3> QED
      BY <3>1
  <2>3. getBit(setBit(bits, k), idx)
          <=> (idx % WordBits \in bits[idx \div WordBits]
                \/ (idx \div WordBits = k \div WordBits /\ idx % WordBits = k % WordBits))
    BY <1>1, <2>1 DEF setBit, InRange, getBit, Bitmap
  <2> QED
    BY <2>2, <2>3 DEF getBit
<1> QED
  BY <1>2, <1>3

(* Sliding keeps a bitmap a bitmap.                                         *)
LEMMA SlideType ==
  ASSUME NEW bits \in Bitmap, NEW shift \in Nat
  PROVE  Slide(bits, shift) \in Bitmap
  BY DEF Slide, Bitmap, Word, ShiftRight, ShiftLeft

(* A nonce that is new and less than a window behind the accepted ones.     *)
FreshIn(acc, n) == n \notin acc /\ (n = 0 \/ ~(\E m \in acc : m >= n + Size))

(* The bitmap's answer is the answer of the set of accepted nonces.         *)
LEMMA CheckIsFresh ==
  ASSUME NEW win, NEW acc, Tracks(win, acc), NEW n \in Nat
  PROVE  Check(win, n) <=> FreshIn(acc, n)
<1>1. CASE n = 0
  BY <1>1 DEF Check, FreshIn, Tracks
<1>2. CASE n # 0
  <2>1. /\ win.max \in Nat /\ win.start \in Nat /\ acc \subseteq Nat
        /\ win.start = windowStart(win.max)
        /\ \A m \in acc : m <= win.max
        /\ win.max # 0 => win.max \in acc
    BY DEF Tracks, Window
  <2>2. Check(win, n) <=> \/ win.max = 0
                          \/ n > win.max
                          \/ n >= win.start /\ ~getBit(win.bits, n - win.start)
    BY <1>2 DEF Check
  <2>3. FreshIn(acc, n) <=> (n \notin acc /\ ~(\E m \in acc : m >= n + Size))
    BY <1>2 DEF FreshIn
  <2>4. CASE win.max = 0 \/ n > win.max
    <3>1. n \notin acc
      BY <2>1, <2>4, <1>2, SMT
    <3>2. ~(\E m \in acc : m >= n + Size)
      BY <2>1, <2>4, <1>2, SizeAssumption, SMT
    <3> QED
      BY <2>2, <2>3, <2>4, <3>1, <3>2
  <2>5. CASE win.max # 0 /\ ~(n > win.max) /\ n < win.start
    <3>1. win.max >= n + Size
      BY <2>1, <2>5, StartBounds
    <3>2. \E m \in acc : m >= n + Size
      BY <2>1, <2>5, <3>1
    <3>3. ~(n >= win.start)
      BY <2>1, <2>5, SMT
    <3> QED
      BY <2>2, <2>3, <2>5, <3>2, <3>3
  <2>6. CASE win.max # 0 /\ ~(n > win.max) /\ ~(n < win.start)
    <3>1. n - win.start \in Nat /\ n - win.start < Size /\ win.start + (n - win.start) = n /\ n >= win.start
      <4>1. win.max - win.start < Size
        BY <2>1, StartBounds
      <4> QED
        BY <2>1, <2>6, <4>1, SizeAssumption, SMT
    <3>2. getBit(win.bits, n - win.start) <=> n \in acc
      <4>1. n - win.start \in Bits
        BY <3>1, InBits
      <4>2. getBit(win.bits, n - win.start) <=> (win.start + (n - win.start) \in acc \ {0})
        BY <4>1 DEF Tracks
      <4> QED
        BY <4>2, <3>1, <1>2
    <3>3. ~(win.max >= n + Size)
      BY <2>1, <2>6, StartBounds
    <3>4. ~(\E m \in acc : m >= n + Size)
      BY <2>1, <3>3, SizeAssumption, SMT
    <3> QED
      BY <2>2, <2>3, <2>6, <3>1, <3>2, <3>4
  <2> QED
    BY <2>4, <2>5, <2>6
<1> QED
  BY <1>1, <1>2

(* Making room for a newer nonce keeps the window in step with the accepted *)
(* nonces: the ones that stay inside keep their bit, the others lose it.    *)
LEMMA AdvanceTracks ==
  ASSUME NEW win, NEW acc, Tracks(win, acc), NEW n \in Nat, n > win.max, win.max # 0
  PROVE  /\ advance(win, n) \in Window
         /\ advance(win, n).max = n
         /\ advance(win, n).start = windowStart(n)
         /\ advance(win, n).zeroSeen = win.zeroSeen
         /\ \A idx \in Bits : getBit(advance(win, n).bits, idx)
                               <=> (windowStart(n) + idx \in acc \ {0})
<1> DEFINE newStart == windowStart(n)
           shift == newStart - win.start
           newBits == IF shift = 0 THEN win.bits
                      ELSE IF shift >= Size THEN Cleared
                      ELSE Slide(win.bits, shift)
<1>1. /\ win.max \in Nat /\ win.start \in Nat /\ win.bits \in Bitmap /\ win.zeroSeen \in BOOLEAN
      /\ win.start = windowStart(win.max)
      /\ acc \subseteq Nat
      /\ \A m \in acc : m <= win.max
      /\ \A idx \in Bits : getBit(win.bits, idx) <=> (win.start + idx \in acc \ {0})
  BY DEF Tracks, Window
<1>2. newStart \in Nat /\ shift \in Nat
  BY <1>1, SizeAssumption, SMT DEF windowStart
<1>3. win.max - win.start < Size
  BY <1>1, StartBounds
<1>4. newBits \in Bitmap
  BY <1>1, <1>2, ClearedBit, SlideType
<1>5. advance(win, n) = [max |-> n, start |-> newStart, bits |-> newBits, zeroSeen |-> win.zeroSeen]
  BY DEF advance
<1>6. ASSUME NEW idx \in Bits
      PROVE  getBit(newBits, idx) <=> (newStart + idx \in acc \ {0})
  <2>1. idx \in Nat
    BY WordOf
  <2>2. CASE shift = 0
    <3>1. newStart = win.start
      BY <1>1, <1>2, <2>2, SMT
    <3> QED
      BY <1>1, <2>2, <3>1
  <2>3. CASE shift # 0 /\ shift >= Size
    <3>1. newStart + idx > win.max
      BY <1>1, <1>2, <1>3, <2>1, <2>3, SizeAssumption, SMT
    <3>2. newStart + idx \notin acc
      BY <1>1, <1>2, <2>1, <3>1, SMT
    <3> QED
      BY <2>3, <3>2, ClearedBit
  <2>4. CASE shift # 0 /\ ~(shift >= Size)
    <3>1. newBits = Slide(win.bits, shift)
      BY <2>4
    <3>2. getBit(newBits, idx) <=> (idx + shift \in Bits /\ getBit(win.bits, idx + shift))
      BY <1>1, <1>2, <3>1, SlideBit
    <3>3. win.start + (idx + shift) = newStart + idx /\ idx + shift \in Nat
      BY <1>1, <1>2, <2>1, SMT
    <3>4. CASE idx + shift \in Bits
      BY <1>1, <3>2, <3>3, <3>4
    <3>5. CASE idx + shift \notin Bits
      <4>1. idx + shift >= Size
        BY <3>3, <3>5, InBits, SizeAssumption, SMT
      <4>2. newStart + idx > win.max
        BY <1>1, <1>2, <1>3, <2>1, <3>3, <4>1, SizeAssumption, SMT
      <4>3. newStart + idx \notin acc
        BY <1>1, <1>2, <2>1, <4>2, SMT
      <4> QED
        BY <3>2, <3>5, <4>3
    <3> QED
      BY <3>4, <3>5
  <2> QED
    BY <2>2, <2>3, <2>4
<1> HIDE DEF newStart, newBits
<1>7. advance(win, n) \in Window
  BY <1>1, <1>2, <1>4, <1>5 DEF Window
<1> QED
  BY <1>5, <1>6, <1>7 DEF newStart

(* Committing a nonce the gate found fresh keeps the window in step with    *)
(* the accepted nonces.                                                     *)
LEMMA CommitTracks ==
  ASSUME NEW win, NEW acc, Tracks(win, acc), NEW n \in Nat, Check(win, n)
  PROVE  Tracks(Commit(win, n), acc \cup {n})
<1>1. /\ win \in Window /\ acc \subseteq Nat
      /\ win.max \in Nat /\ win.start \in Nat /\ win.bits \in Bitmap /\ win.zeroSeen \in BOOLEAN
      /\ win.start = windowStart(win.max)
      /\ win.max # 0 => win.max \in acc
      /\ \A m \in acc : m <= win.max
      /\ win.zeroSeen <=> 0 \in acc
      /\ \A idx \in Bits : getBit(win.bits, idx) <=> (win.start + idx \in acc \ {0})
  BY DEF Tracks, Window
<1>2. CASE n = 0
  <2>1. /\ Commit(win, n) \in Window
        /\ Commit(win, n).max = win.max /\ Commit(win, n).start = win.start
        /\ Commit(win, n).bits = win.bits /\ Commit(win, n).zeroSeen = TRUE
    BY <1>1, <1>2 DEF Commit, Window
  <2>2. (acc \cup {n}) \ {0} = acc \ {0} /\ 0 \in acc \cup {n}
    BY <1>2
  <2>3. \A m \in acc \cup {n} : m <= win.max
    BY <1>1, <1>2, SMT
  <2> QED
    BY <1>1, <2>1, <2>2, <2>3 DEF Tracks
<1>3. CASE n # 0
  <2> DEFINE fresh == [win EXCEPT !.max = n, !.start = windowStart(n), !.bits = Cleared]
             moved == IF win.max = 0 THEN fresh
                      ELSE IF n > win.max THEN advance(win, n) ELSE win
             top == IF n > win.max THEN n ELSE win.max
  <2>1. windowStart(n) \in Nat /\ windowStart(n) <= n /\ n - windowStart(n) < Size
    BY StartBounds
  <2>2. /\ moved \in Window /\ moved.max = top /\ moved.start = windowStart(top)
        /\ moved.zeroSeen = win.zeroSeen
        /\ \A idx \in Bits : getBit(moved.bits, idx) <=> (moved.start + idx \in acc \ {0})
    <3>1. CASE win.max = 0
      <4>1. /\ fresh \in Window /\ fresh.max = n /\ fresh.start = windowStart(n)
            /\ fresh.zeroSeen = win.zeroSeen /\ fresh.bits = Cleared
        BY <1>1, <2>1, ClearedBit DEF Window
      <4>2. acc \ {0} = {}
        BY <1>1, <3>1, SMT
      <4>3. top = n
        BY <1>1, <1>3, <3>1, SMT
      <4> HIDE DEF fresh, top
      <4> QED
        BY <3>1, <4>1, <4>2, <4>3, ClearedBit
    <3>2. CASE win.max # 0 /\ n > win.max
      <4>1. moved = advance(win, n) /\ top = n
        BY <3>2
      <4>2. /\ advance(win, n) \in Window
            /\ advance(win, n).max = n
            /\ advance(win, n).start = windowStart(n)
            /\ advance(win, n).zeroSeen = win.zeroSeen
            /\ \A idx \in Bits : getBit(advance(win, n).bits, idx)
                                  <=> (windowStart(n) + idx \in acc \ {0})
        BY <3>2, AdvanceTracks
      <4> HIDE DEF moved, top
      <4> QED
        BY <4>1, <4>2
    <3>3. CASE win.max # 0 /\ ~(n > win.max)
      BY <1>1, <3>3
    <3> QED
      BY <3>1, <3>2, <3>3
  <2>3. /\ top \in Nat /\ n <= top /\ top # 0 /\ top \in acc \cup {n}
        /\ \A m \in acc \cup {n} : m <= top
    <3>1. top \in Nat /\ n <= top /\ top # 0 /\ win.max <= top
      BY <1>1, <1>3, SMT
    <3>2. top \in acc \cup {n}
      BY <1>1, <1>3, SMT
    <3> QED
      BY <3>1, <3>2, <1>1, SMT
  <2>4. n >= windowStart(top)
    <3>1. CASE n > win.max
      BY <2>1, <3>1
    <3>2. CASE ~(n > win.max)
      <4>1. n >= win.start
        BY <1>1, <1>3, <3>2, SMT DEF Check, windowStart
      <4> QED
        BY <1>1, <3>2, <4>1
    <3> QED
      BY <3>1, <3>2
  <2> DEFINE k == n - moved.start
  <2> HIDE DEF moved, top
  <2>5. moved.start \in Nat /\ moved.bits \in Bitmap
    BY <2>2 DEF Window
  <2>6. k \in Nat /\ k < Size /\ moved.start + k = n
    <3>1. windowStart(top) \in Nat /\ top - windowStart(top) < Size
      BY <2>3, StartBounds
    <3> QED
      BY <2>2, <2>3, <2>4, <3>1, SizeAssumption, SMT
  <2>7. k \in Bits
    BY <2>6, InBits
  <2>8. Commit(win, n) = [moved EXCEPT !.bits = setBit(moved.bits, k)]
    BY <1>3 DEF Commit, moved
  <2>9. /\ setBit(moved.bits, k) \in Bitmap
        /\ \A idx \in Bits : getBit(setBit(moved.bits, k), idx)
                              <=> (idx = k \/ getBit(moved.bits, idx))
    BY <2>5, <2>7, SetBit
  <2>10. /\ Commit(win, n) \in Window
         /\ Commit(win, n).max = top /\ Commit(win, n).start = moved.start
         /\ Commit(win, n).zeroSeen = win.zeroSeen
         /\ Commit(win, n).bits = setBit(moved.bits, k)
    BY <2>2, <2>8, <2>9 DEF Window
  <2>11. ASSUME NEW idx \in Bits
         PROVE  getBit(Commit(win, n).bits, idx)
                  <=> (Commit(win, n).start + idx \in (acc \cup {n}) \ {0})
    <3>1. idx = k <=> moved.start + idx = n
      <4>1. idx \in Nat
        BY WordOf
      <4> QED
        BY <2>5, <2>6, <4>1, SMT
    <3> QED
      BY <1>3, <2>2, <2>9, <2>10, <3>1
  <2>12. win.zeroSeen <=> 0 \in acc \cup {n}
    BY <1>1, <1>3
  <2> QED
    BY <1>1, <2>2, <2>3, <2>10, <2>11, <2>12 DEF Tracks
<1> QED
  BY <1>2, <1>3

-----------------------------------------------------------------------------
(* A new session starts with an empty window and no accepted nonce.         *)
LEMMA NewTracks == Tracks(newReplayWindow, {})
<1>1. newReplayWindow \in Window
  BY ClearedBit DEF newReplayWindow, Window
<1>2. windowStart(0) = 0
  BY SizeAssumption, SMT DEF windowStart
<1> QED
  BY <1>1, <1>2, ClearedBit DEF Tracks, newReplayWindow

LEMMA InitIInv == Init => IInv
  BY NewTracks DEF Init, IInv, NoVerdict, Verdict

LEMMA NextIInv == IInv /\ [Next]_vars => IInv'
<1> SUFFICES ASSUME IInv, [Next]_vars PROVE IInv'
  OBVIOUS
<1>1. CASE setSessionLocked
  BY <1>1, NewTracks DEF setSessionLocked, IInv, NoVerdict, Verdict
<1>2. ASSUME NEW n \in Nonces, NEW authentic \in BOOLEAN, onData(n, authentic) PROVE IInv'
  <2>1. n \in Nat
    BY NoncesAssumption
  <2>2. verdict' \in Verdict
    BY <1>2, <2>1 DEF onData, Verdict, Check
  <2>3. CASE Check(w, n) /\ authentic
    <3>1. w' = Commit(w, n) /\ accepted' = accepted \cup {n}
      BY <1>2, <2>3 DEF onData
    <3> QED
      BY <2>1, <2>2, <2>3, <3>1, CommitTracks DEF IInv
  <2>4. CASE ~(Check(w, n) /\ authentic)
    <3>1. w' = w /\ accepted' = accepted
      BY <1>2, <2>4 DEF onData
    <3> QED
      BY <2>2, <3>1 DEF IInv
  <2> QED
    BY <2>3, <2>4
<1>3. CASE UNCHANGED vars
  BY <1>3 DEF vars, IInv
<1> QED
  BY <1>1, <1>2, <1>3 DEF Next

(* The bitmap and the accepted nonces stay in step in every reachable state.*)
THEOREM Invariance == Spec => []IInv
  BY InitIInv, NextIInv, PTL DEF Spec

(* Indexing the bitmap never panics, for every window size, word width and  *)
(* set of nonces: neither the bit Commit sets nor the bit Check looks up is  *)
(* ever outside the slice.                                                  *)
THEOREM NeverPanics == Spec => []NoPanic
<1>1. IInv => NoPanic
  <2> SUFFICES ASSUME IInv PROVE NoPanic
    OBVIOUS
  <2>1. /\ w.max \in Nat /\ w.start \in Nat /\ w.bits \in Bitmap
        /\ w.start = windowStart(w.max)
    BY DEF IInv, Tracks, Window
  <2>2. w.bits # Panic
    <3>1. 0 \in Words
      <4>1. 0 \in Nat /\ 0 < Size
        BY SizeAssumption
      <4>2. 0 \in Bits
        BY <4>1, InBits
      <4> QED
        BY <4>2, WordOf, Room, SMT DEF Words, Bits
    <3>2. DOMAIN w.bits = Words
      BY <2>1 DEF Bitmap
    <3>3. DOMAIN Panic = {}
      BY DEF Panic
    <3> QED
      BY <3>1, <3>2, <3>3
  <2>3. ASSUME NEW n \in Nonces, Reads(n)
        PROVE  InRange(n - w.start)
    <3>1. w.max - w.start < Size
      BY <2>1, StartBounds
    <3>2. n - w.start \in Nat /\ n - w.start < Size
      BY <2>1, <2>3, <3>1, NoncesAssumption, SizeAssumption, SMT DEF Reads
    <3> QED
      BY <3>2, InBits, WordOf DEF InRange
  <2> QED
    BY <2>2, <2>3 DEF NoPanic
<1> QED
  BY <1>1, Invariance, PTL

(* No nonce is accepted twice in a session (Peer.onData delivers each DATA  *)
(* frame at most once), for every window size, word width and set of nonces.*)
THEOREM NeverReplayed == Spec => NoReplay
<1>1. IInv /\ [Next]_vars => [verdict'.ok => verdict'.nonce \notin accepted]_vars
  <2> SUFFICES ASSUME IInv, Next PROVE verdict'.ok => verdict'.nonce \notin accepted
    BY DEF vars
  <2>1. CASE setSessionLocked
    BY <2>1 DEF setSessionLocked, NoVerdict
  <2>2. ASSUME NEW n \in Nonces, NEW authentic \in BOOLEAN, onData(n, authentic)
        PROVE  verdict'.ok => verdict'.nonce \notin accepted
    <3>1. verdict'.nonce = n /\ (verdict'.ok => Check(w, n))
      BY <2>2 DEF onData
    <3>2. Check(w, n) <=> Gate!Fresh(n)
      BY NoncesAssumption, CheckIsFresh DEF IInv, FreshIn, Gate!Fresh, Gate!Outside
    <3> QED
      BY <3>1, <3>2 DEF Gate!Fresh
  <2> QED
    BY <2>1, <2>2 DEF Next
<1> QED
  BY <1>1, Invariance, PTL DEF Spec, NoReplay

(* The sliding bitmap implements the gate that remembers every accepted     *)
(* nonce: each step of the receiver is a step of ReplayGate.                *)
THEOREM Refinement == Spec => GateSpec
<1>1. Init => Gate!Init
  BY DEF Init, Gate!Init, NoVerdict, Gate!NoVerdict
<1>2. IInv /\ [Next]_vars => [Gate!Next]_(Gate!vars)
  <2> SUFFICES ASSUME IInv, [Next]_vars PROVE [Gate!Next]_(Gate!vars)
    OBVIOUS
  <2>1. CASE setSessionLocked
    BY <2>1 DEF setSessionLocked, NoVerdict, Gate!Next, Gate!NewSession, Gate!NoVerdict
  <2>2. ASSUME NEW n \in Nonces, NEW authentic \in BOOLEAN, onData(n, authentic)
        PROVE  Gate!Deliver(n, authentic)
    <3>1. Check(w, n) <=> Gate!Fresh(n)
      BY NoncesAssumption, CheckIsFresh DEF IInv, FreshIn, Gate!Fresh, Gate!Outside
    <3>2. Check(w, n) \in BOOLEAN /\ Gate!Fresh(n) \in BOOLEAN
      BY DEF Check, Gate!Fresh
    <3>3. (Check(w, n) /\ authentic) = (Gate!Fresh(n) /\ authentic)
      BY <3>1, <3>2
    <3> QED
      BY <2>2, <3>3 DEF onData, Gate!Deliver
  <2>3. CASE UNCHANGED vars
    BY <2>3 DEF vars, Gate!vars
  <2> QED
    BY <2>1, <2>2, <2>3 DEF Next, Gate!Next
<1> QED
  BY <1>1, <1>2, Invariance, PTL DEF Spec, GateSpec, Gate!Spec
=============================================================================
