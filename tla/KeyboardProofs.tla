--------------------------- MODULE KeyboardProofs ---------------------------
(***************************************************************************)
(* Read returns the scan codes of the ring buffer in their order, and the  *)
(* terminal gets shifted characters exactly while a shift key is down, for *)
(* every size of the buffer, set of keys and number of interrupts, and     *)
(* whatever programs write to the device.                                  *)
(***************************************************************************)
EXTENDS KeyboardDevice, Integers, TLAPS

-----------------------------------------------------------------------------
(* Indices modulo the size of the buffer                                   *)

(* Division with remainder.                                                *)
LEMMA Division ==
  ASSUME NEW n \in Nat, NEW b \in Nat \ {0}
  PROVE  /\ n \div b \in Nat /\ n % b \in 0..(b - 1)
         /\ n = b * (n \div b) + (n % b)
OBVIOUS

(* A multiple of b below the next one after that of e.                     *)
LEMMA Multiples ==
  ASSUME NEW d \in Int, NEW e \in Int, NEW b \in Nat \ {0}, b * d < b * e + b
  PROVE  d <= e
OBVIOUS

(* Quotient and remainder are unique.                                      *)
LEMMA Remainder ==
  ASSUME NEW b \in Nat \ {0}, NEW q \in Nat, NEW a \in 0..(b - 1)
  PROVE  (b * q + a) % b = a
<1>1. PICK n \in Nat : n = b * q + a
  OBVIOUS
<1>2. PICK p \in Nat, r \in 0..(b - 1) : n = b * p + r /\ r = n % b
  BY Zenon, <1>1, Division
<1>3. b * p \in Int /\ b * q \in Int
  OBVIOUS
<1>4. b * p < b * q + b /\ b * q < b * p + b
  BY <1>1, <1>2, <1>3
<1>5. p <= q /\ q <= p
  BY <1>4, Multiples
<1>6. p = q
  BY <1>5
<1>7. b * p = b * q
  BY <1>6
<1>8. r = a
  BY <1>1, <1>2, <1>3, <1>7
<1>9. QED
  BY <1>1, <1>2, <1>8

(* Whole rounds of the buffer come back to the same slot.                  *)
LEMMA RoundsKeepSlot ==
  ASSUME NEW b \in Nat \ {0}, NEW n \in Nat, NEW k \in Nat
  PROVE  (n + k * b) % b = n % b
<1>1. PICK q \in Nat, r \in 0..(b - 1) : n = b * q + r /\ r = n % b
  BY Zenon, Division
<1>2. q + k \in Nat /\ n + k * b \in Int
  BY <1>1
<1>3. b * (q + k) = b * q + k * b /\ b * q \in Int /\ k * b \in Int
  OBVIOUS
<1>4. n + k * b = b * (q + k) + r
  BY <1>1, <1>3
<1>5. (b * (q + k) + r) % b = r
  BY <1>1, <1>2, Remainder, Zenon
<1>6. QED
  BY <1>1, <1>4, <1>5

(* Two indices less than a round apart have different slots.               *)
LEMMA SlotsDiffer ==
  ASSUME NEW b \in Nat \ {0}, NEW m \in Nat, NEW n \in Nat, m < n, n < m + b
  PROVE  m % b # n % b
<1>1. SUFFICES ASSUME m % b = n % b PROVE FALSE
  OBVIOUS
<1>2. PICK p \in Nat, q \in Nat, r \in 0..(b - 1) : m = b * p + r /\ n = b * q + r
  <2>1. PICK p \in Nat, r \in 0..(b - 1) : m = b * p + r /\ r = m % b
    BY Zenon, Division
  <2>2. PICK q \in Nat, s \in 0..(b - 1) : n = b * q + s /\ s = n % b
    BY Zenon, Division
  <2>3. s = r
    BY Zenon, <1>1, <2>1, <2>2
  <2>4. QED
    BY Zenon, <2>1, <2>2, <2>3
<1>3. b * p \in Int /\ b * q \in Int
  OBVIOUS
<1>4. b * p < b * q /\ b * q < b * p + b
  BY <1>2, <1>3
<1>5. q <= p
  BY <1>4, Multiples
<1>6. ~(b * p < b * q)
  BY <1>5
<1>7. QED
  BY <1>4, <1>6

-----------------------------------------------------------------------------
(* The inductive invariant                                                 *)

Sides == {"left", "right"}

(* The slots of the last BUFFER_SIZE codes hold them.                      *)
SlotsHoldTyped ==
  \A k \in 0..writeIndex :
    k < writeIndex /\ writeIndex <= k + BUFFER_SIZE =>
      ringBuffer[k % BUFFER_SIZE] = typed[k + 1]

(* The two flags and the last character sent say which shift keys are      *)
(* held.                                                                   *)
FlagsFollowKeys ==
  /\ \A side \in Sides : shifting[side] <=> Held(side)
  /\ sent # <<>> => sent[2] = \E side \in {"left", "right"} : Held(side)

KInv ==
  /\ TypeOK
  /\ keys \in Seq(Codes) /\ typed \in Seq(Codes \cup {0})
  /\ SlotsHoldTyped
  /\ FlagsFollowKeys

(* What one more interrupt makes of the history of a shift key.            *)
LEMMA HeldAfter ==
  ASSUME NEW code \in Codes, NEW side, keys \in Seq(Codes), keys' = Append(keys, code)
  PROVE  Held(side)' <=> \/ code \in Shifts /\ SideOf[code] = side
                         \/ Held(side) /\ ~(code \in Releases /\ SideOf[code] = side)
<1>1. /\ Len(keys) \in Nat /\ DOMAIN keys = 1..Len(keys)
      /\ DOMAIN keys' = 1..(Len(keys) + 1)
      /\ keys'[Len(keys) + 1] = code
      /\ \A i \in 1..Len(keys) : keys'[i] = keys[i]
  OBVIOUS
<1>2. CASE code \in Shifts /\ SideOf[code] = side
  <2>1. /\ Len(keys) + 1 \in DOMAIN keys'
        /\ \A j \in DOMAIN keys' : ~(j > Len(keys) + 1)
    BY <1>1
  <2>2. QED
    BY <1>1, <1>2, <2>1 DEF Held
<1>3. CASE code \in Releases /\ SideOf[code] = side
  <2>1. code \notin Shifts
    BY <1>3, KeyboardAssumption
  <2>2. SUFFICES ASSUME NEW i \in DOMAIN keys', keys'[i] \in Shifts
                 PROVE  \E j \in DOMAIN keys' : j > i /\ keys'[j] \in Releases
                                                 /\ SideOf[keys'[j]] = side
    BY <1>3, <2>1 DEF Held
  <2>3. i # Len(keys) + 1
    BY <1>1, <2>1, <2>2
  <2>4. Len(keys) + 1 > i /\ Len(keys) + 1 \in DOMAIN keys'
    BY <1>1, <2>3
  <2>5. QED
    BY <1>1, <1>3, <2>4
<1>4. CASE /\ ~(code \in Shifts /\ SideOf[code] = side)
           /\ ~(code \in Releases /\ SideOf[code] = side)
  <2>1. ASSUME Held(side) PROVE Held(side)'
    <3>1. PICK i \in DOMAIN keys :
            /\ keys[i] \in Shifts /\ SideOf[keys[i]] = side
            /\ \A j \in DOMAIN keys : j > i /\ keys[j] \in Releases => SideOf[keys[j]] # side
      BY <2>1 DEF Held
    <3>2. i \in DOMAIN keys' /\ keys'[i] = keys[i]
      BY <1>1
    <3>3. ASSUME NEW j \in DOMAIN keys', j > i, keys'[j] \in Releases
          PROVE  SideOf[keys'[j]] # side
      <4>1. CASE j = Len(keys) + 1
        BY <1>1, <1>4, <3>3, <4>1
      <4>2. CASE j \in DOMAIN keys
        BY <1>1, <3>1, <3>3, <4>2
      <4>3. QED
        BY <1>1, <3>3, <4>1, <4>2
    <3>4. QED
      BY <3>1, <3>2, <3>3 DEF Held
  <2>2. ASSUME Held(side)' PROVE Held(side)
    <3>1. PICK i \in DOMAIN keys' :
            /\ keys'[i] \in Shifts /\ SideOf[keys'[i]] = side
            /\ \A j \in DOMAIN keys' : j > i /\ keys'[j] \in Releases => SideOf[keys'[j]] # side
      BY <2>2 DEF Held
    <3>2. i # Len(keys) + 1
      BY <1>1, <1>4, <3>1
    <3>3. i \in DOMAIN keys /\ keys'[i] = keys[i]
      BY <1>1, <3>2
    <3>4. ASSUME NEW j \in DOMAIN keys, j > i, keys[j] \in Releases
          PROVE  SideOf[keys[j]] # side
      BY <1>1, <3>1, <3>4
    <3>5. QED
      BY <3>1, <3>3, <3>4 DEF Held
  <2>3. QED
    BY <1>4, <2>1, <2>2
<1>5. QED
  BY <1>2, <1>3, <1>4

-----------------------------------------------------------------------------
(* The steps keep it                                                       *)

(* No interrupt has happened at the start.                                 *)
LEMMA InitKInv == Init => KInv
<1>1. SUFFICES ASSUME Init PROVE KInv
  OBVIOUS
<1>2. BUFFER_SIZE \in Nat \ {0}
  BY KeyboardAssumption
<1>3. TypeOK /\ keys \in Seq(Codes) /\ typed \in Seq(Codes \cup {0})
  BY <1>1, <1>2 DEF Init, TypeOK
<1>4. SlotsHoldTyped
  BY <1>1 DEF Init, SlotsHoldTyped
<1>5. \A side \in Sides : ~Held(side) /\ ~shifting[side]
  BY <1>1 DEF Init, Held, Sides
<1>6. FlagsFollowKeys
  BY <1>1, <1>5 DEF Init, FlagsFollowKeys
<1>7. QED
  BY <1>3, <1>4, <1>6 DEF KInv

(* The flags after the key, from the key alone.                            *)
LEMMA FlagsAfter ==
  ASSUME NEW code \in Codes, NEW side \in Sides, shifting \in [{"left", "right"} -> BOOLEAN]
  PROVE  /\ ShiftingAfter(code) \in [{"left", "right"} -> BOOLEAN]
         /\ ShiftingAfter(code)[side] <=>
              \/ code \in Shifts /\ SideOf[code] = side
              \/ shifting[side] /\ ~(code \in Releases /\ SideOf[code] = side)
<1>1. CASE code \in Shifts \cup Releases
  <2>1. SideOf[code] \in {"left", "right"} /\ ~(code \in Shifts /\ code \in Releases)
    BY <1>1, KeyboardAssumption
  <2>2. ShiftingAfter(code) = [shifting EXCEPT ![SideOf[code]] = code \in Shifts]
    BY <1>1 DEF ShiftingAfter
  <2>3. ShiftingAfter(code) \in [{"left", "right"} -> BOOLEAN]
    BY <2>1, <2>2
  <2>4. CASE SideOf[code] = side
    <3>1. ShiftingAfter(code)[side] = (code \in Shifts)
      BY <2>2, <2>4 DEF Sides
    <3>2. QED
      BY <1>1, <2>1, <2>3, <2>4, <3>1, Zenon
  <2>5. CASE SideOf[code] # side
    <3>1. ShiftingAfter(code)[side] = shifting[side]
      BY <2>2, <2>5 DEF Sides
    <3>2. QED
      BY <2>3, <2>5, <3>1, Zenon
  <2>6. QED
    BY <2>4, <2>5
<1>2. CASE code \notin Shifts \cup Releases
  BY <1>2 DEF ShiftingAfter
<1>3. QED
  BY <1>1, <1>2

(* A code overwrites the slot of one that is a whole round old, and no     *)
(* younger one.                                                            *)
LEMMA PushKeepsSlots ==
  ASSUME KInv, NEW code \in Codes \cup {0}, PushToBuffer(code)
  PROVE  /\ SlotsHoldTyped' /\ typed' \in Seq(Codes \cup {0})
         /\ ringBuffer' \in [0..(BUFFER_SIZE - 1) -> Codes \cup {0}]
         /\ writeIndex' = Len(typed') /\ writeIndex' \in Nat
         /\ \A n \in 0..writeIndex : n \in 0..writeIndex'
<1>1. BUFFER_SIZE \in Nat \ {0}
  BY KeyboardAssumption
<1>2. /\ typed \in Seq(Codes \cup {0}) /\ typed' = Append(typed, code)
      /\ writeIndex \in Nat /\ writeIndex = Len(typed) /\ writeIndex' = writeIndex + 1
      /\ ringBuffer \in [0..(BUFFER_SIZE - 1) -> Codes \cup {0}]
      /\ ringBuffer' = [ringBuffer EXCEPT ![writeIndex % BUFFER_SIZE] = code]
  BY DEF KInv, TypeOK, PushToBuffer, Slot
<1>3. typed' \in Seq(Codes \cup {0}) /\ Len(typed') = writeIndex + 1
  BY <1>2
<1>4. writeIndex % BUFFER_SIZE \in 0..(BUFFER_SIZE - 1)
  BY Zenon, <1>1, <1>2, Division
<1>5. ringBuffer' \in [0..(BUFFER_SIZE - 1) -> Codes \cup {0}]
  BY Zenon, <1>2
<1>6. SlotsHoldTyped'
  <2>1. SUFFICES ASSUME NEW k \in Nat, k < writeIndex + 1, writeIndex + 1 <= k + BUFFER_SIZE
                 PROVE  ringBuffer'[k % BUFFER_SIZE] = typed'[k + 1]
    BY <1>2 DEF SlotsHoldTyped
  <2>2. k % BUFFER_SIZE \in 0..(BUFFER_SIZE - 1)
    BY <1>1, Division
  <2>3. CASE k = writeIndex
    BY <1>2, <1>4, <2>3
  <2>4. CASE k < writeIndex
    <3>1. writeIndex < k + BUFFER_SIZE /\ writeIndex <= k + BUFFER_SIZE /\ k \in 0..writeIndex
      BY <1>1, <1>2, <2>1, <2>4
    <3>2. k % BUFFER_SIZE # writeIndex % BUFFER_SIZE
      BY <1>1, <1>2, <2>4, <3>1, SlotsDiffer, Zenon
    <3>3. ringBuffer'[k % BUFFER_SIZE] = ringBuffer[k % BUFFER_SIZE]
      BY <1>2, <2>2, <3>2
    <3>4. ringBuffer[k % BUFFER_SIZE] = typed[k + 1]
      BY <2>4, <3>1, Zenon DEF KInv, SlotsHoldTyped
    <3>5. typed'[k + 1] = typed[k + 1]
      BY <1>2, <2>4
    <3>6. QED
      BY <3>3, <3>4, <3>5
  <2>5. QED
    BY <1>2, <2>1, <2>3, <2>4
<1>7. QED
  BY <1>2, <1>3, <1>5, <1>6

(* An interrupt stores its code and moves the flags.                       *)
LEMMA InterruptKeepsKInv ==
  ASSUME KInv, NEW code \in Codes, KeyboardInterruptHandler(code)
  PROVE  KInv'
<1>1. /\ PushToBuffer(code) /\ code \in Codes \cup {0}
      /\ keys \in Seq(Codes) /\ keys' = Append(keys, code)
      /\ readIndex \in 0..writeIndex /\ UNCHANGED <<readIndex, flushed, got>>
  BY DEF KInv, TypeOK, KeyboardInterruptHandler
<1>2. keys' \in Seq(Codes)
  BY <1>1
<1>3. /\ SlotsHoldTyped' /\ typed' \in Seq(Codes \cup {0})
      /\ ringBuffer' \in [0..(BUFFER_SIZE - 1) -> Codes \cup {0}]
      /\ writeIndex' = Len(typed') /\ readIndex' \in 0..writeIndex'
  BY Zenon, <1>1, PushKeepsSlots
<1>4. TypeOK'
  <2>1. shifting' \in [{"left", "right"} -> BOOLEAN]
    BY FlagsAfter DEF KInv, TypeOK, KeyboardInterruptHandler, Sides
  <2>2. QED
    BY Zenon, <1>1, <1>3, <2>1 DEF KInv, TypeOK
<1>5. FlagsFollowKeys'
  <2>1. \A side \in Sides : shifting[side] <=> Held(side)
    BY Zenon DEF KInv, FlagsFollowKeys
  <2>2. ASSUME NEW side \in Sides PROVE shifting'[side] <=> Held(side)'
    <3>1. shifting'[side] <=> \/ code \in Shifts /\ SideOf[code] = side
                              \/ shifting[side] /\ ~(code \in Releases /\ SideOf[code] = side)
      BY FlagsAfter DEF KInv, TypeOK, KeyboardInterruptHandler
    <3>2. QED
      BY Zenon, <1>1, <2>1, <3>1, HeldAfter
  <2>3. ASSUME sent' # <<>> PROVE sent'[2] = \E side \in {"left", "right"} : Held(side)'
    <3>1. sent' = <<code, shifting'["left"] \/ shifting'["right"]>>
      BY <2>3 DEF KeyboardInterruptHandler, Shifted
    <3>2. sent'[2] = (shifting'["left"] \/ shifting'["right"])
      BY <3>1
    <3>3. (shifting'["left"] \/ shifting'["right"]) = \E side \in {"left", "right"} : Held(side)'
      BY <2>2, Zenon DEF Sides
    <3>4. QED
      BY <3>2, <3>3, Zenon
  <2>4. QED
    BY Zenon, <2>2, <2>3 DEF FlagsFollowKeys
<1>6. QED
  BY Zenon, <1>2, <1>3, <1>4, <1>5 DEF KInv

(* A step that leaves the history of interrupts, the flags and the last    *)
(* character alone.                                                        *)
LEMMA SameFlags ==
  ASSUME FlagsFollowKeys, UNCHANGED <<keys, shifting, sent>>
  PROVE  FlagsFollowKeys'
<1>1. \A side : Held(side)' = Held(side)
  BY Zenon DEF Held
<1>2. QED
  BY Zenon, <1>1 DEF FlagsFollowKeys

(* A program's byte goes to the buffer, and nowhere else.                  *)
LEMMA WriteKeepsKInv ==
  ASSUME KInv, NEW code \in Written, Write(code)
  PROVE  KInv'
<1>1. /\ PushToBuffer(code) /\ code \in Codes \cup {0}
      /\ readIndex \in 0..writeIndex
      /\ UNCHANGED <<shifting, readIndex, flushed, keys, sent, got>>
  BY KeyboardAssumption DEF KInv, TypeOK, Write, Codes
<1>2. /\ SlotsHoldTyped' /\ typed' \in Seq(Codes \cup {0})
      /\ ringBuffer' \in [0..(BUFFER_SIZE - 1) -> Codes \cup {0}]
      /\ writeIndex' = Len(typed') /\ readIndex' \in 0..writeIndex'
  BY Zenon, <1>1, PushKeepsSlots
<1>3. TypeOK'
  BY Zenon, <1>1, <1>2 DEF KInv, TypeOK
<1>4. FlagsFollowKeys'
  BY Zenon, <1>1, SameFlags DEF KInv
<1>5. QED
  BY Zenon, <1>1, <1>2, <1>3, <1>4 DEF KInv

(* The slot that Read takes: the newest code that was put there.           *)
LEMMA SlotRead ==
  ASSUME KInv, readIndex < writeIndex
  PROVE  LET rounds == (writeIndex - readIndex - 1) \div BUFFER_SIZE
         IN /\ readIndex + 1 + rounds * BUFFER_SIZE \in 1..Len(typed)
            /\ ringBuffer[Slot(readIndex)] = typed[readIndex + 1 + rounds * BUFFER_SIZE]
<1>1. BUFFER_SIZE \in Nat \ {0}
  BY KeyboardAssumption
<1>2. readIndex \in Nat /\ writeIndex \in Nat /\ writeIndex = Len(typed)
  BY DEF KInv, TypeOK
<1>3. PICK behind, rounds : /\ behind = writeIndex - readIndex - 1
                            /\ rounds = (writeIndex - readIndex - 1) \div BUFFER_SIZE
  OBVIOUS
<1>4. behind \in Nat /\ rounds = behind \div BUFFER_SIZE
  BY <1>2, <1>3
<1>5. /\ rounds \in Nat /\ behind % BUFFER_SIZE \in 0..(BUFFER_SIZE - 1)
      /\ behind = BUFFER_SIZE * rounds + (behind % BUFFER_SIZE)
  BY Zenon, <1>1, <1>4, Division
<1>6. PICK k : k = readIndex + rounds * BUFFER_SIZE
  OBVIOUS
<1>7. rounds * BUFFER_SIZE = BUFFER_SIZE * rounds /\ rounds * BUFFER_SIZE \in Nat
  BY <1>1, <1>5
<1>8. k \in 0..writeIndex /\ k < writeIndex /\ writeIndex <= k + BUFFER_SIZE
  BY <1>1, <1>2, <1>3, <1>5, <1>6, <1>7
<1>9. k % BUFFER_SIZE = readIndex % BUFFER_SIZE
  BY Zenon, <1>1, <1>2, <1>5, <1>6, RoundsKeepSlot
<1>10. ringBuffer[k % BUFFER_SIZE] = typed[k + 1]
  BY <1>8, Zenon DEF KInv, SlotsHoldTyped
<1>11. readIndex + 1 + rounds * BUFFER_SIZE = k + 1 /\ k + 1 \in 1..Len(typed)
  BY <1>2, <1>6, <1>7, <1>8
<1>12. QED
  BY <1>3, <1>9, <1>10, <1>11, Zenon DEF Slot

(* Read moves readIndex at most up to writeIndex; the first one forgets    *)
(* the codes before it.                                                    *)
LEMMA ReadKeepsKInv ==
  ASSUME KInv, Read
  PROVE  KInv'
<1>1. /\ typed \in Seq(Codes \cup {0}) /\ keys' \in Seq(Codes) /\ flushed' = TRUE
      /\ readIndex \in Nat /\ writeIndex \in Nat /\ readIndex <= writeIndex
      /\ writeIndex = Len(typed) /\ flushed \in BOOLEAN
      /\ UNCHANGED <<keys, shifting, ringBuffer, sent>>
  BY DEF KInv, TypeOK, Read
<1>2. FlagsFollowKeys'
  BY Zenon, <1>1, SameFlags DEF KInv
<1>3. CASE ~flushed
  <2>1. writeIndex' = 0 /\ typed' = <<>> /\ readIndex' = 0 /\ got' = <<>>
    BY <1>3 DEF Read, Flush
  <2>2. TypeOK' /\ typed' \in Seq(Codes \cup {0})
    BY <1>1, <2>1 DEF KInv, TypeOK
  <2>3. SlotsHoldTyped'
    BY <2>1 DEF SlotsHoldTyped
  <2>4. QED
    BY Zenon, <1>1, <1>2, <2>2, <2>3 DEF KInv
<1>4. CASE flushed
  <2>1. typed' = typed /\ writeIndex' = writeIndex
    BY <1>4 DEF Read, Flush
  <2>2. SlotsHoldTyped'
    BY <1>1, <2>1 DEF KInv, SlotsHoldTyped
  <2>3. CASE readIndex >= writeIndex
    <3>1. readIndex' = readIndex /\ got' = <<>>
      BY <1>4, <2>3 DEF Read, Flush
    <3>2. TypeOK'
      BY <1>1, <2>1, <3>1 DEF KInv, TypeOK
    <3>3. QED
      BY Zenon, <1>1, <1>2, <2>1, <2>2, <3>2 DEF KInv
  <2>4. CASE readIndex < writeIndex
    <3>1. readIndex' = readIndex + 1 /\ got' = Result(ringBuffer[Slot(readIndex)])
      BY <1>1, <1>4, <2>4 DEF Read, Flush
    <3>2. PICK n \in 1..Len(typed) : ringBuffer[Slot(readIndex)] = typed[n]
      BY <2>4, SlotRead, Zenon
    <3>3. ringBuffer[Slot(readIndex)] \in Codes \cup {0}
      BY <1>1, <3>2
    <3>4. got' \in {<<>>} \cup {<<code>> : code \in Codes}
      BY Zenon, <3>1, <3>3 DEF Result
    <3>5. readIndex' \in 0..writeIndex'
      BY <1>1, <2>1, <2>4, <3>1
    <3>6. TypeOK'
      BY <1>1, <2>1, <3>4, <3>5 DEF KInv, TypeOK
    <3>7. QED
      BY Zenon, <1>1, <1>2, <2>1, <2>2, <3>6 DEF KInv
  <2>5. QED
    BY <1>1, <2>3, <2>4
<1>5. QED
  BY <1>1, <1>3, <1>4

(* KInv is inductive.                                                      *)
LEMMA SpecKInv == Spec => []KInv
<1>1. ASSUME KInv, UNCHANGED vars PROVE KInv'
  <2>1. TypeOK' /\ SlotsHoldTyped' /\ keys' \in Seq(Codes) /\ typed' \in Seq(Codes \cup {0})
    BY <1>1 DEF KInv, vars, TypeOK, SlotsHoldTyped
  <2>2. UNCHANGED <<keys, shifting, sent>>
    BY <1>1 DEF vars
  <2>3. FlagsFollowKeys'
    BY Zenon, <1>1, <2>2, SameFlags DEF KInv
  <2>4. QED
    BY Zenon, <2>1, <2>3 DEF KInv
<1>2. KInv /\ [Next]_vars => KInv'
  BY Zenon, <1>1, InterruptKeepsKInv, WriteKeepsKInv, ReadKeepsKInv DEF Next
<1>3. QED
  BY <1>2, InitKInv, PTL DEF Spec

-----------------------------------------------------------------------------
(* Theorems                                                                *)

(* readIndex never passes writeIndex, so the assertion of GetFromBuffer    *)
(* holds for every size of the buffer and any number of interrupts.        *)
THEOREM ReaderStaysBehind == Spec => []TypeOK
BY SpecKInv, PTL DEF KInv

(* GetFromBuffer returns the codes in the order of the interrupts and of   *)
(* the writes, and in place of one that was overwritten the newest one of  *)
(* its slot.                                                               *)
THEOREM CodesAreReadInOrder == Spec => ReadsInOrder
<1>1. ASSUME KInv, Next, readIndex' = readIndex + 1
      PROVE  LET rounds == (writeIndex - readIndex - 1) \div BUFFER_SIZE
             IN got' = Result(typed[readIndex + 1 + rounds * BUFFER_SIZE])
  <2>1. readIndex \in Nat /\ writeIndex \in Nat
    BY <1>1 DEF KInv, TypeOK
  <2>2. readIndex' # readIndex /\ readIndex' # 0
    BY <1>1, <2>1
  <2>3. Read
    BY <1>1, <2>2 DEF Next, KeyboardInterruptHandler, Write
  <2>4. flushed /\ readIndex < writeIndex
    BY <2>1, <2>2, <2>3 DEF Read, Flush
  <2>5. got' = Result(ringBuffer[Slot(readIndex)])
    BY <2>1, <2>3, <2>4 DEF Read, Flush
  <2>6. QED
    BY <1>1, <2>4, <2>5, SlotRead, Zenon
<1>2. KInv /\ [Next]_vars =>
        [readIndex' = readIndex + 1 =>
           LET rounds == (writeIndex - readIndex - 1) \div BUFFER_SIZE
           IN got' = Result(typed[readIndex + 1 + rounds * BUFFER_SIZE])]_vars
  BY <1>1, Zenon
<1>3. QED
  BY <1>2, SpecKInv, PTL DEF Spec, ReadsInOrder

(* SendKeyToTerminal gets the shifted character exactly while one of the   *)
(* two shift keys is down, in whatever order they go down and up, before   *)
(* the first Read and after it.                                            *)
THEOREM ShiftKeysAreTracked == Spec => ShiftIsTracked
<1>1. ASSUME KInv, Next, sent' # <<>>
      PROVE  sent'[2] = \E side \in {"left", "right"} : Held(side)
  <2>1. \A side \in Sides : shifting[side] <=> Held(side)
    BY <1>1 DEF KInv, FlagsFollowKeys
  <2>2. CASE \E code \in Codes : KeyboardInterruptHandler(code)
    <3>1. PICK code \in Codes : KeyboardInterruptHandler(code)
      BY <2>2
    <3>2. code \in ScanCodes /\ sent' = <<code, Shifted(shifting')>>
      BY <1>1, <3>1 DEF KeyboardInterruptHandler
    <3>3. shifting' = shifting
      BY <3>1, <3>2, KeyboardAssumption DEF KeyboardInterruptHandler, ShiftingAfter
    <3>4. sent'[2] = (shifting["left"] \/ shifting["right"])
      BY <3>2, <3>3 DEF Shifted
    <3>5. (shifting["left"] \/ shifting["right"]) = \E side \in {"left", "right"} : Held(side)
      BY <2>1, Zenon DEF Sides
    <3>6. QED
      BY <3>4, <3>5, Zenon
  <2>3. CASE Read \/ \E code \in Written : Write(code)
    <3>1. sent' = sent
      BY <2>3 DEF Read, Write
    <3>2. QED
      BY <1>1, <3>1, Zenon DEF KInv, FlagsFollowKeys
  <2>4. QED
    BY Zenon, <1>1, <2>2, <2>3 DEF Next
<1>2. KInv /\ [Next]_vars =>
        [sent' # <<>> =>
           sent'[2] = \E side \in {"left", "right"} : Held(side)]_vars
  BY <1>1, Zenon
<1>3. QED
  BY <1>2, SpecKInv, PTL DEF Spec, ShiftIsTracked
=============================================================================
