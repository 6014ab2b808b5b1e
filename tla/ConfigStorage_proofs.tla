------------------------ MODULE ConfigStorage_proofs ------------------------
(***************************************************************************)
(* Proofs about ConfigStorage, for every number of slots from two on,      *)
(* every width of the generation that leaves the slots inside half of it,  *)
(* and every set of configurations.                                        *)
(***************************************************************************)
EXTENDS ConfigStorage, SerialNumbers_proofs

-----------------------------------------------------------------------------
(***************************************************************************)
(* The journal as a function of the flash's content, so that the lemmas    *)
(* speak of the content before a step and after it alike.                  *)
(***************************************************************************)
Contents == [Slots -> Records \union {None}]

ValidIn(f) == {i \in Slots : Decodes(f[i])}

Rank(head, i) == WrappingSub(SLOT_COUNT, head, i)

HeadIn(f, head) ==
  /\ head \in ValidIn(f)
  /\ \A i \in ValidIn(f) :
       f[i].generation =
         WrappingSub(GENERATION_MODULUS, f[head].generation, Rank(head, i))

StoredIn(f) ==
  IF \E head \in Slots : HeadIn(f, head)
  THEN f[CHOOSE head \in Slots : HeadIn(f, head)].config
  ELSE None

\* The model's Valid, Stored and IsHead are the functions above of slots.
LEMMA InTermsOfSlots ==
  /\ Valid = ValidIn(slots) /\ Valid' = ValidIn(slots')
  /\ Stored = StoredIn(slots) /\ Stored' = StoredIn(slots')
  /\ \A i : (IsHead(i) <=> HeadIn(slots, i)) /\ (IsHead(i)' <=> HeadIn(slots', i))
  BY DEF Valid, ValidIn, Stored, StoredIn, IsHead, HeadIn, Rank

\* The two moduli, in the form the lemmas on wrapping counters ask for.
LEMMA ModuliAreNat ==
  /\ SLOT_COUNT \in Nat \ {0} /\ GENERATION_MODULUS \in Nat \ {0}
  /\ SLOT_COUNT < GENERATION_MODULUS
  /\ 2 * (SLOT_COUNT - 1) < GENERATION_MODULUS
  BY SlotAssumption

\* A slot that decodes holds a record.
LEMMA ValidType ==
  ASSUME NEW f \in Contents, NEW i \in ValidIn(f)
  PROVE  i \in Slots /\ f[i] \in Records /\ f[i].generation \in Generations
         /\ f[i].config \in Configs
  BY DEF Contents, ValidIn, Decodes, Records

\* Slots differ in their rank, and the head's own rank is zero.
LEMMA RankType ==
  ASSUME NEW h \in Slots, NEW i \in Slots, NEW j \in Slots
  PROVE  /\ Rank(h, i) \in 0 .. SLOT_COUNT - 1
         /\ Rank(h, i) = 0 <=> i = h
         /\ Rank(h, i) = Rank(h, j) => i = j
<1>1. /\ WrappingSub(SLOT_COUNT, h, i) = IF h >= i THEN h - i ELSE h - i + SLOT_COUNT
      /\ WrappingSub(SLOT_COUNT, h, j) = IF h >= j THEN h - j ELSE h - j + SLOT_COUNT
  BY WrappingSubCases, ModuliAreNat DEF Slots
<1>. QED
  BY <1>1, ModuliAreNat DEF Slots, Rank

(***************************************************************************)
(* Below one head, generation_is_newer is the order of the ranks, hence a  *)
(* total order: this is what the window of half the modulus is for.        *)
(***************************************************************************)
LEMMA GenerationsFollowRanks ==
  ASSUME NEW g \in Generations,
         NEW a \in 0 .. SLOT_COUNT - 1, NEW b \in 0 .. SLOT_COUNT - 1
  PROVE  generation_is_newer(WrappingSub(GENERATION_MODULUS, g, a),
                             WrappingSub(GENERATION_MODULUS, g, b)) <=> a < b
<1> DEFINE M == GENERATION_MODULUS
           ga == WrappingSub(M, g, a)
           gb == WrappingSub(M, g, b)
<1>1. /\ M \in Nat \ {0} /\ g \in 0 .. M - 1
      /\ a \in 0 .. M - 1 /\ b \in 0 .. M - 1
      /\ 2 * a < M /\ 2 * b < M
  BY ModuliAreNat DEF Generations
<1>2. /\ ga = IF g >= a THEN g - a ELSE g - a + M
      /\ gb = IF g >= b THEN g - b ELSE g - b + M
  BY <1>1, WrappingSubCases
<1>3. ga \in 0 .. M - 1 /\ gb \in 0 .. M - 1
  BY <1>1, <1>2
<1>4. WrappingSub(M, ga, gb) = IF ga >= gb THEN ga - gb ELSE ga - gb + M
  BY <1>1, <1>3, WrappingSubCases
<1> HIDE DEF M, ga, gb
<1>5. (ga # gb /\ 2 * WrappingSub(M, ga, gb) < M) <=> a < b
  BY <1>1, <1>2, <1>4
<1>. QED
  BY <1>5 DEF generation_is_newer, IsNewer, M, ga, gb

\* Of two valid slots generation_is_newer picks the one closer behind the head.
LEMMA NewerIsCloser ==
  ASSUME NEW f \in Contents, NEW h, HeadIn(f, h),
         NEW i \in ValidIn(f), NEW j \in ValidIn(f)
  PROVE  generation_is_newer(f[i].generation, f[j].generation)
           <=> Rank(h, i) < Rank(h, j)
<1>1. h \in ValidIn(f)
  BY DEF HeadIn
<1>2. f[h].generation \in Generations /\ h \in Slots /\ i \in Slots /\ j \in Slots
  BY <1>1, ValidType
<1>3. Rank(h, i) \in 0 .. SLOT_COUNT - 1 /\ Rank(h, j) \in 0 .. SLOT_COUNT - 1
  BY <1>2, RankType
<1>4. /\ f[i].generation = WrappingSub(GENERATION_MODULUS, f[h].generation, Rank(h, i))
      /\ f[j].generation = WrappingSub(GENERATION_MODULUS, f[h].generation, Rank(h, j))
  BY DEF HeadIn
<1>. QED
  BY <1>2, <1>3, <1>4, GenerationsFollowRanks

\* A journal has one head, and what is stored is its configuration.
LEMMA HeadUnique ==
  ASSUME NEW f \in Contents, NEW h, HeadIn(f, h), NEW k, HeadIn(f, k)
  PROVE  h = k
<1>1. h \in ValidIn(f) /\ k \in ValidIn(f) /\ h \in Slots /\ k \in Slots
  BY ValidType DEF HeadIn
<1>2. /\ Rank(h, k) \in Int /\ Rank(h, k) >= 0 /\ Rank(h, h) = 0
      /\ Rank(k, h) \in Int /\ Rank(k, h) >= 0 /\ Rank(k, k) = 0
      /\ Rank(h, k) = 0 => h = k
      /\ Rank(k, h) = 0 => h = k
  BY <1>1, RankType
<1>3. generation_is_newer(f[h].generation, f[k].generation) <=> Rank(h, h) < Rank(h, k)
  BY <1>1, NewerIsCloser
<1>4. generation_is_newer(f[h].generation, f[k].generation) <=> Rank(k, h) < Rank(k, k)
  BY <1>1, NewerIsCloser
<1>. QED
  BY <1>2, <1>3, <1>4

\* What load should find is the head's configuration.
LEMMA StoredIsHead ==
  ASSUME NEW f \in Contents, NEW h, HeadIn(f, h)
  PROVE  StoredIn(f) = f[h].config
<1>1. h \in Slots
  BY DEF HeadIn, ValidIn
<1> DEFINE k == CHOOSE k \in Slots : HeadIn(f, k)
<1>2. HeadIn(f, k)
  BY <1>1
<1>3. k = h
  BY <1>2, HeadUnique
<1>. QED
  BY <1>1, <1>3 DEF StoredIn

\* An empty journal stores nothing.
LEMMA StoredInEmpty ==
  ASSUME NEW f, ValidIn(f) = {}
  PROVE  StoredIn(f) = None
  BY DEF StoredIn, HeadIn
-----------------------------------------------------------------------------
(***************************************************************************)
(* What writing one slot does to the order.  Writing the slot after the    *)
(* head with the generation after the head's makes it the head; anything   *)
(* that does not decode, in a slot other than the head's, changes nothing. *)
(***************************************************************************)
\* The slot save writes is another one than the head's, and every other slot
\* falls one further behind it.
LEMMA NextRank ==
  ASSUME NEW h \in Slots, NEW i \in Slots
  PROVE  /\ (h + 1) % SLOT_COUNT \in Slots
         /\ (h + 1) % SLOT_COUNT # h
         /\ i # (h + 1) % SLOT_COUNT =>
              Rank((h + 1) % SLOT_COUNT, i) = Rank(h, i) + 1
<1> DEFINE s == (h + 1) % SLOT_COUNT
<1>1. s = IF h + 1 = SLOT_COUNT THEN 0 ELSE h + 1
  BY SlotAssumption DEF Slots
<1> HIDE DEF s
<1>2. s \in Slots /\ s # h
  BY <1>1, SlotAssumption DEF Slots
<1>3. /\ WrappingSub(SLOT_COUNT, h, i) = IF h >= i THEN h - i ELSE h - i + SLOT_COUNT
      /\ WrappingSub(SLOT_COUNT, s, i) = IF s >= i THEN s - i ELSE s - i + SLOT_COUNT
  BY <1>2, WrappingSubCases, ModuliAreNat DEF Slots
<1>4. i # s => Rank(s, i) = Rank(h, i) + 1
  BY <1>1, <1>2, <1>3, SlotAssumption DEF Slots, Rank
<1>. QED
  BY <1>2, <1>4 DEF s

\* The generation save writes puts every older one further behind by one, as
\* long as the distance stays below the number of slots.
LEMMA NextGeneration ==
  ASSUME NEW g \in Generations, NEW a \in 0 .. SLOT_COUNT - 1
  PROVE  /\ WrappingAdd(GENERATION_MODULUS, g, 1) \in Generations
         /\ a + 1 <= SLOT_COUNT - 1 =>
              WrappingSub(GENERATION_MODULUS, WrappingAdd(GENERATION_MODULUS, g, 1), a + 1)
                = WrappingSub(GENERATION_MODULUS, g, a)
<1> DEFINE M == GENERATION_MODULUS
           n == WrappingAdd(M, g, 1)
<1>1. n = IF g + 1 = M THEN 0 ELSE g + 1
  BY ModuliAreNat DEF Generations, WrappingAdd
<1> HIDE DEF n
<1>2. n \in 0 .. M - 1 /\ a \in 0 .. M - 1 /\ g \in 0 .. M - 1
  BY <1>1, ModuliAreNat DEF Generations
<1>3. WrappingSub(M, g, a) = IF g >= a THEN g - a ELSE g - a + M
  BY <1>2, WrappingSubCases, ModuliAreNat
<1>4. a + 1 <= SLOT_COUNT - 1 =>
        WrappingSub(M, n, a + 1) = IF n >= a + 1 THEN n - (a + 1) ELSE n - (a + 1) + M
  <2>1. a + 1 <= SLOT_COUNT - 1 => a + 1 \in 0 .. M - 1
    BY ModuliAreNat
  <2>. QED
    BY <1>2, <2>1, WrappingSubCases, ModuliAreNat
<1>5. a + 1 <= SLOT_COUNT - 1 => WrappingSub(M, n, a + 1) = WrappingSub(M, g, a)
  BY <1>1, <1>2, <1>3, <1>4, ModuliAreNat
<1>. QED
  BY <1>2, <1>5 DEF n, Generations

\* Erasing or tearing a slot other than the head's leaves the head.
LEMMA BlankedKeepsHead ==
  ASSUME NEW f \in Contents, NEW h, HeadIn(f, h), NEW s \in Slots, s # h,
         NEW x \in Records \union {None}, ~ Decodes(x)
  PROVE  HeadIn([f EXCEPT ![s] = x], h)
<1> DEFINE e == [f EXCEPT ![s] = x]
<1>1. \A i \in Slots : e[i] = IF i = s THEN x ELSE f[i]
  BY DEF Contents
<1>2. ValidIn(e) = ValidIn(f) \ {s}
  BY <1>1 DEF ValidIn
<1>3. h \in ValidIn(e) /\ e[h] = f[h]
  BY <1>1, <1>2 DEF HeadIn, ValidIn
<1>4. ASSUME NEW i \in ValidIn(e)
      PROVE  e[i].generation
               = WrappingSub(GENERATION_MODULUS, e[h].generation, Rank(h, i))
  <2>1. i \in ValidIn(f) /\ e[i] = f[i]
    BY <1>1, <1>2 DEF ValidIn
  <2>. QED
    BY <1>3, <2>1 DEF HeadIn
<1>. QED
  BY <1>3, <1>4 DEF HeadIn

\* Erasing or tearing a slot of an empty journal leaves it empty.
LEMMA BlankedStaysEmpty ==
  ASSUME NEW f \in Contents, ValidIn(f) = {}, NEW s \in Slots,
         NEW x \in Records \union {None}, ~ Decodes(x)
  PROVE  ValidIn([f EXCEPT ![s] = x]) = {}
  BY DEF ValidIn, Contents

\* The first record of an empty journal is its head.
LEMMA FirstRecordIsHead ==
  ASSUME NEW f \in Contents, ValidIn(f) = {}, NEW s \in Slots,
         NEW x \in Records, Decodes(x)
  PROVE  HeadIn([f EXCEPT ![s] = x], s)
<1> DEFINE e == [f EXCEPT ![s] = x]
<1>1. ValidIn(e) = {s} /\ e[s] = x
  BY DEF ValidIn, Contents
<1>2. Rank(s, s) = 0 /\ x.generation \in Generations
  BY RankType DEF Records
<1>3. WrappingSub(GENERATION_MODULUS, x.generation, 0) = x.generation
  BY <1>2, WrappingSubCases, ModuliAreNat DEF Generations
<1>. QED
  BY <1>1, <1>2, <1>3 DEF HeadIn

\* A record in the slot after the head's, with the generation after the
\* head's, is the new head.
LEMMA NextRecordIsHead ==
  ASSUME NEW f \in Contents, NEW h, HeadIn(f, h),
         NEW x \in Records, Decodes(x),
         x.generation = WrappingAdd(GENERATION_MODULUS, f[h].generation, 1)
  PROVE  HeadIn([f EXCEPT ![(h + 1) % SLOT_COUNT] = x], (h + 1) % SLOT_COUNT)
<1> DEFINE s == (h + 1) % SLOT_COUNT
           e == [f EXCEPT ![s] = x]
<1>1. h \in ValidIn(f) /\ h \in Slots /\ f[h].generation \in Generations
  BY ValidType DEF HeadIn
<1>2. s \in Slots /\ s # h
  BY <1>1, NextRank
<1>3. \A i \in Slots : e[i] = IF i = s THEN x ELSE f[i]
  BY <1>2 DEF Contents
<1>4. s \in ValidIn(e) /\ e[s] = x
  BY <1>2, <1>3 DEF ValidIn
<1>5. ASSUME NEW i \in ValidIn(e)
      PROVE  e[i].generation
               = WrappingSub(GENERATION_MODULUS, x.generation, Rank(s, i))
  <2>1. CASE i = s
    <3>1. Rank(s, s) = 0
      BY <1>2, RankType
    <3>2. WrappingSub(GENERATION_MODULUS, x.generation, 0) = x.generation
      BY WrappingSubCases, ModuliAreNat DEF Records, Generations
    <3>. QED
      BY <1>4, <2>1, <3>1, <3>2
  <2>2. CASE i # s
    <3>1. i \in ValidIn(f) /\ e[i] = f[i] /\ i \in Slots
      BY <1>3, <2>2 DEF ValidIn
    <3>2. f[i].generation
            = WrappingSub(GENERATION_MODULUS, f[h].generation, Rank(h, i))
      BY <3>1 DEF HeadIn
    <3>3. Rank(h, i) \in 0 .. SLOT_COUNT - 1 /\ Rank(s, i) \in 0 .. SLOT_COUNT - 1
      BY <1>1, <1>2, <3>1, RankType
    <3>4. Rank(s, i) = Rank(h, i) + 1
      BY <1>1, <2>2, <3>1, NextRank
    <3>5. WrappingSub(GENERATION_MODULUS, x.generation, Rank(h, i) + 1)
            = WrappingSub(GENERATION_MODULUS, f[h].generation, Rank(h, i))
      <4>1. Rank(h, i) + 1 <= SLOT_COUNT - 1
        BY <3>3, <3>4, ModuliAreNat
      <4>. QED
        BY <1>1, <3>3, <4>1, NextGeneration
    <3>. QED
      BY <3>1, <3>2, <3>4, <3>5
  <2>. QED
    BY <2>1, <2>2
<1>. QED
  BY <1>4, <1>5 DEF HeadIn
-----------------------------------------------------------------------------
(***************************************************************************)
(* The inductive invariant.  Beside the types and the order of the         *)
(* journal it says what load_latest knows after the slots it has read, and *)
(* that save, until its record is complete, leaves the head it found.      *)
(***************************************************************************)
ScanSoFar ==
  pc = "load_latest" =>
    /\ latest = None => \A i \in Valid : i >= slot
    /\ latest # None =>
         /\ latest \in Valid /\ latest < slot
         /\ \A i \in Valid \ {latest} :
              i < slot => generation_is_newer(slots[latest].generation,
                                              slots[i].generation)

Writing == {"erase", "write_body", "write_commit"}

FoundHead == IF latest = None THEN Valid = {} ELSE IsHead(latest)

SaveSoFar ==
  /\ pc \in Writing => FoundHead
  /\ pc = "write_body" => slots[next_slot] = None
  /\ pc = "write_commit" => slots[next_slot] \in {None, Body}
  /\ pc = "verify" =>
       \/ slots[next_slot] = None
       \/ slots[next_slot] = Record /\ IsHead(next_slot)

JournalInv == StorageTypeOK /\ JournalInOrder /\ ScanSoFar /\ SaveSoFar

\* What save is about to write is a record, and not where the head is.
LEMMA WriteType ==
  ASSUME StorageTypeOK, config # None
  PROVE  /\ next_slot \in Slots /\ next_slot # latest
         /\ next_generation \in Generations
         /\ Body \in Records /\ Record \in Records
         /\ Body.committed = FALSE /\ Record.committed = TRUE
         /\ Body # None /\ Record # None /\ Body # Record
         /\ ~ Decodes(Body) /\ Decodes(Record) /\ ~ Decodes(None)
         /\ Record.config = config /\ Record.generation = next_generation
<1>1. next_slot \in Slots /\ next_slot # latest
  <2>1. CASE latest = None
    BY <2>1, NoneAssumption, SlotAssumption DEF next_slot, Slots
  <2>2. CASE latest \in Slots
    BY <2>2, NextRank, NoneAssumption DEF next_slot, Slots
  <2>. QED
    BY <2>1, <2>2 DEF StorageTypeOK
<1>2. next_generation \in Generations
  <2>1. CASE latest = None
    BY <2>1, SlotAssumption DEF next_generation, Generations
  <2>2. CASE latest # None
    <3>1. slots[latest].generation \in Generations
      BY <2>2 DEF StorageTypeOK, Decodes, Records
    <3>2. 0 \in 0 .. SLOT_COUNT - 1
      BY SlotAssumption
    <3>. QED
      BY <2>2, <3>1, <3>2, NextGeneration DEF next_generation
  <2>. QED
    BY <2>1, <2>2
<1>3. config \in Configs
  BY DEF StorageTypeOK
<1>4. Body \in Records /\ Record \in Records
  BY <1>2, <1>3 DEF Body, Record, Records
<1>5. /\ Body.committed = FALSE /\ Record.committed = TRUE
      /\ Record.config = config /\ Record.generation = next_generation
  BY DEF Body, Record
<1>. QED
  BY <1>1, <1>2, <1>4, <1>5, NoneAssumption DEF Decodes

\* The journal after x has been written to next_slot.
Written(x) ==
  /\ x # Record =>
       /\ IF latest = None
          THEN ValidIn(slots') = {} ELSE HeadIn(slots', latest)
       /\ StoredIn(slots') = Stored
  /\ x = Record => HeadIn(slots', next_slot) /\ StoredIn(slots') = config

(***************************************************************************)
(* One flash operation of save, whole or in part.  Unless it completes the *)
(* record, the head that was found is still there and still stored; if it  *)
(* does, the new record is the head.                                       *)
(***************************************************************************)
LEMMA FlashStep ==
  ASSUME JournalInv, pc \in Writing, NEW x, x \in {None, Body, Record}, Program(x)
  PROVE  /\ slots' \in Contents /\ JournalInOrder' /\ slots'[next_slot] = x
         /\ latest # None => slots'[latest] = slots[latest]
         /\ Written(x)
<1>1. StorageTypeOK /\ config # None /\ FoundHead /\ slots \in Contents
  BY DEF JournalInv, SaveSoFar, StorageTypeOK, Writing, Contents
<1>2. /\ next_slot \in Slots /\ next_slot # latest
      /\ x \in Records \union {None}
      /\ x # Record => ~ Decodes(x)
      /\ Record \in Records /\ Decodes(Record)
      /\ Record.config = config /\ Record.generation = next_generation
  BY <1>1, WriteType
<1>3. /\ slots' = [slots EXCEPT ![next_slot] = x]
      /\ slots' \in Contents /\ slots'[next_slot] = x
  BY <1>1, <1>2 DEF Program, Contents
<1>4. latest # None => latest \in Slots /\ slots'[latest] = slots[latest]
  BY <1>1, <1>2 DEF Program, Contents, StorageTypeOK
<1>5. ASSUME latest = None PROVE Written(x)
  <2>1. ValidIn(slots) = {} /\ Stored = None
    BY <1>1, <1>5, InTermsOfSlots, StoredInEmpty DEF FoundHead
  <2>2. x # Record => ValidIn(slots') = {} /\ StoredIn(slots') = None
    BY <1>1, <1>2, <1>3, <2>1, BlankedStaysEmpty, StoredInEmpty
  <2>3. x = Record => HeadIn(slots', next_slot)
    BY <1>1, <1>2, <1>3, <2>1, FirstRecordIsHead
  <2>4. ASSUME x = Record PROVE StoredIn(slots') = config
    <3>1. slots'[next_slot].config = config
      BY <1>2, <1>3, <2>4, Zenon
    <3>2. StoredIn(slots') = slots'[next_slot].config
      BY <1>2, <1>3, <2>3, <2>4, StoredIsHead, Zenon
    <3>. QED
      BY <3>1, <3>2, Zenon
  <2>. QED
    BY <1>5, <2>1, <2>2, <2>3, <2>4, Zenon DEF Written
<1>6. ASSUME latest # None PROVE Written(x)
  <2>1. HeadIn(slots, latest) /\ Stored = slots[latest].config
    BY <1>1, <1>6, InTermsOfSlots, StoredIsHead DEF FoundHead
  <2>2. x # Record => HeadIn(slots', latest)
    BY <1>1, <1>2, <1>3, <2>1, BlankedKeepsHead
  <2>3. x # Record => StoredIn(slots') = Stored
    BY <1>3, <1>4, <1>6, <2>1, <2>2, StoredIsHead
  <2>4. x = Record => HeadIn(slots', next_slot)
    <3>1. /\ next_slot = (latest + 1) % SLOT_COUNT
          /\ next_generation
               = WrappingAdd(GENERATION_MODULUS, slots[latest].generation, 1)
      BY <1>6 DEF next_slot, next_generation
    <3>. QED
      BY <1>1, <1>2, <1>3, <2>1, <3>1, NextRecordIsHead
  <2>5. ASSUME x = Record PROVE StoredIn(slots') = config
    <3>1. slots'[next_slot].config = config
      BY <1>2, <1>3, <2>5, Zenon
    <3>2. StoredIn(slots') = slots'[next_slot].config
      BY <1>2, <1>3, <2>4, <2>5, StoredIsHead, Zenon
    <3>. QED
      BY <3>1, <3>2, Zenon
  <2>. QED
    BY <1>6, <2>2, <2>3, <2>4, <2>5 DEF Written
<1>7. \/ ValidIn(slots') = {}
      \/ \E h \in Slots : HeadIn(slots', h)
  BY <1>2, <1>4, <1>5, <1>6 DEF Written
<1>8. JournalInOrder'
  BY <1>7, InTermsOfSlots DEF JournalInOrder
<1>. QED
  BY <1>3, <1>4, <1>5, <1>6, <1>8

\* What a failure or a power loss leaves is in order, and stores what was
\* stored or what was being saved.
LEMMA PartialStep ==
  ASSUME JournalInv, Partial
  PROVE  /\ slots' \in Contents
         /\ JournalInOrder'
         /\ \/ StoredIn(slots') = Stored
            \/ config # None /\ StoredIn(slots') = config
<1>1. CASE UNCHANGED slots
  <2>1. slots' \in Contents
    BY <1>1 DEF JournalInv, StorageTypeOK, Contents
  <2>2. JournalInOrder'
    BY <1>1 DEF JournalInv, JournalInOrder, Valid, IsHead
  <2>3. StoredIn(slots') = Stored
    BY <1>1, InTermsOfSlots
  <2>. QED
    BY <2>1, <2>2, <2>3
<1>2. ASSUME pc \in Writing, NEW x \in {None, Body, Record}, Program(x)
      PROVE  /\ slots' \in Contents
             /\ JournalInOrder'
             /\ \/ StoredIn(slots') = Stored
                \/ config # None /\ StoredIn(slots') = config
  <2>1. config # None
    BY <1>2 DEF JournalInv, StorageTypeOK, Writing
  <2>. QED
    BY <1>2, <2>1, FlashStep DEF Written
<1>. QED
  BY <1>1, <1>2 DEF Partial, Writing

\* An erased or written slot leaves what save writes, and where, as it was.
LEMMA WriteStep ==
  ASSUME JournalInv, pc \in Writing, NEW x, x \in {None, Body, Record}, Program(x),
         UNCHANGED <<config, slot, latest, outcome, loaded, before>>
  PROVE  /\ slots' \in Contents /\ JournalInOrder'
         /\ next_slot' = next_slot /\ Body' = Body /\ Record' = Record
         /\ slots'[next_slot'] = x
         /\ latest' # None => Decodes(slots'[latest'])
         /\ x # Record => FoundHead' /\ StoredIn(slots') = Stored
         /\ x = Record => IsHead(next_slot)' /\ StoredIn(slots') = config
<1>1. /\ slots' \in Contents /\ JournalInOrder' /\ slots'[next_slot] = x
      /\ latest # None => slots'[latest] = slots[latest]
      /\ x # Record =>
           /\ IF latest = None
              THEN ValidIn(slots') = {} ELSE HeadIn(slots', latest)
           /\ StoredIn(slots') = Stored
      /\ x = Record => HeadIn(slots', next_slot) /\ StoredIn(slots') = config
  BY FlashStep DEF Written
<1>2. next_slot' = next_slot /\ next_generation' = next_generation
  BY <1>1 DEF next_slot, next_generation
<1>3. Body' = Body /\ Record' = Record
  BY <1>2 DEF Body, Record
<1>4. latest' # None => Decodes(slots'[latest'])
  BY <1>1 DEF JournalInv, StorageTypeOK, Decodes
<1>5. x # Record => FoundHead'
  BY <1>1, InTermsOfSlots DEF FoundHead
<1>6. x = Record => IsHead(next_slot)'
  BY <1>1, <1>2 DEF IsHead, HeadIn, Valid, ValidIn, Rank
<1>. QED
  BY <1>1, <1>2, <1>3, <1>4, <1>5, <1>6

\* An empty flash satisfies the invariant.
LEMMA JournalInvInit == Init => JournalInv
<1> SUFFICES ASSUME Init PROVE JournalInv
  OBVIOUS
<1>1. Valid = {}
  BY DEF Init, Valid, Decodes
<1>2. StorageTypeOK
  BY SlotAssumption DEF Init, StorageTypeOK, Slots
<1>. QED
  BY <1>1, <1>2 DEF Init, JournalInv, JournalInOrder, ScanSoFar, SaveSoFar, Writing

\* A scan that has read every slot has the head, if there is one.
LEMMA ScanEnds ==
  ASSUME JournalInv, pc = "load_latest", slot = SLOT_COUNT
  PROVE  FoundHead
<1> SUFFICES ASSUME ~ FoundHead PROVE FALSE
  OBVIOUS
<1>1. slots \in Contents /\ \A i \in Valid : i \in 0 .. SLOT_COUNT - 1
  BY DEF JournalInv, StorageTypeOK, Contents, Valid, Slots
<1>2. latest # None
  BY <1>1, SlotAssumption DEF JournalInv, ScanSoFar, FoundHead
<1>3. /\ latest \in Valid
      /\ \A i \in Valid \ {latest} :
           generation_is_newer(slots[latest].generation, slots[i].generation)
  BY <1>1, <1>2, SlotAssumption DEF JournalInv, ScanSoFar
<1>4. PICK h \in Slots : IsHead(h)
  BY <1>3 DEF JournalInv, JournalInOrder
<1>5. h \in Valid /\ h # latest /\ HeadIn(slots, h)
  BY <1>2, <1>4, InTermsOfSlots DEF FoundHead, IsHead
<1>6. Rank(h, latest) < Rank(h, h)
  BY <1>1, <1>3, <1>5, NewerIsCloser, InTermsOfSlots
<1>7. Rank(h, h) = 0 /\ Rank(h, latest) \in 0 .. SLOT_COUNT - 1
  BY <1>1, <1>3, <1>5, RankType DEF Slots
<1>. QED
  BY <1>6, <1>7, SlotAssumption

\* Reading one more slot keeps the newest of those read.
LEMMA ReadSlotKeepsScan ==
  ASSUME JournalInv, ReadSlot
  PROVE  ScanSoFar'
<1> SUFFICES /\ latest' = None => \A i \in Valid : i >= slot + 1
             /\ latest' # None =>
                  /\ latest' \in Valid /\ latest' < slot + 1
                  /\ \A i \in Valid \ {latest'} :
                       i < slot + 1 => generation_is_newer(slots[latest'].generation,
                                                           slots[i].generation)
  BY DEF ReadSlot, ScanSoFar, Valid
<1>1. /\ slots \in Contents /\ slot \in Slots
      /\ latest = None \/ latest \in Slots
      /\ \A i \in Valid : i \in Int /\ i \in Slots
  BY SlotAssumption DEF JournalInv, StorageTypeOK, Contents, ReadSlot, Slots, Valid
<1>2. slot \in Valid <=> Decodes(slots[slot])
  BY <1>1 DEF Valid
<1>3. slot # None /\ slot \in Int
  BY <1>1, NoneAssumption DEF Slots
<1>4. CASE latest = None
  <2>1. \A i \in Valid : i >= slot
    BY <1>4 DEF JournalInv, ScanSoFar, ReadSlot
  <2>2. CASE Decodes(slots[slot])
    <3>1. latest' = slot
      BY <1>4, <2>2 DEF ReadSlot, Replaces
    <3>. QED
      BY <1>1, <1>2, <1>3, <2>1, <2>2, <3>1
  <2>3. CASE ~ Decodes(slots[slot])
    <3>1. latest' = None
      BY <1>4, <2>3 DEF ReadSlot, Replaces
    <3>. QED
      BY <1>1, <1>2, <1>3, <2>1, <2>3, <3>1
  <2>. QED
    BY <2>2, <2>3
<1>5. CASE latest # None
  <2>1. /\ latest \in Valid /\ latest < slot /\ latest \in Int
        /\ \A i \in Valid \ {latest} :
             i < slot => generation_is_newer(slots[latest].generation,
                                             slots[i].generation)
    BY <1>1, <1>5 DEF JournalInv, ScanSoFar, ReadSlot
  <2>2. PICK h \in Slots : IsHead(h)
    BY <2>1 DEF JournalInv, JournalInOrder
  <2>3. HeadIn(slots, h)
    BY <2>2, InTermsOfSlots
  <2>4. \A i, j \in Valid :
          generation_is_newer(slots[i].generation, slots[j].generation)
            <=> Rank(h, i) < Rank(h, j)
    BY <1>1, <2>3, NewerIsCloser, InTermsOfSlots
  <2>5. \A i, j \in Valid :
          Rank(h, i) \in Int /\ (Rank(h, i) = Rank(h, j) => i = j)
    BY <1>1, <2>2, RankType
  <2>6. CASE Replaces
    <3>1. latest' = slot /\ slot \in Valid
      BY <1>2, <2>6 DEF ReadSlot, Replaces
    <3>2. Rank(h, slot) < Rank(h, latest)
      BY <1>5, <2>1, <2>4, <2>6, <3>1 DEF Replaces
    <3>3. ASSUME NEW i \in Valid \ {slot}, i < slot + 1
          PROVE  generation_is_newer(slots[slot].generation, slots[i].generation)
      <4>1. i < slot
        BY <1>1, <1>3, <3>3
      <4>2. Rank(h, latest) <= Rank(h, i)
        BY <2>1, <2>4, <2>5, <4>1
      <4>3. Rank(h, slot) < Rank(h, i)
        BY <2>1, <2>5, <3>1, <3>2, <4>2
      <4>. QED
        BY <2>4, <3>1, <4>3
    <3>. QED
      BY <1>3, <3>1, <3>3
  <2>7. CASE ~ Replaces
    <3>1. latest' = latest
      BY <2>7 DEF ReadSlot
    <3>2. ASSUME NEW i \in Valid \ {latest}, i < slot + 1
          PROVE  generation_is_newer(slots[latest].generation, slots[i].generation)
      <4>1. CASE i = slot
        <5>1. ~ generation_is_newer(slots[slot].generation, slots[latest].generation)
          BY <1>2, <2>7, <4>1 DEF Replaces
        <5>2. ~ (Rank(h, slot) < Rank(h, latest))
          BY <2>1, <2>4, <4>1, <5>1
        <5>3. Rank(h, latest) < Rank(h, slot)
          BY <2>1, <2>5, <4>1, <5>2
        <5>. QED
          BY <2>1, <2>4, <4>1, <5>3
      <4>2. CASE i # slot
        BY <1>1, <1>3, <2>1, <3>2, <4>2
      <4>. QED
        BY <4>1, <4>2
    <3>. QED
      BY <1>3, <1>5, <2>1, <3>1, <3>2
  <2>. QED
    BY <2>6, <2>7
<1>. QED
  BY <1>4, <1>5

\* flash.erase leaves nothing in the slot, and the head where it was.
LEMMA EraseKeepsInv ==
  ASSUME JournalInv, Erase
  PROVE  JournalInv'
<1>1. pc \in Writing /\ Program(None)
  BY DEF Erase, Writing
<1>2. None # Record
  BY <1>1, WriteType DEF JournalInv, StorageTypeOK, Writing
<1>3. /\ slots' \in Contents /\ JournalInOrder' /\ FoundHead'
      /\ slots'[next_slot'] = None
      /\ latest' # None => Decodes(slots'[latest'])
  BY <1>1, <1>2, WriteStep DEF Erase
<1>4. StorageTypeOK'
  BY <1>3 DEF JournalInv, StorageTypeOK, Erase, Contents
<1>. QED
  BY <1>3, <1>4 DEF JournalInv, ScanSoFar, SaveSoFar, Erase, Writing

\* flash.write of the body leaves it, or nothing, in the slot.
LEMMA WriteBodyKeepsInv ==
  ASSUME JournalInv, WriteBody
  PROVE  JournalInv'
<1>1. pc \in Writing /\ (Program(None) \/ Program(Body))
  BY DEF WriteBody, Writing
<1>2. None # Record /\ Body # Record
  BY <1>1, WriteType DEF JournalInv, StorageTypeOK, Writing
<1>3. /\ slots' \in Contents /\ JournalInOrder' /\ FoundHead'
      /\ slots'[next_slot'] \in {None, Body'}
      /\ latest' # None => Decodes(slots'[latest'])
  BY <1>1, <1>2, WriteStep DEF WriteBody
<1>4. StorageTypeOK'
  BY <1>3 DEF JournalInv, StorageTypeOK, WriteBody, Contents
<1>. QED
  BY <1>3, <1>4 DEF JournalInv, ScanSoFar, SaveSoFar, WriteBody, Writing

\* flash.write of the commit marker leaves the complete record or nothing.
LEMMA WriteCommitKeepsInv ==
  ASSUME JournalInv, WriteCommit
  PROVE  JournalInv'
<1>1. pc \in Writing /\ (Program(None) \/ Program(Record))
  BY DEF WriteCommit, Writing
<1>2. None # Record
  BY <1>1, WriteType DEF JournalInv, StorageTypeOK, Writing
<1>3. /\ slots' \in Contents /\ JournalInOrder'
      /\ \/ slots'[next_slot'] = None
         \/ slots'[next_slot'] = Record' /\ IsHead(next_slot)'
      /\ latest' # None => Decodes(slots'[latest'])
  BY <1>1, <1>2, WriteStep DEF WriteCommit
<1>4. StorageTypeOK'
  BY <1>3 DEF JournalInv, StorageTypeOK, WriteCommit, Contents
<1>. QED
  BY <1>3, <1>4 DEF JournalInv, ScanSoFar, SaveSoFar, WriteCommit, Writing

\* Every step keeps the invariant.
LEMMA JournalInvNext == JournalInv /\ [Next]_vars => JournalInv'
<1> SUFFICES ASSUME JournalInv, [Next]_vars
             PROVE  JournalInv'
  OBVIOUS
<1>0. ASSUME UNCHANGED slots
      PROVE  JournalInOrder' /\ Valid' = Valid
  BY <1>0 DEF JournalInv, JournalInOrder, Valid, IsHead
<1>1. ASSUME NEW c \in Configs, Save(c)
      PROVE  JournalInv'
  <2>1. Stored \in Configs \union {None}
    <3>1. slots \in Contents
      BY DEF JournalInv, StorageTypeOK, Contents
    <3>2. CASE \E h \in Slots : HeadIn(slots, h)
      <4>1. PICK h \in Slots : HeadIn(slots, h)
        BY <3>2
      <4>2. Stored = slots[h].config /\ h \in ValidIn(slots)
        BY <3>1, <4>1, InTermsOfSlots, StoredIsHead DEF HeadIn
      <4>. QED
        BY <3>1, <4>2, ValidType
    <3>3. CASE ~ \E h \in Slots : HeadIn(slots, h)
      BY <3>3, InTermsOfSlots DEF StoredIn
    <3>. QED
      BY <3>2, <3>3
  <2>2. StorageTypeOK'
    BY <1>1, <2>1, SlotAssumption DEF JournalInv, StorageTypeOK, Save
  <2>3. ScanSoFar' /\ SaveSoFar'
    BY <1>1, <1>0 DEF Save, ScanSoFar, SaveSoFar, Writing, Valid, Slots
  <2>. QED
    BY <1>0, <1>1, <2>2, <2>3 DEF JournalInv, Save
<1>2. CASE ReadSlot
  <2>1. StorageTypeOK'
    BY <1>2, SlotAssumption DEF JournalInv, StorageTypeOK, ReadSlot, Replaces, Slots
  <2>2. ScanSoFar'
    BY <1>2, ReadSlotKeepsScan
  <2>3. SaveSoFar'
    BY <1>2 DEF ReadSlot, SaveSoFar, Writing
  <2>. QED
    BY <1>0, <1>2, <2>1, <2>2, <2>3 DEF JournalInv, ReadSlot
<1>3. CASE Loaded
  <2>1. latest # None => slots[latest].config \in Configs
    BY DEF JournalInv, StorageTypeOK, Decodes, Records
  <2>2. StorageTypeOK'
    BY <1>3, <2>1 DEF JournalInv, StorageTypeOK, Loaded
  <2>. QED
    BY <1>0, <1>3, <2>2 DEF JournalInv, ScanSoFar, SaveSoFar, Writing, Loaded
<1>4. CASE LoadFails
  <2>1. StorageTypeOK'
    BY <1>4 DEF JournalInv, StorageTypeOK, LoadFails
  <2>. QED
    BY <1>0, <1>4, <2>1 DEF JournalInv, ScanSoFar, SaveSoFar, Writing, LoadFails
<1>5. CASE Located
  <2>1. StorageTypeOK'
    BY <1>5 DEF JournalInv, StorageTypeOK, Located
  <2>2. FoundHead'
    BY <1>5, ScanEnds DEF Located, FoundHead, Valid, IsHead
  <2>. QED
    BY <1>0, <1>5, <2>1, <2>2 DEF JournalInv, ScanSoFar, SaveSoFar, Located
<1>6. CASE Erase
  BY <1>6, EraseKeepsInv
<1>7. CASE WriteBody
  BY <1>7, WriteBodyKeepsInv
<1>8. CASE WriteCommit
  BY <1>8, WriteCommitKeepsInv
<1>9. CASE Verify
  <2>1. StorageTypeOK'
    BY <1>9 DEF JournalInv, StorageTypeOK, Verify, Return
  <2>. QED
    BY <1>0, <1>9, <2>1 DEF JournalInv, ScanSoFar, SaveSoFar, Writing, Verify, Return
<1>10. CASE SaveFails
  <2>1. slots' \in Contents /\ JournalInOrder'
    BY <1>10, PartialStep DEF SaveFails
  <2>2. StorageTypeOK'
    BY <1>10, <2>1 DEF JournalInv, StorageTypeOK, SaveFails, Return, Contents
  <2>. QED
    BY <1>10, <2>1, <2>2
       DEF JournalInv, ScanSoFar, SaveSoFar, Writing, SaveFails, Return
<1>11. CASE Restart
  <2>1. slots' \in Contents /\ JournalInOrder'
    BY <1>11, PartialStep DEF Restart
  <2>2. StorageTypeOK'
    BY <1>11, <2>1, SlotAssumption DEF JournalInv, StorageTypeOK, Restart, Contents
  <2>3. ScanSoFar'
    BY <1>11 DEF Restart, ScanSoFar, Valid, Slots
  <2>. QED
    BY <1>11, <2>1, <2>2, <2>3 DEF JournalInv, SaveSoFar, Writing, Restart
<1>12. CASE UNCHANGED vars
  <2>1. StorageTypeOK' /\ ScanSoFar'
    BY <1>0, <1>12 DEF JournalInv, StorageTypeOK, ScanSoFar, vars
  <2>2. SaveSoFar'
    BY <1>12 DEF JournalInv, SaveSoFar, FoundHead, Valid, IsHead, Body, Record,
                 next_slot, next_generation, vars
  <2>. QED
    BY <1>0, <1>12, <2>1, <2>2 DEF JournalInv, vars
<1>. QED
  BY <1>1, <1>2, <1>3, <1>4, <1>5, <1>6, <1>7, <1>8, <1>9, <1>10, <1>11, <1>12
     DEF Next

\* The inductive invariant holds in every reachable state.
THEOREM JournalInvariant == Spec => []JournalInv
  BY JournalInvInit, JournalInvNext, PTL DEF Spec
-----------------------------------------------------------------------------
\* Types and widths, whatever fails and whenever the power goes.
THEOREM TypeCorrect == Spec => []StorageTypeOK
<1>1. JournalInv => StorageTypeOK
  BY DEF JournalInv
<1>. QED
  BY <1>1, JournalInvariant, PTL

\* The valid records stay in line behind one head.
THEOREM InOrder == Spec => []JournalInOrder
<1>1. JournalInv => JournalInOrder
  BY DEF JournalInv
<1>. QED
  BY <1>1, JournalInvariant, PTL

\* load_latest finds the head of a journal that has one.
THEOREM ScanIsRight == Spec => []ScanFindsHead
<1>1. JournalInv => ScanFindsHead
  <2> SUFFICES ASSUME JournalInv, pc = "load_latest", slot = SLOT_COUNT
               PROVE  IF Valid = {} THEN latest = None
                                    ELSE latest # None /\ IsHead(latest)
    BY DEF ScanFindsHead
  <2>1. FoundHead
    BY ScanEnds
  <2>2. latest # None => latest \in Valid
    BY DEF JournalInv, ScanSoFar
  <2>. QED
    BY <2>1, <2>2 DEF FoundHead
<1>. QED
  BY <1>1, JournalInvariant, PTL
-----------------------------------------------------------------------------
(***************************************************************************)
(* The refinement: what is stored is the head's configuration, so a step   *)
(* of save changes the register when, and only when, it completes the      *)
(* commit marker.                                                          *)
(***************************************************************************)
LEMMA RegisterInit == Init => Register!Init
<1> SUFFICES ASSUME Init PROVE Register!Init
  OBVIOUS
<1>1. ValidIn(slots) = {}
  BY DEF Init, ValidIn, Decodes
<1>2. Stored = None
  BY <1>1, InTermsOfSlots, StoredInEmpty
<1>. QED
  BY <1>2 DEF Init, Register!Init

\* What main holds after load is what is stored.
LEMMA LoadReturnsStored ==
  ASSUME JournalInv, Loaded
  PROVE  loaded' = Stored
<1>1. FoundHead
  BY ScanEnds DEF Loaded
<1>2. slots \in Contents
  BY DEF JournalInv, StorageTypeOK, Contents
<1>3. CASE latest = None
  <2>1. Stored = None
    BY <1>1, <1>3, InTermsOfSlots, StoredInEmpty DEF FoundHead
  <2>. QED
    BY <1>3, <2>1 DEF Loaded
<1>4. CASE latest # None
  <2>1. Stored = slots[latest].config
    BY <1>1, <1>2, <1>4, InTermsOfSlots, StoredIsHead DEF FoundHead
  <2>. QED
    BY <1>4, <2>1 DEF Loaded
<1>. QED
  BY <1>3, <1>4

\* save returns Ok only when what it was asked to store is stored.
LEMMA SavedIsStored ==
  ASSUME JournalInv, pc = "verify", slots[next_slot] = Record
  PROVE  Stored = config
<1>1. config # None /\ slots \in Contents
  BY DEF JournalInv, StorageTypeOK, Contents
<1>2. Record # None /\ Record.config = config
  BY <1>1, WriteType DEF JournalInv
<1>3. HeadIn(slots, next_slot)
  <2>1. IsHead(next_slot)
    BY <1>2 DEF JournalInv, SaveSoFar
  <2>. QED
    BY <2>1 DEF IsHead, HeadIn, Valid, ValidIn, Rank
<1>. QED
  BY <1>1, <1>2, <1>3, StoredIsHead, InTermsOfSlots

\* Every step of the journal is a step of the register, or none.
LEMMA RegisterNext ==
  JournalInv /\ [Next]_vars => [Register!Next]_(Register!vars)
<1> SUFFICES ASSUME JournalInv, [Next]_vars
             PROVE  Register!Next \/ UNCHANGED Register!vars
  OBVIOUS
<1> USE DEF Register!Next, Register!vars
<1>0. UNCHANGED slots => Stored' = Stored
  BY InTermsOfSlots
<1>1. ASSUME NEW c \in Configs, Save(c)
      PROVE  Register!Begin(c)
  <2>1. config = None
    BY <1>1 DEF JournalInv, StorageTypeOK, Save
  <2>. QED
    BY <1>0, <1>1, <2>1 DEF Save, Register!Begin
<1>2. CASE ReadSlot \/ Located
  BY <1>0, <1>2 DEF ReadSlot, Located
<1>3. CASE Loaded
  BY <1>0, <1>3, LoadReturnsStored DEF Loaded, Register!Load
<1>4. CASE LoadFails
  BY <1>0, <1>4 DEF LoadFails, Register!Load
<1>5. CASE Erase \/ WriteBody \/ WriteCommit
  <2>1. /\ pc \in Writing /\ config # None
        /\ \E x \in {None, Body, Record} : Program(x)
        /\ UNCHANGED <<config, slot, latest, outcome, loaded, before>>
    BY <1>5 DEF Erase, WriteBody, WriteCommit, Writing, JournalInv, StorageTypeOK
  <2>2. PICK x \in {None, Body, Record} : Program(x)
    BY <2>1
  <2>3. StoredIn(slots') = Stored \/ StoredIn(slots') = config
    BY <2>1, <2>2, WriteStep
  <2>4. Stored' = Stored \/ Stored' = config
    BY <2>3, InTermsOfSlots
  <2>. QED
    BY <2>1, <2>4 DEF Register!TakeEffect
<1>6. CASE Verify
  <2>1. config # None
    BY <1>6 DEF Verify, JournalInv, StorageTypeOK
  <2>2. CASE slots[next_slot] = Record
    <3>1. Stored = config
      BY <1>6, <2>2, SavedIsStored DEF Verify
    <3>. QED
      BY <1>0, <1>6, <2>1, <2>2, <3>1 DEF Verify, Return, Register!Succeed
  <2>3. CASE slots[next_slot] # Record
    BY <1>0, <1>6, <2>1, <2>3
       DEF Verify, Return, Register!Fail, Register!TookEffectOrNot
  <2>. QED
    BY <2>2, <2>3
<1>7. ASSUME Partial
      PROVE  Register!TookEffectOrNot
  BY <1>7, PartialStep, InTermsOfSlots DEF Register!TookEffectOrNot
<1>8. CASE SaveFails
  BY <1>7, <1>8 DEF SaveFails, Return, Register!Fail
<1>9. CASE Restart
  BY <1>7, <1>9 DEF Restart, Register!Restart
<1>10. CASE UNCHANGED vars
  BY <1>0, <1>10 DEF vars
<1>. QED
  BY <1>1, <1>2, <1>3, <1>4, <1>5, <1>6, <1>8, <1>9, <1>10 DEF Next

\* The journal implements the atomic register: nothing but a completed save
\* changes what load returns, and save's Ok means that it has.
THEOREM Refinement == Spec => ImplementsRegister
  BY RegisterInit, RegisterNext, JournalInvariant, PTL
     DEF Spec, ImplementsRegister, Register!Spec
=============================================================================
