-------------------------- MODULE RegTrace_proofs --------------------------
(***************************************************************************)
(* What the register tracing may say is known, for every size of a byte,   *)
(* every choice of registers kept and every path: the register file first, *)
(* then what is known of it, then the actions.                             *)
(***************************************************************************)
EXTENDS RegTrace, TLAPS

-----------------------------------------------------------------------------
(* Bytes and words.                                                        *)

LEMMA Product ==
  ASSUME NEW a \in Nat, NEW b \in Nat, a < b
  PROVE  a * Base \in Nat /\ a * Base + Base <= b * Base
<1>1. a * Base \in Nat /\ b * Base \in Nat
  BY RegisterAssumption
<1>2. (a + 1) * Base <= b * Base
  BY RegisterAssumption
<1>3. (a + 1) * Base = a * Base + Base
  BY RegisterAssumption
<1>4. QED
  BY <1>1, <1>2, <1>3, RegisterAssumption

LEMMA Compose ==
  ASSUME NEW h \in Nat, NEW l \in ByteVals
  PROVE  /\ Low(h * Base + l) = l
         /\ High(h * Base + l) = h
<1>1. (h * Base + l) % Base = l
  BY RegisterAssumption DEF ByteVals
<1>2. (h * Base + l) \div Base = h
  BY RegisterAssumption DEF ByteVals
<1>3. QED
  BY <1>1, <1>2 DEF Low, High

LEMMA WordOfHalves ==
  ASSUME NEW h \in ByteVals, NEW l \in ByteVals
  PROVE  h * Base + l \in WordVals
<1>1. h \in Nat /\ l \in Nat /\ h < Base /\ l < Base /\ Base \in Nat
  BY RegisterAssumption DEF ByteVals
<1>2. h * Base \in Nat /\ h * Base + Base <= Base * Base
  BY <1>1, Product
<1>3. Base * Base \in Nat
  BY <1>1
<1>4. QED
  BY <1>1, <1>2, <1>3 DEF WordVals

LEMMA HalvesOfWord ==
  ASSUME NEW w \in WordVals
  PROVE  /\ Low(w) \in ByteVals /\ High(w) \in ByteVals
         /\ High(w) * Base + Low(w) = w
<1>1. w \in Nat /\ Base \in Nat /\ Base > 1 /\ w < Base * Base
  BY RegisterAssumption DEF WordVals
<1>2. /\ w % Base \in Nat /\ w % Base < Base /\ w \div Base \in Nat
      /\ w = Base * (w \div Base) + (w % Base)
  BY <1>1
<1>3. w \div Base < Base
  <2> SUFFICES ASSUME Base <= w \div Base PROVE FALSE
    BY <1>1, <1>2
  <2>1. Base * Base <= Base * (w \div Base)
    BY <1>1, <1>2
  <2>2. QED
    BY <1>1, <1>2, <2>1
<1>4. QED
  BY <1>1, <1>2, <1>3 DEF Low, High, ByteVals
-----------------------------------------------------------------------------
(* Registers and their halves.                                             *)

Whole(w) == w \in WordRegs /\ \A b \in ByteRegs : Parent[b] # w

LEMMA Bytes ==
  ASSUME NEW b \in ByteRegs
  PROVE  /\ Parent[b] \in WordRegs /\ b \notin WordRegs /\ b # "NONE"
         /\ Sibling[b] \in ByteRegs /\ Parent[Sibling[b]] = Parent[b] /\ Sibling[b] # b
         /\ b \in HighRegs <=> Sibling[b] \notin HighRegs
         /\ \A c \in ByteRegs : Parent[c] = Parent[b] => c \in {b, Sibling[b]}
BY RegisterAssumption DEF ByteRegs, Parent, Sibling, HighRegs

LEMMA Words ==
  ASSUME NEW w \in WordRegs
  PROVE  w \notin ByteRegs /\ w # "NONE" /\ w \notin DOMAIN Parent
BY RegisterAssumption DEF ByteRegs, Parent

LEMMA UnitsIs ==
  /\ \A b \in ByteRegs : UnitsOf({b}) = {b}
  /\ \A w \in WordRegs : Whole(w) => UnitsOf({w}) = {w}
  /\ \A w \in WordRegs : ~Whole(w) => UnitsOf({w}) = {b \in ByteRegs : Parent[b] = w}
  /\ UnitsOf({"NONE"}) = {}
<1>1. \A b \in ByteRegs : UnitsOf({b}) = {b}
  BY DEF UnitsOf, Units, ByteRegs, Regs
<1>2. ASSUME NEW w \in WordRegs, Whole(w) PROVE UnitsOf({w}) = {w}
  <2>1. Units(w) = {w}
    BY <1>2, Words DEF Units, Whole
  <2>2. QED
    BY <2>1 DEF UnitsOf, Regs
<1>3. ASSUME NEW w \in WordRegs, ~Whole(w) PROVE UnitsOf({w}) = {b \in ByteRegs : Parent[b] = w}
  <2>1. Units(w) = {b \in ByteRegs : Parent[b] = w}
    BY <1>3, Words DEF Units, Whole
  <2>2. QED
    BY <2>1 DEF UnitsOf, Regs
<1>4. UnitsOf({"NONE"}) = {}
  <2>1. "NONE" \notin Regs
    BY Words, Bytes DEF Regs
  <2>2. QED
    BY <2>1 DEF UnitsOf, Units
<1>5. QED
  BY <1>1, <1>2, <1>3, <1>4

(* The units of all registers: bytes, and words without bytes. *)
LEMMA AllUnits ==
  ASSUME NEW u
  PROVE  u \in UnitsOf(WordRegs) <=> u \in ByteRegs \/ Whole(u)
<1>1. u \in UnitsOf(WordRegs) <=> u \in Regs /\ \E w \in WordRegs : u \in Units(w)
  BY DEF UnitsOf
<1>2. ASSUME NEW w \in WordRegs PROVE u \in Units(w) /\ u \in Regs <=> u \in UnitsOf({w})
  BY DEF UnitsOf
<1>3. u \in UnitsOf(WordRegs) <=> \E w \in WordRegs : u \in UnitsOf({w})
  BY <1>1, <1>2
<1>4. ASSUME u \in ByteRegs PROVE u \in UnitsOf({Parent[u]}) /\ Parent[u] \in WordRegs
  <2>1. Parent[u] \in WordRegs /\ ~Whole(Parent[u])
    BY <1>4, Bytes DEF Whole
  <2>2. QED
    BY <1>4, <2>1, UnitsIs
<1>5. ASSUME Whole(u) PROVE u \in UnitsOf({u}) /\ u \in WordRegs
  BY <1>5, UnitsIs DEF Whole
<1>6. ASSUME NEW w \in WordRegs, u \in UnitsOf({w}) PROVE u \in ByteRegs \/ Whole(u)
  BY <1>6, UnitsIs
<1>7. QED
  BY <1>3, <1>4, <1>5, <1>6

LEMMA UnitsUnion ==
  ASSUME NEW rs, NEW u
  PROVE  u \in UnitsOf(rs) <=> \E r \in rs : u \in UnitsOf({r})
BY DEF UnitsOf

(* Both halves of a word that has any. *)
LEMMA Split ==
  ASSUME NEW w \in WordRegs, ~Whole(w)
  PROVE  \E lo, hi \in ByteRegs :
           /\ Parent[lo] = w /\ Parent[hi] = w
           /\ lo \notin HighRegs /\ hi \in HighRegs
<1>1. PICK b \in ByteRegs : Parent[b] = w
  BY DEF Whole
<1>2. QED
  BY <1>1, Bytes

-----------------------------------------------------------------------------
(* The register file.                                                      *)

LEMMA HalfType ==
  ASSUME NEW r, NEW w \in WordVals
  PROVE  Half(r, w) \in ByteVals
BY HalvesOfWord DEF Half

LEMMA GetType ==
  ASSUME NEW file \in Files, NEW r \in Regs
  PROVE  Get(file, r) \in Vals(r)
<1>1. CASE r \in ByteRegs
  BY <1>1, Bytes, HalfType DEF Get, Vals, Files
<1>2. CASE r \notin ByteRegs
  BY <1>2 DEF Get, Vals, Files, Regs
<1>3. QED
  BY <1>1, <1>2

(* The word a byte is put into, and what its halves are then. *)
Joined(r, v, w) == Placed(r, v) + Placed(Sibling[r], Half(Sibling[r], w))

LEMMA JoinedIs ==
  ASSUME NEW r \in ByteRegs, NEW v \in ByteVals, NEW w \in WordVals
  PROVE  /\ Joined(r, v, w) \in WordVals
         /\ Half(r, Joined(r, v, w)) = v
         /\ Half(Sibling[r], Joined(r, v, w)) = Half(Sibling[r], w)
<1> DEFINE o == Half(Sibling[r], w)
<1>1. o \in ByteVals
  BY HalfType
<1>2. r \in HighRegs <=> Sibling[r] \notin HighRegs
  BY Bytes
<1> HIDE DEF o
<1>3. Joined(r, v, w) = IF r \in HighRegs THEN v * Base + o ELSE o * Base + v
  <2>1. v \in Nat /\ o \in Nat /\ Base \in Nat
    BY <1>1, RegisterAssumption DEF ByteVals
  <2>2. v * Base \in Nat /\ o * Base \in Nat
    BY <2>1
  <2>3. Joined(r, v, w) = Placed(r, v) + Placed(Sibling[r], o)
    BY DEF Joined, o
  <2>4. QED
    BY <1>2, <2>1, <2>2, <2>3 DEF Placed
<1>4. v \in Nat /\ o \in Nat
  BY <1>1 DEF ByteVals
<1>5. CASE r \in HighRegs
  <2>1. Low(v * Base + o) = o /\ High(v * Base + o) = v /\ v * Base + o \in WordVals
    BY <1>1, <1>4, Compose, WordOfHalves
  <2>2. QED
    BY <1>2, <1>3, <1>5, <2>1 DEF Half, o
<1>6. CASE r \notin HighRegs
  <2>1. Low(o * Base + v) = v /\ High(o * Base + v) = o /\ o * Base + v \in WordVals
    BY <1>1, <1>4, Compose, WordOfHalves
  <2>2. QED
    BY <1>2, <1>3, <1>6, <2>1 DEF Half, o
<1>7. QED
  BY <1>5, <1>6

LEMMA SetIs ==
  ASSUME NEW file \in Files, NEW r, NEW v \in Vals(r)
  PROVE  /\ Set(file, r, v) \in Files
         /\ r \in ByteRegs => Set(file, r, v) = [file EXCEPT ![Parent[r]] = Joined(r, v, file[Parent[r]])]
         /\ r \in WordRegs => Set(file, r, v) = [file EXCEPT ![r] = v]
         /\ r \notin Regs => Set(file, r, v) = file
<1>1. CASE r \in ByteRegs
  <2>1. /\ Set(file, r, v) = [file EXCEPT ![Parent[r]] = Joined(r, v, file[Parent[r]])]
        /\ Parent[r] \in WordRegs /\ file[Parent[r]] \in WordVals /\ r \notin WordRegs
    BY <1>1, Bytes DEF Set, Joined, Files
  <2>2. Joined(r, v, file[Parent[r]]) \in WordVals
    BY <1>1, <2>1, JoinedIs DEF Vals
  <2>3. QED
    BY <1>1, <2>1, <2>2 DEF Files, Regs
<1>2. CASE r \in WordRegs
  BY <1>2, Words DEF Set, Files, Vals, Regs
<1>3. CASE r \notin Regs
  BY <1>3 DEF Set, Files, Regs
<1>4. QED
  BY <1>1, <1>2, <1>3 DEF Regs

(* What a register's unit holds of a value put into the register. *)
Part(u, r, v) == IF u = r THEN v ELSE Half(u, v)

LEMMA GetOfSet ==
  ASSUME NEW file \in Files, NEW r \in Regs \cup {"NONE"}, NEW v \in Vals(r),
         NEW u \in UnitsOf(WordRegs)
  PROVE  Get(Set(file, r, v), u) = IF u \in UnitsOf({r}) THEN Part(u, r, v) ELSE Get(file, u)
<1>1. u \in ByteRegs \/ Whole(u)
  BY AllUnits
<1>2. CASE r \in ByteRegs
  <2> DEFINE w == Parent[r]
  <2>1. /\ Set(file, r, v) = [file EXCEPT ![w] = Joined(r, v, file[w])]
        /\ w \in WordRegs /\ file[w] \in WordVals /\ v \in ByteVals
    BY <1>2, SetIs, Bytes DEF Files, Vals
  <2>2. Set(file, r, v)[w] = Joined(r, v, file[w]) /\ \A x \in WordRegs \ {w} : Set(file, r, v)[x] = file[x]
    BY <2>1 DEF Files
  <2>3. UnitsOf({r}) = {r}
    BY <1>2, UnitsIs
  <2>4. CASE u = r
    <3>1. Get(Set(file, r, v), r) = Half(r, Joined(r, v, file[w]))
      BY <1>2, <2>2 DEF Get
    <3>2. Half(r, Joined(r, v, file[w])) = v
      BY <1>2, <2>1, JoinedIs
    <3>3. QED
      BY <2>3, <2>4, <3>1, <3>2 DEF Part
  <2>5. CASE u \in ByteRegs /\ u # r /\ Parent[u] = w
    <3>1. u = Sibling[r]
      BY <1>2, <2>5, Bytes
    <3>2. /\ Get(Set(file, r, v), u) = Half(u, Joined(r, v, file[w]))
          /\ Get(file, u) = Half(u, file[w])
      BY <2>2, <2>5 DEF Get
    <3>3. Half(Sibling[r], Joined(r, v, file[w])) = Half(Sibling[r], file[w])
      BY <1>2, <2>1, JoinedIs
    <3>4. QED
      BY <2>3, <2>5, <3>1, <3>2, <3>3
  <2>6. CASE u \in ByteRegs /\ Parent[u] # w
    BY <1>2, <2>2, <2>3, <2>6, Bytes DEF Get
  <2>7. CASE Whole(u)
    <3>1. u \in WordRegs \ {w} /\ u \notin ByteRegs /\ u # r
      BY <1>2, <2>7, Words, Bytes DEF Whole
    <3>2. QED
      BY <2>2, <2>3, <3>1 DEF Get
  <2>8. QED
    BY <1>1, <2>4, <2>5, <2>6, <2>7
<1>3. CASE r \in WordRegs /\ Whole(r)
  <2>1. Set(file, r, v) = [file EXCEPT ![r] = v] /\ UnitsOf({r}) = {r} /\ r \notin ByteRegs
    BY <1>3, SetIs, UnitsIs, Words
  <2>2. Set(file, r, v)[r] = v /\ \A x \in WordRegs \ {r} : Set(file, r, v)[x] = file[x]
    BY <1>3, <2>1 DEF Files
  <2>3. u \in ByteRegs => Parent[u] \in WordRegs \ {r}
    BY <1>3, Bytes DEF Whole
  <2>4. QED
    BY <1>1, <2>1, <2>2, <2>3 DEF Get, Part, Whole
<1>4. CASE r \in WordRegs /\ ~Whole(r)
  <2>1. /\ Set(file, r, v) = [file EXCEPT ![r] = v] /\ r \notin ByteRegs
        /\ UnitsOf({r}) = {b \in ByteRegs : Parent[b] = r}
    BY <1>4, SetIs, UnitsIs, Words
  <2>2. Set(file, r, v)[r] = v /\ \A x \in WordRegs \ {r} : Set(file, r, v)[x] = file[x]
    BY <1>4, <2>1 DEF Files
  <2>3. u \in ByteRegs => Parent[u] \in WordRegs
    BY Bytes
  <2>4. Whole(u) => u \in WordRegs \ {r} /\ u \notin ByteRegs
    BY <1>4, Words DEF Whole
  <2>5. CASE u \in ByteRegs
    <3>1. /\ Get(Set(file, r, v), u) = Half(u, Set(file, r, v)[Parent[u]])
          /\ Get(file, u) = Half(u, file[Parent[u]])
          /\ u # r
      BY <2>1, <2>5 DEF Get
    <3>2. CASE Parent[u] = r
      BY <2>1, <2>2, <2>5, <3>1, <3>2 DEF Part
    <3>3. CASE Parent[u] # r
      BY <2>1, <2>2, <2>3, <2>5, <3>1, <3>3
    <3>4. QED
      BY <3>2, <3>3
  <2>6. CASE Whole(u)
    <3>1. u \notin UnitsOf({r}) /\ u \in WordRegs \ {r}
      BY <2>1, <2>4, <2>6
    <3>2. Set(file, r, v)[u] = file[u]
      BY <2>2, <3>1
    <3>3. QED
      BY <2>4, <2>6, <3>1, <3>2 DEF Get
  <2>7. QED
    BY <1>1, <2>5, <2>6
<1>5. CASE r = "NONE"
  <2>1. r \notin Regs /\ UnitsOf({r}) = {}
    BY <1>5, UnitsIs, Words, Bytes DEF Regs
  <2>2. Set(file, r, v) = file
    BY <2>1, SetIs
  <2>3. QED
    BY <2>1, <2>2
<1>6. QED
  BY <1>2, <1>3, <1>4, <1>5 DEF Regs
-----------------------------------------------------------------------------
(* What is known.                                                          *)

States == [regs : Files, known : Files, stack : Seq(WordVals)]

(* What the state says of a register that has not been lost, the machine's *)
(* registers hold.                                                         *)
AgreeOn(s, file, lost) ==
  \A u \in UnitsOf(WordRegs) \ lost : IsKnown(s, u) => Get(s.regs, u) = Get(file, u)

LEMMA AllBitsType ==
  ASSUME NEW r
  PROVE  AllBits(r) \in Vals(r) /\ AllBits(r) # 0 /\ 0 \in Vals(r)
<1>1. Base * Base \in Nat /\ Base * Base > 1
  BY RegisterAssumption
<1>2. QED
  BY <1>1, RegisterAssumption DEF AllBits, Vals, ByteVals, WordVals

LEMMA ValueType ==
  ASSUME NEW s \in States, NEW r \in Regs
  PROVE  Value(s, r) \in Vals(r)
BY GetType, AllBitsType DEF Value, States

LEMMA SetValueIs ==
  ASSUME NEW s \in States, NEW r, NEW v \in Vals(r)
  PROVE  /\ SetValue(s, r, v) \in States
         /\ SetValue(s, r, v).regs = Set(s.regs, r, v)
         /\ SetValue(s, r, v).known = Set(s.known, r, AllBits(r))
         /\ SetValue(s, r, v).stack = s.stack
<1>1. SetValue(s, r, v) = [s EXCEPT !.regs = Set(s.regs, r, v), !.known = Set(s.known, r, AllBits(r))]
  BY DEF SetValue, SetState
<1>2. Set(s.regs, r, v) \in Files /\ Set(s.known, r, AllBits(r)) \in Files
  BY SetIs, AllBitsType DEF States
<1>3. QED
  BY <1>1, <1>2 DEF States

(* A register set on both sides: it agrees if the values do. *)
LEMMA SetBoth ==
  ASSUME NEW s \in States, NEW file \in Files, NEW r \in Regs \cup {"NONE"},
         NEW v \in Vals(r), NEW x \in Vals(r), NEW lost, NEW now,
         AgreeOn(s, file, lost), lost \ UnitsOf({r}) \subseteq now,
         v = x \/ UnitsOf({r}) \subseteq now
  PROVE  AgreeOn(SetValue(s, r, v), Set(file, r, x), now)
<1> SUFFICES ASSUME NEW u \in UnitsOf(WordRegs) \ now, IsKnown(SetValue(s, r, v), u)
             PROVE  Get(SetValue(s, r, v).regs, u) = Get(Set(file, r, x), u)
  BY DEF AgreeOn
<1>1. /\ Get(SetValue(s, r, v).regs, u)
           = IF u \in UnitsOf({r}) THEN Part(u, r, v) ELSE Get(s.regs, u)
      /\ Get(SetValue(s, r, v).known, u)
           = IF u \in UnitsOf({r}) THEN Part(u, r, AllBits(r)) ELSE Get(s.known, u)
      /\ Get(Set(file, r, x), u) = IF u \in UnitsOf({r}) THEN Part(u, r, x) ELSE Get(file, u)
  <2>1. s.regs \in Files /\ s.known \in Files
    BY DEF States
  <2>2. /\ SetValue(s, r, v).regs = Set(s.regs, r, v)
        /\ SetValue(s, r, v).known = Set(s.known, r, AllBits(r))
        /\ AllBits(r) \in Vals(r)
    BY SetValueIs, AllBitsType
  <2>3. QED
    BY <2>1, <2>2, GetOfSet
<1>2. CASE u \in UnitsOf({r})
  BY <1>1, <1>2
<1>3. CASE u \notin UnitsOf({r})
  <2>1. u \notin lost /\ IsKnown(s, u)
    BY <1>1, <1>3 DEF IsKnown
  <2>2. QED
    BY <1>1, <1>3, <2>1 DEF AgreeOn
<1>4. QED
  BY <1>2, <1>3

(* A register set in the machine only is lost. *)
LEMMA SetMachine ==
  ASSUME NEW s \in States, NEW file \in Files, NEW r \in Regs \cup {"NONE"},
         NEW x \in Vals(r), NEW lost, AgreeOn(s, file, lost)
  PROVE  AgreeOn(s, Set(file, r, x), lost \cup UnitsOf({r}))
<1>1. \A u \in UnitsOf(WordRegs) \ UnitsOf({r}) : Get(Set(file, r, x), u) = Get(file, u)
  BY GetOfSet
<1>2. QED
  BY <1>1 DEF AgreeOn

(* What is known of a register none of whose units is lost is its value. *)
LEMMA ValueHeld ==
  ASSUME NEW s \in States, NEW file \in Files, NEW lost, AgreeOn(s, file, lost),
         NEW r \in Regs, IsKnown(s, r), UnitsOf({r}) \cap lost = {}
  PROVE  Value(s, r) = Get(file, r)
<1>1. Value(s, r) = Get(s.regs, r)
  BY DEF Value
<1>2. CASE r \in ByteRegs \/ Whole(r)
  <2>1. UnitsOf({r}) = {r} /\ r \in UnitsOf(WordRegs)
    BY <1>2, UnitsIs, AllUnits DEF Whole
  <2>2. QED
    BY <1>1, <2>1 DEF AgreeOn
<1>3. CASE r \in WordRegs /\ ~Whole(r)
  <2>1. PICK lo \in ByteRegs, hi \in ByteRegs :
          Parent[lo] = r /\ Parent[hi] = r /\ lo \notin HighRegs /\ hi \in HighRegs
    BY <1>3, Split
  <2>2. lo \in UnitsOf(WordRegs) \ lost /\ hi \in UnitsOf(WordRegs) \ lost
    BY <1>3, <2>1, UnitsIs, AllUnits
  <2>3. r \notin ByteRegs
    BY <1>3, Words
  <2>4. s.known[r] = Base * Base - 1
    BY <2>3 DEF IsKnown, Get, AllBits
  <2>5. Low(s.known[r]) = Base - 1 /\ High(s.known[r]) = Base - 1
    <3>1. Base - 1 \in Nat /\ Base - 1 \in ByteVals
      BY RegisterAssumption DEF ByteVals
    <3>2. (Base - 1) * Base + (Base - 1) = Base * Base - 1
      BY RegisterAssumption
    <3>3. QED
      BY <2>4, <3>1, <3>2, Compose
  <2>6. IsKnown(s, lo) /\ IsKnown(s, hi)
    BY <2>1, <2>5 DEF IsKnown, Get, Half, AllBits
  <2>7. Low(s.regs[r]) = Low(file[r]) /\ High(s.regs[r]) = High(file[r])
    <3>1. Get(s.regs, lo) = Get(file, lo) /\ Get(s.regs, hi) = Get(file, hi)
      BY <2>2, <2>6 DEF AgreeOn
    <3>2. QED
      BY <2>1, <3>1 DEF Get, Half
  <2>8. s.regs[r] \in WordVals /\ file[r] \in WordVals
    BY <1>3 DEF States, Files
  <2>9. s.regs[r] = file[r]
    BY <2>7, <2>8, HalvesOfWord
  <2>10. QED
    BY <1>1, <2>3, <2>9 DEF Get
<1>4. QED
  BY <1>2, <1>3 DEF Regs

(* The registers of a set wiped: their units read as zero, no other does. *)
LEMMA ClearedIs ==
  ASSUME NEW file \in Files, NEW rs \in SUBSET Regs
  PROVE  /\ Cleared(file, rs) \in Files
         /\ \A u \in UnitsOf(WordRegs) :
              Get(Cleared(file, rs), u) = IF u \in UnitsOf(rs) THEN 0 ELSE Get(file, u)
<1> DEFINE lost(w) == {b \in rs \cap ByteRegs : Parent[b] = w}
           low(w) == IF lost(w) \subseteq HighRegs THEN Low(file[w]) ELSE 0
           high(w) == IF lost(w) \cap HighRegs = {} THEN High(file[w]) ELSE 0
<1>1. Cleared(file, rs) = [w \in WordRegs |-> IF w \in rs THEN 0 ELSE low(w) + Base * high(w)]
  BY DEF Cleared
<1>2. ASSUME NEW w \in WordRegs
      PROVE  /\ Cleared(file, rs)[w] = IF w \in rs THEN 0 ELSE high(w) * Base + low(w)
             /\ Cleared(file, rs)[w] \in WordVals
             /\ low(w) \in ByteVals /\ high(w) \in ByteVals /\ file[w] \in WordVals
  <2>1. file[w] \in WordVals
    BY DEF Files
  <2>2. 0 \in ByteVals /\ 0 \in WordVals
    BY AllBitsType, RegisterAssumption DEF ByteVals, WordVals
  <2>3. low(w) \in ByteVals /\ high(w) \in ByteVals
    BY <2>1, <2>2, HalvesOfWord
  <2>4. Cleared(file, rs)[w] = IF w \in rs THEN 0 ELSE low(w) + Base * high(w)
    BY <1>1
  <2> HIDE DEF low, high
  <2>5. low(w) + Base * high(w) = high(w) * Base + low(w)
    BY <2>3, RegisterAssumption DEF ByteVals
  <2>6. QED
    BY <2>1, <2>2, <2>3, <2>4, <2>5, WordOfHalves
<1>3. Cleared(file, rs) \in Files
  BY <1>1, <1>2 DEF Files
<1>4. ASSUME NEW u \in UnitsOf(WordRegs)
      PROVE  u \in UnitsOf(rs) <=> u \in rs \/ (u \in ByteRegs /\ Parent[u] \in rs)
  <2>1. u \in UnitsOf(rs) <=> \E r \in rs : u \in UnitsOf({r})
    BY UnitsUnion
  <2>2. u \in ByteRegs \/ Whole(u)
    BY AllUnits
  <2>3. \A r \in rs : r \in ByteRegs \/ r \in WordRegs
    BY DEF Regs
  <2>4. u \in ByteRegs => Parent[u] \in WordRegs /\ ~Whole(Parent[u]) /\ u \notin WordRegs
    BY Bytes DEF Whole
  <2>5. Whole(u) => u \in WordRegs /\ u \notin ByteRegs
    BY Words DEF Whole
  <2>6. CASE u \in ByteRegs
    <3>1. \A r \in rs : u \in UnitsOf({r}) <=> u = r \/ r = Parent[u]
      <4> TAKE r \in rs
      <4>1. CASE r \in ByteRegs
        BY <2>4, <2>6, <4>1, UnitsIs, Words
      <4>2. CASE r \in WordRegs
        BY <2>4, <2>6, <4>2, UnitsIs
      <4>3. QED
        BY <2>3, <4>1, <4>2
    <3>2. QED
      BY <2>1, <2>6, <3>1
  <2>7. CASE Whole(u)
    <3>1. \A r \in rs : u \in UnitsOf({r}) <=> u = r
      BY <2>3, <2>5, <2>7, UnitsIs
    <3>2. QED
      BY <2>1, <2>5, <2>7, <3>1
  <2>8. QED
    BY <2>2, <2>6, <2>7
<1>5. Low(0) = 0 /\ High(0) = 0
  <2>1. 0 \in Nat /\ 0 \in ByteVals /\ 0 * Base + 0 = 0
    BY RegisterAssumption DEF ByteVals
  <2>2. QED
    BY <2>1, Compose
<1>6. ASSUME NEW u \in UnitsOf(WordRegs)
      PROVE  Get(Cleared(file, rs), u) = IF u \in UnitsOf(rs) THEN 0 ELSE Get(file, u)
  <2>1. CASE u \in ByteRegs
    <3> DEFINE w == Parent[u]
    <3>1. w \in WordRegs /\ u \notin WordRegs
      BY <2>1, Bytes
    <3>2. /\ Get(Cleared(file, rs), u) = Half(u, Cleared(file, rs)[w])
          /\ Get(file, u) = Half(u, file[w])
      BY <2>1 DEF Get
    <3>3. CASE w \in rs
      BY <1>2, <1>4, <1>5, <2>1, <3>1, <3>2, <3>3 DEF Half
    <3>4. CASE w \notin rs
      <4>1. u \in HighRegs <=> Sibling[u] \notin HighRegs
        BY <2>1, Bytes
      <4>2. \A b \in lost(w) : b \in {u, Sibling[u]}
        BY <2>1, Bytes
      <4>3. u \in rs <=> u \in lost(w)
        BY <2>1
      <4>4. Half(u, high(w) * Base + low(w)) = IF u \in HighRegs THEN high(w) ELSE low(w)
        <5>1. low(w) \in ByteVals /\ high(w) \in ByteVals
          BY <1>2, <3>1
        <5> HIDE DEF low, high
        <5>2. high(w) \in Nat
          BY <5>1 DEF ByteVals
        <5>3. QED
          BY <5>1, <5>2, Compose DEF Half
      <4> HIDE DEF lost
      <4>5. (IF u \in HighRegs THEN high(w) ELSE low(w)) = IF u \in rs THEN 0 ELSE Half(u, file[w])
        BY <4>1, <4>2, <4>3 DEF Half
      <4>6. QED
        BY <1>2, <1>4, <2>1, <3>1, <3>2, <3>4, <4>4, <4>5
    <3>5. QED
      BY <3>3, <3>4
  <2>2. CASE Whole(u)
    <3>1. u \in WordRegs /\ u \notin ByteRegs /\ lost(u) = {}
      BY <2>2, Words DEF Whole
    <3>2. low(u) = Low(file[u]) /\ high(u) = High(file[u])
      BY <3>1
    <3>3. high(u) * Base + low(u) = file[u]
      BY <1>2, <3>1, <3>2, HalvesOfWord
    <3>4. QED
      BY <1>2, <1>4, <3>1, <3>3 DEF Get
  <2>3. QED
    BY <2>1, <2>2, AllUnits
<1>7. QED
  BY <1>3, <1>6
-----------------------------------------------------------------------------
(* The table of touched registers: every register an instruction changes   *)
(* is one the table lists, or one it is said to miss.                      *)

Lists(c, a, b, rep) ==
  \A r \in Written(c, a, b, rep) :
    \/ r \in Missed(c, a, rep)
    \/ r \in Touched(c, a, b, rep)
    \/ r = "AX" /\ "AL" \in Touched(c, a, b, rep) /\ "AH" \in Touched(c, a, b, rep)

LEMMA TableListsOperands ==
  ASSUME NEW c \in TouchFirst \cup TouchBoth \cup TouchNone \cup {"rcl", "rcr", "lds", "les"},
         NEW a, NEW b, NEW rep \in BOOLEAN, rep => c \in Strings
  PROVE  Lists(c, a, b, rep)
<1>1. CASE c \in TouchFirst
  <2>1. Touched(c, a, b, rep) = {a} /\ ~rep
    BY <1>1 DEF Touched, TouchFirst, Counted, Strings
  <2>2. Written(c, a, b, rep) \subseteq Missed(c, a, rep) \cup {a}
    BY <1>1, <2>1 DEF Written, TouchFirst
  <2>3. QED
    BY <2>1, <2>2 DEF Lists
<1>2. CASE c = "xchg"
  BY <1>2 DEF Lists, Written, Touched, TouchFirst, TouchBoth, Strings
<1>3. CASE c = "movsb"
  BY <1>3 DEF Lists, Written, Missed, Touched, TouchFirst, TouchBoth, TouchNone, Counted, Divisions
<1>4. CASE c \in TouchNone
  BY <1>4 DEF Lists, Written, Missed, TouchNone, TouchFirst, Strings
<1>5. CASE c \in {"rcl", "rcr", "lds", "les"}
  BY <1>5 DEF Lists, Written, Missed, Touched, Implicit, TouchFirst, TouchBoth, TouchNone, Strings
<1>6. QED
  BY <1>1, <1>2, <1>3, <1>4, <1>5 DEF TouchBoth
LEMMA TableListsImplied ==
  ASSUME NEW c \in Divisions \cup Strings \cup {"aaa", "aad", "aam", "aas", "cbw", "lahf", "cwd",
                                                "daa", "das", "xlat", "test", "int"},
         NEW a, NEW b, NEW rep \in BOOLEAN, rep => c \in Strings
  PROVE  Lists(c, a, b, rep)
<1> USE DEF Lists, Written, Missed, Touched, Implicit, TouchFirst, TouchBoth, TouchNone, Counted
<1>1. CASE c \in Divisions
  BY <1>1 DEF Divisions, Strings
<1>2. CASE c \in {"aaa", "aad", "aam", "aas"}
  BY <1>2 DEF Strings
<1>3. CASE c \in {"cbw", "lahf", "cwd", "daa", "das", "xlat", "test", "int"}
  BY <1>3 DEF Strings
<1>4. CASE c \in {"movsb", "movsw", "cmpsb", "cmpsw"}
  BY <1>4 DEF Divisions
<1>5. CASE c \in {"stosb", "stosw", "scasb", "scasw"}
  BY <1>5 DEF Divisions
<1>6. CASE c \in {"lodsb", "lodsw"}
  BY <1>6 DEF Divisions
<1>7. QED
  BY <1>1, <1>2, <1>3, <1>4, <1>5, <1>6 DEF Strings

(* CS is never among what an instruction touches, changes or misses. *)
LEMMA CodeSegmentUntouched ==
  ASSUME NEW c, NEW a, NEW b, NEW rep, a # "CS", b # "CS"
  PROVE  /\ "CS" \notin Touched(c, a, b, rep)
         /\ "CS" \notin Written(c, a, b, rep)
         /\ "CS" \notin Missed(c, a, rep)
<1>1. "CS" \notin Implicit(c, a)
  BY DEF Implicit
<1>2. "CS" \notin Missed(c, a, rep)
  BY DEF Missed
<1>3. "CS" \notin Touched(c, a, b, rep)
  BY <1>1 DEF Touched
<1>4. "CS" \notin Written(c, a, b, rep)
  BY <1>2 DEF Written
<1>5. QED
  BY <1>2, <1>3, <1>4

LEMMA CsApart ==
  /\ "CS" \in Regs /\ "CS" \in UnitsOf(WordRegs) /\ Whole("CS") /\ "CS" # "NONE"
  /\ \A rs : "CS" \in UnitsOf(rs) <=> "CS" \in rs
<1>1. "CS" \in WordRegs /\ "CS" \notin DOMAIN Parent /\ \A b \in ByteRegs : Parent[b] # "CS"
  BY RegisterAssumption DEF Parent, ByteRegs
<1>2. Whole("CS") /\ "CS" \in UnitsOf(WordRegs) /\ "CS" \notin ByteRegs
  BY <1>1, AllUnits, Words DEF Whole
<1>3. \A r : "CS" \in Units(r) <=> r = "CS"
  BY <1>1, <1>2 DEF Units
<1>4. QED
  BY <1>1, <1>2, <1>3 DEF UnitsOf, Regs

(* What such an instruction does to the registers, in units. *)
Sound(e) ==
  /\ e.touched \subseteq Regs
  /\ e.written \subseteq UnitsOf(e.touched) \cup e.missed
  /\ "CS" \notin UnitsOf(e.touched) /\ "CS" \notin e.missed

LEMMA ListedIsSound ==
  ASSUME NEW c, NEW a, NEW b, NEW rep, Lists(c, a, b, rep), a # "CS", b # "CS"
  PROVE  Sound(Effect(c, a, b, rep))
<1> DEFINE touched == Touched(c, a, b, rep)
           missed == Missed(c, a, rep)
           written == Written(c, a, b, rep)
<1>1. \A r \in written : r \in missed \/ r \in touched \/ (r = "AX" /\ "AL" \in touched /\ "AH" \in touched)
  BY DEF Lists
<1>2. "CS" \notin touched /\ "CS" \notin missed
  BY CodeSegmentUntouched
<1>3. Effect(c, a, b, rep) = [touched |-> touched \cap Regs, written |-> UnitsOf(written),
                              missed |-> UnitsOf(missed)]
  BY DEF Effect
<1> HIDE DEF touched, missed, written
<1>4. ASSUME NEW u \in UnitsOf(written), u \notin UnitsOf(missed)
      PROVE  u \in UnitsOf(touched \cap Regs)
  <2>1. PICK r \in written : u \in UnitsOf({r})
    BY <1>4, UnitsUnion
  <2>2. r \notin missed
    BY <1>4, <2>1, UnitsUnion
  <2>3. r \in Regs
    <3>1. u \in Units(r) /\ u \in Regs
      BY <2>1 DEF UnitsOf
    <3>2. CASE r \in DOMAIN Parent \cup {"NONE"} \/ ~\E x \in ByteRegs : Parent[x] = r
      <4>1. Units(r) = {r}
        BY <3>2 DEF Units
      <4>2. QED
        BY <3>1, <4>1
    <3>3. CASE \E x \in ByteRegs : Parent[x] = r
      BY <3>3, Bytes DEF Regs
    <3>4. QED
      BY <3>2, <3>3
  <2>4. CASE r \in touched
    BY <2>1, <2>3, <2>4, UnitsUnion
  <2>5. CASE r = "AX" /\ "AL" \in touched /\ "AH" \in touched
    <3>1. "AX" \in WordRegs
      BY <2>3, <2>5 DEF Regs, ByteRegs, Parent
    <3>2. "AL" \in ByteRegs /\ "AH" \in ByteRegs /\ Parent["AL"] = "AX"
      BY <3>1 DEF ByteRegs, Parent
    <3>3. ~Whole("AX")
      BY <3>2 DEF Whole
    <3>4. u \in ByteRegs /\ Parent[u] = "AX"
      BY <2>1, <2>5, <3>1, <3>3, UnitsIs
    <3>5. u = "AL" \/ u = "AH"
      BY <3>4 DEF ByteRegs, Parent
    <3>6. u \in UnitsOf({u}) /\ u \in touched \cap Regs
      BY <2>5, <3>2, <3>5, UnitsIs DEF Regs
    <3>7. QED
      BY <3>6, UnitsUnion
  <2>6. QED
    BY <1>1, <2>1, <2>2, <2>4, <2>5
<1> DEFINE e == Effect(c, a, b, rep)
<1>5. /\ e.touched = touched \cap Regs /\ e.written = UnitsOf(written)
      /\ e.missed = UnitsOf(missed)
  BY <1>3
<1> HIDE DEF e
<1>6. "CS" \notin UnitsOf(touched \cap Regs) /\ "CS" \notin UnitsOf(missed)
  BY <1>2, CsApart
<1>7. Sound(e)
  BY <1>4, <1>5, <1>6 DEF Sound
<1>8. QED
  BY <1>7 DEF e

LEMMA EffectsSound ==
  /\ \A e \in Effects : Sound(e)
  /\ Sound(Effect("int", "NONE", "NONE", FALSE))
<1>1. Sound(Effect("int", "NONE", "NONE", FALSE))
  BY TableListsImplied, ListedIsSound
<1>2. ASSUME NEW e \in Effects
      PROVE  Sound(e)
  <2>1. PICK c \in Classes : e \in EffectsOf(c)
    BY <1>2 DEF Effects
  <2>2. PICK ops \in Operands(c), rep \in Prefixed(c) : e = Effect(c, ops[1], ops[2], rep)
    BY <2>1 DEF EffectsOf
  <2>3. rep \in BOOLEAN /\ (rep => c \in Strings)
    BY <2>2 DEF Prefixed
  <2>4. ops[1] # "CS" /\ ops[2] # "CS"
    BY <2>2 DEF Operands, DataRegs, SegRegs
  <2>5. Lists(c, ops[1], ops[2], rep)
    BY <2>1, <2>3, TableListsOperands, TableListsImplied DEF Classes
  <2>6. QED
    BY <2>2, <2>4, <2>5, ListedIsSound
<1>3. QED
  BY <1>1, <1>2
-----------------------------------------------------------------------------
(* The simulated stack beside the machine's.                               *)

StackHeld(lost, words, real) ==
  \A i \in DOMAIN lost : ~lost[i] => i \in DOMAIN real /\ words[i] = real[i]

LEMMA PushHeld ==
  ASSUME NEW lost \in Seq(BOOLEAN), NEW words \in Seq(WordVals), NEW real \in Seq(WordVals),
         Len(lost) = Len(words), StackHeld(lost, words, real),
         NEW b \in BOOLEAN, NEW v \in WordVals, NEW x \in WordVals, b \/ v = x
  PROVE  /\ StackHeld(<<b>> \o lost, <<v>> \o words, <<x>> \o real)
         /\ <<b>> \o lost \in Seq(BOOLEAN) /\ <<v>> \o words \in Seq(WordVals)
         /\ <<x>> \o real \in Seq(WordVals)
         /\ Len(<<b>> \o lost) = Len(<<v>> \o words)
<1>1. /\ <<b>> \o lost \in Seq(BOOLEAN) /\ <<v>> \o words \in Seq(WordVals)
      /\ <<x>> \o real \in Seq(WordVals)
      /\ Len(<<b>> \o lost) = Len(lost) + 1 /\ Len(<<v>> \o words) = Len(words) + 1
      /\ Len(<<x>> \o real) = Len(real) + 1
  OBVIOUS
<1>2. ASSUME NEW i \in DOMAIN (<<b>> \o lost), ~(<<b>> \o lost)[i]
      PROVE  i \in DOMAIN (<<x>> \o real) /\ (<<v>> \o words)[i] = (<<x>> \o real)[i]
  <2>1. CASE i = 1
    BY <1>2, <2>1
  <2>2. CASE i # 1
    <3>1. i \in 2..(Len(lost) + 1) /\ i - 1 \in DOMAIN lost /\ (<<b>> \o lost)[i] = lost[i - 1]
      BY <1>1, <2>2
    <3>2. i - 1 \in DOMAIN real /\ words[i - 1] = real[i - 1]
      BY <1>2, <3>1 DEF StackHeld
    <3>3. /\ i \in DOMAIN (<<x>> \o real) /\ (<<x>> \o real)[i] = real[i - 1]
          /\ (<<v>> \o words)[i] = words[i - 1]
      BY <1>1, <3>1, <3>2
    <3>4. QED
      BY <3>2, <3>3
  <2>3. QED
    BY <2>1, <2>2
<1>3. QED
  BY <1>1, <1>2 DEF StackHeld

LEMMA PopHeld ==
  ASSUME NEW lost \in Seq(BOOLEAN), NEW words \in Seq(WordVals), NEW real \in Seq(WordVals),
         Len(lost) = Len(words), StackHeld(lost, words, real), words # << >>
  PROVE  /\ StackHeld(Tail(lost), Tail(words), IF real = << >> THEN << >> ELSE Tail(real))
         /\ Tail(lost) \in Seq(BOOLEAN) /\ Tail(words) \in Seq(WordVals)
         /\ Len(Tail(lost)) = Len(Tail(words))
         /\ Head(lost) \in BOOLEAN /\ Head(words) \in WordVals
         /\ ~Head(lost) => real # << >> /\ Head(words) = Head(real)
<1>1. /\ Tail(lost) \in Seq(BOOLEAN) /\ Tail(words) \in Seq(WordVals)
      /\ Len(Tail(lost)) = Len(lost) - 1 /\ Len(Tail(words)) = Len(words) - 1
      /\ Len(lost) # 0 /\ Head(lost) = lost[1] /\ Head(words) = words[1]
      /\ 1 \in DOMAIN lost /\ 1 \in DOMAIN words
  OBVIOUS
<1>2. ASSUME ~Head(lost) PROVE real # << >> /\ Head(words) = Head(real)
  <2>1. 1 \in DOMAIN real /\ words[1] = real[1]
    BY <1>1, <1>2 DEF StackHeld
  <2>2. QED
    BY <1>1, <2>1
<1>3. ASSUME NEW i \in DOMAIN Tail(lost), ~Tail(lost)[i]
      PROVE  real # << >> /\ i \in DOMAIN Tail(real) /\ Tail(words)[i] = Tail(real)[i]
  <2>1. i \in Nat /\ i + 1 \in DOMAIN lost /\ ~lost[i + 1] /\ Tail(words)[i] = words[i + 1]
    BY <1>1, <1>3
  <2>2. i + 1 \in DOMAIN real /\ words[i + 1] = real[i + 1]
    BY <2>1 DEF StackHeld
  <2>3. real # << >> /\ i \in DOMAIN Tail(real) /\ Tail(real)[i] = real[i + 1]
    BY <1>1, <1>3, <2>2
  <2>4. QED
    BY <2>1, <2>2, <2>3
<1>4. StackHeld(Tail(lost), Tail(words), IF real = << >> THEN << >> ELSE Tail(real))
  <2>1. CASE real = << >>
    BY <1>3, <2>1 DEF StackHeld
  <2>2. CASE real # << >>
    BY <1>3, <2>2 DEF StackHeld
  <2>3. QED
    BY <2>1, <2>2
<1>5. Head(lost) \in BOOLEAN /\ Head(words) \in WordVals
  BY <1>1
<1>6. QED
  BY <1>1, <1>2, <1>4, <1>5

-----------------------------------------------------------------------------
(* The invariant: types; CS is always known and never lost; and what is    *)
(* said to be known.                                                       *)

Traced ==
  /\ traced \in States /\ mach \in Files /\ mstack \in Seq(WordVals)
  /\ sstale \in Seq(BOOLEAN) /\ Len(sstale) = Len(traced.stack)
  /\ IsKnown(traced, "CS") /\ "CS" \notin stale
  /\ AgreeOn(traced, mach, stale)
  /\ StackHeld(sstale, traced.stack, mstack)

TraceInv == Traced /\ StoredIsLoaded

LEMMA HeldIsKnown == Traced => KnownUnlessStale
BY DEF Traced, AgreeOn, StackHeld, KnownUnlessStale

(* A register known before is known after another one is set.              *)
LEMMA SetKeepsCs ==
  ASSUME NEW s \in States, NEW r \in (Regs \cup {"NONE"}) \ {"CS"}, NEW v \in Vals(r)
  PROVE  /\ Get(SetValue(s, r, v).known, "CS") = Get(s.known, "CS")
         /\ Get(SetValue(s, r, v).regs, "CS") = Get(s.regs, "CS")
<1>1. "CS" \notin UnitsOf({r}) /\ "CS" \in UnitsOf(WordRegs)
  BY CsApart
<1>2. s.known \in Files /\ s.regs \in Files
  BY DEF States
<1>3. /\ Get(Set(s.known, r, AllBits(r)), "CS") = Get(s.known, "CS")
      /\ Get(Set(s.regs, r, v), "CS") = Get(s.regs, "CS")
  BY <1>1, <1>2, GetOfSet, AllBitsType
<1>4. QED
  BY <1>3, SetValueIs

(* A register is set in both.                                              *)
LEMMA Assigned ==
  ASSUME Traced, NEW d \in (Regs \cup {"NONE"}) \ {"CS"}, NEW v \in Vals(d), NEW x \in Vals(d),
         NEW isStale \in BOOLEAN, isStale \/ v = x
  PROVE  /\ SetValue(traced, d, v) \in States /\ Set(mach, d, x) \in Files
         /\ SetValue(traced, d, v).stack = traced.stack
         /\ IsKnown(SetValue(traced, d, v), "CS") /\ "CS" \notin Refreshed(d, isStale)
         /\ AgreeOn(SetValue(traced, d, v), Set(mach, d, x), Refreshed(d, isStale))
         /\ d # "NONE" /\ d \in DOMAIN SegTypeOf /\ d \notin Refreshed(d, isStale)
              => v = Set(mach, d, x)[d]
<1>1. traced \in States /\ mach \in Files /\ AgreeOn(traced, mach, stale)
  BY DEF Traced
<1>2. /\ SetValue(traced, d, v) \in States /\ Set(mach, d, x) \in Files
      /\ SetValue(traced, d, v).stack = traced.stack
  BY <1>1, SetValueIs, SetIs
<1>3. IsKnown(SetValue(traced, d, v), "CS")
  BY <1>1, SetKeepsCs DEF IsKnown, Traced
<1>4. "CS" \notin Refreshed(d, isStale)
  BY CsApart DEF Refreshed, Traced
<1>5. AgreeOn(SetValue(traced, d, v), Set(mach, d, x), Refreshed(d, isStale))
  <2>1. stale \ UnitsOf({d}) \subseteq Refreshed(d, isStale)
    BY DEF Refreshed
  <2>2. v = x \/ UnitsOf({d}) \subseteq Refreshed(d, isStale)
    BY DEF Refreshed
  <2>3. QED
    BY <1>1, <2>1, <2>2, SetBoth
<1>6. ASSUME d # "NONE", d \in DOMAIN SegTypeOf, d \notin Refreshed(d, isStale)
      PROVE  v = Set(mach, d, x)[d]
  <2>1. d \in WordRegs
    BY <1>6 DEF SegTypeOf, Regs, ByteRegs, Parent
  <2>2. Whole(d)
    BY <1>6, <2>1 DEF Whole, SegTypeOf, ByteRegs, Parent
  <2>3. UnitsOf({d}) = {d}
    BY <2>1, <2>2, UnitsIs
  <2>4. ~isStale
    BY <1>6, <2>3 DEF Refreshed
  <2>5. Set(mach, d, x)[d] = x
    BY <1>1, <2>1, SetIs DEF Files
  <2>6. QED
    BY <2>4, <2>5
<1>7. QED
  BY <1>2, <1>3, <1>4, <1>5, <1>6

(* A register is set in the machine, and the tracing could not follow.     *)
LEMMA Abandoned ==
  ASSUME Traced, NEW d \in (Regs \cup {"NONE"}) \ {"CS"}, NEW x \in Vals(d)
  PROVE  /\ Set(mach, d, x) \in Files /\ "CS" \notin stale \cup UnitsOf({d})
         /\ AgreeOn(traced, Set(mach, d, x), stale \cup UnitsOf({d}))
<1>1. Set(mach, d, x) \in Files
  BY SetIs DEF Traced
<1>2. "CS" \notin stale \cup UnitsOf({d})
  BY CsApart DEF Traced
<1>3. AgreeOn(traced, Set(mach, d, x), stale \cup UnitsOf({d}))
  BY SetMachine DEF Traced
<1>4. QED
  BY <1>1, <1>2, <1>3
-----------------------------------------------------------------------------
(* What the actions keep.                                                  *)

LEMMA NothingStored ==
  ASSUME stored' = NotStored
  PROVE  StoredIsLoaded'
BY DEF StoredIsLoaded, NotStored

LEMMA SetsStep ==
  ASSUME Traced, NEW d \in Regs \ {"CS"}, NEW v \in Vals(d), NEW x \in Vals(d),
         NEW isStale \in BOOLEAN, isStale \/ v = x,
         Sets(d, v, isStale), mach' = Set(mach, d, x), UNCHANGED <<mstack, sstale>>
  PROVE  Traced' /\ StoredIsLoaded'
<1>1. /\ traced' = SetValue(traced, d, v) /\ stale' = Refreshed(d, isStale)
      /\ stored' = Stored(d, v)
  BY DEF Sets
<1>2. d \in (Regs \cup {"NONE"}) \ {"CS"} /\ d # "NONE"
  BY Words, Bytes DEF Regs
<1>3. Traced'
  <2>1. /\ traced' \in States /\ mach' \in Files /\ traced'.stack = traced.stack
        /\ IsKnown(traced', "CS") /\ "CS" \notin stale' /\ AgreeOn(traced', mach', stale')
    BY <1>1, <1>2, Assigned
  <2>2. QED
    BY <2>1 DEF Traced
<1>4. StoredIsLoaded'
  <2>1. d \in DOMAIN SegTypeOf /\ d \notin stale' => v = mach'[d]
    BY <1>1, <1>2, Assigned
  <2>2. QED
    BY <1>1, <2>1 DEF StoredIsLoaded, Stored, NotStored
<1>5. QED
  BY <1>3, <1>4

LEMMA KeepsStep ==
  ASSUME Traced, NEW d \in (Regs \cup {"NONE"}) \ {"CS"}, NEW x \in Vals(d),
         Keeps(d), mach' = Set(mach, d, x)
  PROVE  /\ traced' = traced /\ mach' \in Files /\ "CS" \notin stale'
         /\ AgreeOn(traced', mach', stale') /\ StoredIsLoaded'
<1>1. traced' = traced /\ stale' = stale \cup UnitsOf({d}) /\ stored' = NotStored
  BY DEF Keeps
<1>2. QED
  BY <1>1, Abandoned, NothingStored

LEMMA MovImmStep ==
  ASSUME Traced, NEW d \in Regs \ {"CS"}, NEW v \in Vals(d), MovImm(d, v)
  PROVE  Traced' /\ StoredIsLoaded'
BY SetsStep DEF MovImm

LEMMA MovRegStep ==
  ASSUME Traced, NEW d \in Regs \ {"CS"}, NEW s \in Regs, SameSize(d, s), MovReg(d, s)
  PROVE  Traced' /\ StoredIsLoaded'
<1>1. Vals(d) = Vals(s)
  BY DEF SameSize, Vals
<1>2. traced \in States /\ mach \in Files /\ AgreeOn(traced, mach, stale)
  BY DEF Traced
<1>3. Get(mach, s) \in Vals(d) /\ Value(traced, s) \in Vals(d)
  BY <1>1, <1>2, GetType, ValueType
<1>4. mach' = Set(mach, d, Get(mach, s)) /\ UNCHANGED <<mstack, sstale>>
  BY DEF MovReg
<1>5. CASE IsKnown(traced, s)
  <2> DEFINE isStale == UnitsOf({s}) \cap stale # {}
  <2>1. Sets(d, Value(traced, s), isStale)
    BY <1>5 DEF MovReg
  <2>2. isStale \/ Value(traced, s) = Get(mach, s)
    BY <1>2, <1>5, ValueHeld
  <2>3. isStale \in BOOLEAN
    OBVIOUS
  <2> HIDE DEF isStale
  <2>4. QED
    BY <1>3, <1>4, <2>1, <2>2, <2>3, SetsStep
<1>6. CASE ~IsKnown(traced, s)
  <2>1. Keeps(d)
    BY <1>6 DEF MovReg
  <2>2. QED
    BY <1>3, <1>4, <2>1, KeepsStep DEF Traced
<1>7. QED
  BY <1>5, <1>6

LEMMA MovMemStep ==
  ASSUME Traced, NEW d \in Regs \ {"CS"}, NEW seg, NEW v \in Vals(d), MovMem(d, seg, v)
  PROVE  Traced' /\ StoredIsLoaded'
<1>1. mach' = Set(mach, d, v) /\ UNCHANGED <<mstack, sstale>>
  BY DEF MovMem
<1>2. CASE seg # "SS" /\ IsKnown(traced, seg) /\ Value(traced, seg) \in DOMAIN ImageWords
  <2> DEFINE w == ImageWords[Value(traced, seg)]
             read == IF d \in ByteRegs THEN Low(w) ELSE w
  <2>1. Sets(d, read, TRUE)
    BY <1>2 DEF MovMem
  <2>2. w \in WordVals
    BY <1>2, TraceAssumption
  <2> HIDE DEF w
  <2>3. read \in Vals(d)
    BY <2>2, HalvesOfWord DEF Vals
  <2> HIDE DEF read
  <2>4. QED
    BY <1>1, <2>1, <2>3, SetsStep
<1>3. CASE ~(seg # "SS" /\ IsKnown(traced, seg) /\ Value(traced, seg) \in DOMAIN ImageWords)
  <2>1. Keeps(d)
    BY <1>3 DEF MovMem
  <2>2. QED
    BY <1>1, <2>1, KeepsStep DEF Traced
<1>4. QED
  BY <1>2, <1>3

LEMMA MovOtherStep ==
  ASSUME Traced, NEW d \in Regs \ {"CS"}, NEW v \in Vals(d), MovOther(d, v)
  PROVE  Traced' /\ StoredIsLoaded'
BY KeepsStep DEF MovOther, Traced

LEMMA PushRegStep ==
  ASSUME Traced, NEW r \in WordRegs, PushReg(r)
  PROVE  Traced' /\ StoredIsLoaded'
<1>1. /\ traced \in States /\ mach \in Files /\ AgreeOn(traced, mach, stale)
      /\ mstack \in Seq(WordVals) /\ sstale \in Seq(BOOLEAN) /\ traced.stack \in Seq(WordVals)
      /\ Len(sstale) = Len(traced.stack) /\ StackHeld(sstale, traced.stack, mstack)
  BY DEF Traced, States
<1>2. r \in Regs /\ Vals(r) = WordVals
  BY Words DEF Regs, Vals
<1>3. Get(mach, r) \in WordVals /\ Value(traced, r) \in WordVals
  BY <1>1, <1>2, GetType, ValueType
<1>4. /\ mstack' = <<Get(mach, r)>> \o mstack /\ UNCHANGED <<mach, stale>>
      /\ StoredIsLoaded'
  BY NothingStored DEF PushReg
<1>5. CASE IsKnown(traced, r)
  <2> DEFINE b == UnitsOf({r}) \cap stale # {}
             v == Value(traced, r)
             x == Get(mach, r)
             words == <<v>> \o traced.stack
  <2>1. traced' = [traced EXCEPT !.stack = words] /\ sstale' = <<b>> \o sstale
    BY <1>5 DEF PushReg
  <2>2. b \in BOOLEAN /\ (b \/ v = x)
    BY <1>1, <1>2, <1>5, ValueHeld
  <2>3. /\ StackHeld(<<b>> \o sstale, words, <<x>> \o mstack)
        /\ <<b>> \o sstale \in Seq(BOOLEAN) /\ words \in Seq(WordVals)
        /\ <<x>> \o mstack \in Seq(WordVals)
        /\ Len(<<b>> \o sstale) = Len(words)
    <3> HIDE DEF b, v, x
    <3>1. v \in WordVals /\ x \in WordVals
      BY <1>3 DEF v, x
    <3>2. QED
      BY <1>1, <2>2, <3>1, PushHeld
  <2> HIDE DEF words
  <2>4. /\ traced' \in States /\ traced'.regs = traced.regs /\ traced'.known = traced.known
        /\ traced'.stack = words
    BY <1>1, <2>1, <2>3 DEF States
  <2>5. IsKnown(traced', "CS") /\ AgreeOn(traced', mach, stale)
    BY <1>1, <2>4 DEF AgreeOn, IsKnown, Traced
  <2>6. QED
    BY <1>1, <1>4, <2>1, <2>3, <2>4, <2>5 DEF Traced
<1>6. CASE ~IsKnown(traced, r)
  <2>1. traced' = [traced EXCEPT !.stack = << >>] /\ sstale' = << >>
    BY <1>6 DEF PushReg
  <2>2. /\ traced' \in States /\ traced'.regs = traced.regs /\ traced'.known = traced.known
        /\ traced'.stack = << >>
    <3>1. << >> \in Seq(WordVals)
      OBVIOUS
    <3>2. QED
      BY <1>1, <2>1, <3>1 DEF States
  <2>3. IsKnown(traced', "CS") /\ AgreeOn(traced', mach, stale)
    BY <1>1, <2>2 DEF AgreeOn, IsKnown, Traced
  <2>4. mstack' \in Seq(WordVals)
    BY <1>1, <1>3, <1>4
  <2>5. StackHeld(sstale', traced'.stack, mstack')
    BY <2>1 DEF StackHeld
  <2>6. QED
    BY <1>1, <1>4, <2>1, <2>2, <2>3, <2>4, <2>5 DEF Traced
<1>7. QED
  BY <1>5, <1>6
(* The simulated stack emptied: nothing is said of any word.               *)
LEMMA Forgotten ==
  ASSUME NEW s \in States
  PROVE  LET t == [s EXCEPT !.stack = << >>]
         IN t \in States /\ t.regs = s.regs /\ t.known = s.known /\ t.stack = << >>
<1>1. << >> \in Seq(WordVals)
  OBVIOUS
<1>2. QED
  BY <1>1 DEF States

LEMMA PushOtherStep ==
  ASSUME Traced, NEW v \in WordVals, PushOther(v)
  PROVE  Traced' /\ StoredIsLoaded'
<1>1. traced \in States /\ mstack \in Seq(WordVals) /\ AgreeOn(traced, mach, stale)
  BY DEF Traced
<1>2. /\ mstack' = <<v>> \o mstack /\ UNCHANGED <<mach, stale>>
      /\ traced' = [traced EXCEPT !.stack = << >>] /\ sstale' = << >> /\ StoredIsLoaded'
  BY NothingStored DEF PushOther
<1>3. /\ traced' \in States /\ traced'.regs = traced.regs /\ traced'.known = traced.known
      /\ traced'.stack = << >>
  BY <1>1, <1>2, Forgotten
<1>4. IsKnown(traced', "CS") /\ AgreeOn(traced', mach, stale)
  BY <1>1, <1>3 DEF AgreeOn, IsKnown, Traced
<1>5. mstack' \in Seq(WordVals) /\ StackHeld(sstale', traced'.stack, mstack')
  BY <1>1, <1>2 DEF StackHeld
<1>6. QED
  BY <1>2, <1>3, <1>4, <1>5 DEF Traced

LEMMA PopStep ==
  ASSUME Traced, NEW r \in (WordRegs \ {"CS"}) \cup {"NONE"}, NEW v \in Popped, Pop(r, v)
  PROVE  Traced' /\ StoredIsLoaded'
<1>1. /\ traced \in States /\ mach \in Files /\ AgreeOn(traced, mach, stale)
      /\ mstack \in Seq(WordVals) /\ sstale \in Seq(BOOLEAN) /\ traced.stack \in Seq(WordVals)
      /\ Len(sstale) = Len(traced.stack) /\ StackHeld(sstale, traced.stack, mstack)
  BY DEF Traced, States
<1>2. r \in (Regs \cup {"NONE"}) \ {"CS"} /\ Vals(r) = WordVals
  BY Words, Bytes, CsApart DEF Regs, Vals
<1>3. v \in WordVals /\ Below \in Seq(WordVals)
  BY <1>1 DEF Popped, Below
<1>4. mach' = Set(mach, r, v) /\ mstack' = Below
  BY DEF Pop
<1>5. CASE traced.stack = << >>
  <2>1. Keeps(r) /\ UNCHANGED sstale
    BY <1>5 DEF Pop
  <2>2. /\ traced' = traced /\ mach' \in Files /\ "CS" \notin stale'
        /\ AgreeOn(traced', mach', stale') /\ StoredIsLoaded'
    BY <1>2, <1>3, <1>4, <2>1, KeepsStep
  <2>3. StackHeld(sstale', traced'.stack, mstack')
    <3>1. DOMAIN sstale = {}
      BY <1>1, <1>5
    <3>2. QED
      BY <2>1, <3>1 DEF StackHeld
  <2>4. QED
    BY <1>1, <1>3, <1>4, <2>1, <2>2, <2>3 DEF Traced
<1>6. CASE traced.stack # << >>
  <2> DEFINE w == Head(traced.stack)
             b == Head(sstale)
             t == SetValue(traced, r, w)
  <2>1. /\ traced' = [t EXCEPT !.stack = Tail(t.stack)]
        /\ stale' = Refreshed(r, b) /\ sstale' = Tail(sstale) /\ stored' = Stored(r, w)
    BY <1>6 DEF Pop
  <2>2. /\ StackHeld(Tail(sstale), Tail(traced.stack), Below)
        /\ Tail(sstale) \in Seq(BOOLEAN) /\ Tail(traced.stack) \in Seq(WordVals)
        /\ Len(Tail(sstale)) = Len(Tail(traced.stack))
        /\ b \in BOOLEAN /\ w \in WordVals
        /\ ~b => mstack # << >> /\ w = Head(mstack)
    BY <1>1, <1>6, PopHeld DEF Below
  <2>3. b \/ w = v
    BY <2>2 DEF Popped
  <2> HIDE DEF w, b
  <2>4. /\ t \in States /\ mach' \in Files /\ t.stack = traced.stack
        /\ IsKnown(t, "CS") /\ "CS" \notin stale' /\ AgreeOn(t, mach', stale')
        /\ r # "NONE" /\ r \in DOMAIN SegTypeOf /\ r \notin stale' => w = mach'[r]
    BY <1>2, <1>3, <1>4, <2>1, <2>2, <2>3, Assigned
  <2> HIDE DEF t
  <2>5. /\ traced' \in States /\ traced'.regs = t.regs /\ traced'.known = t.known
        /\ traced'.stack = Tail(traced.stack)
    BY <2>1, <2>2, <2>4 DEF States
  <2>6. IsKnown(traced', "CS") /\ AgreeOn(traced', mach', stale')
    BY <2>4, <2>5 DEF AgreeOn, IsKnown
  <2>7. StoredIsLoaded'
    BY <2>1, <2>4 DEF StoredIsLoaded, Stored, NotStored
  <2>8. Traced'
    BY <1>3, <1>4, <2>1, <2>2, <2>4, <2>5, <2>6 DEF Traced
  <2>9. QED
    BY <2>7, <2>8
<1>7. QED
  BY <1>5, <1>6

(* Words moved under the simulated stack: nothing is said of them any more. *)
LEMMA AllStale ==
  ASSUME Traced, sstale' = [i \in DOMAIN sstale |-> TRUE], NEW real
  PROVE  sstale' \in Seq(BOOLEAN) /\ Len(sstale') = Len(sstale) /\ StackHeld(sstale', traced.stack, real)
<1>1. sstale \in Seq(BOOLEAN)
  BY DEF Traced
<1>2. sstale' \in [1..Len(sstale) -> BOOLEAN] /\ DOMAIN sstale' = DOMAIN sstale
  BY <1>1
<1>3. sstale' \in Seq(BOOLEAN) /\ Len(sstale') = Len(sstale)
  BY <1>1, <1>2
<1>4. QED
  BY <1>3 DEF StackHeld

LEMMA MoveStackStep ==
  ASSUME Traced, MoveStack
  PROVE  Traced' /\ StoredIsLoaded'
<1>1. mstack \in Seq(WordVals)
  BY DEF Traced
<1>2. mstack' \in Seq(WordVals)
  <2>1. CASE \E v \in WordVals : mstack' = <<v>> \o mstack
    BY <1>1, <2>1
  <2>2. CASE mstack # << >> /\ mstack' = Tail(mstack)
    BY <1>1, <2>2
  <2>3. QED
    BY <2>1, <2>2 DEF MoveStack
<1>3. /\ sstale' = [i \in DOMAIN sstale |-> TRUE]
      /\ StoredIsLoaded' /\ UNCHANGED <<traced, mach, stale>>
  BY NothingStored DEF MoveStack
<1>4. QED
  BY <1>2, <1>3, AllStale DEF Traced

(* The machine changes only what an instruction is said to write. *)
LEMMA WritesIs ==
  ASSUME mach \in Files, NEW rs, Writes(rs)
  PROVE  /\ mach' \in Files
         /\ \A u \in UnitsOf(WordRegs) \ rs : Get(mach', u) = Get(mach, u)
<1> DEFINE words == {w \in WordRegs : UnitsOf({w}) \cap rs # {}}
<1>1. PICK f \in [words -> WordVals] :
        /\ mach' = [w \in WordRegs |-> IF w \in words THEN f[w] ELSE mach[w]]
        /\ \A u \in UnitsOf(words) \ rs : Get(mach', u) = Get(mach, u)
  BY DEF Writes
<1>2. mach' \in Files
  BY <1>1 DEF Files
<1>3. ASSUME NEW u \in UnitsOf(WordRegs) \ rs PROVE Get(mach', u) = Get(mach, u)
  <2>1. PICK w \in WordRegs : u \in UnitsOf({w})
    BY UnitsUnion
  <2>2. CASE w \in words
    BY <1>1, <2>1, <2>2, UnitsUnion
  <2>3. CASE w \notin words
    <3>1. mach'[w] = mach[w]
      BY <1>1, <2>3
    <3>2. \/ u \in ByteRegs /\ Parent[u] = w
          \/ u \notin ByteRegs /\ u = w
      <4>1. CASE Whole(w)
        BY <2>1, <4>1, UnitsIs, Words
      <4>2. CASE ~Whole(w)
        BY <2>1, <4>2, UnitsIs
      <4>3. QED
        BY <4>1, <4>2
    <3>3. QED
      BY <3>1, <3>2 DEF Get
  <2>4. QED
    BY <2>2, <2>3
<1>4. QED
  BY <1>2, <1>3

LEMMA FollowStep ==
  ASSUME Traced, NEW e, Sound(e), Follow(e)
  PROVE  Traced' /\ StoredIsLoaded'
<1>1. traced \in States /\ traced.regs \in Files /\ traced.known \in Files /\ e.touched \in SUBSET Regs
  BY DEF Traced, States, Sound
<1>2. /\ traced' = [traced EXCEPT !.regs = Cleared(traced.regs, e.touched),
                                  !.known = Cleared(traced.known, e.touched)]
      /\ stale' = stale \cup e.missed /\ UNCHANGED <<mstack, sstale>>
      /\ mach' \in Files
      /\ \A u \in UnitsOf(WordRegs) \ e.written : Get(mach', u) = Get(mach, u)
      /\ StoredIsLoaded'
  BY NothingStored, WritesIs DEF Follow, SetAllUnknown, Traced
<1>3. /\ traced'.regs = Cleared(traced.regs, e.touched)
      /\ traced'.known = Cleared(traced.known, e.touched)
      /\ traced'.stack = traced.stack /\ traced' \in States
  <2>1. Cleared(traced.regs, e.touched) \in Files /\ Cleared(traced.known, e.touched) \in Files
    BY <1>1, ClearedIs
  <2>2. QED
    BY <1>1, <1>2, <2>1 DEF States
<1>4. ASSUME NEW u \in UnitsOf(WordRegs)
      PROVE  /\ Get(traced'.regs, u) = IF u \in UnitsOf(e.touched) THEN 0 ELSE Get(traced.regs, u)
             /\ Get(traced'.known, u) = IF u \in UnitsOf(e.touched) THEN 0 ELSE Get(traced.known, u)
  BY <1>1, <1>3, ClearedIs
<1>5. AgreeOn(traced', mach', stale')
  <2> SUFFICES ASSUME NEW u \in UnitsOf(WordRegs) \ stale', IsKnown(traced', u)
               PROVE  Get(traced'.regs, u) = Get(mach', u)
    BY DEF AgreeOn
  <2>1. u \notin UnitsOf(e.touched) /\ IsKnown(traced, u)
    BY <1>4, AllBitsType DEF IsKnown
  <2>2. u \notin e.written
    BY <1>2, <2>1 DEF Sound
  <2>3. u \in UnitsOf(WordRegs) \ stale
    BY <1>2
  <2>4. Get(traced.regs, u) = Get(mach, u)
    BY <2>1, <2>3 DEF Traced, AgreeOn
  <2>5. QED
    BY <1>2, <1>4, <2>1, <2>2, <2>4
<1>6. IsKnown(traced', "CS") /\ "CS" \notin stale'
  BY <1>2, <1>4, CsApart DEF Traced, Sound, IsKnown
<1>7. QED
  BY <1>2, <1>3, <1>5, <1>6 DEF Traced

LEMMA LoopStep ==
  ASSUME Traced, Loop
  PROVE  Traced' /\ StoredIsLoaded'
<1>1. /\ mach' \in Files /\ stale' = stale \cup UnitsOf({"CX"})
      /\ \A u \in UnitsOf(WordRegs) \ UnitsOf({"CX"}) : Get(mach', u) = Get(mach, u)
      /\ UNCHANGED <<traced, mstack, sstale>> /\ StoredIsLoaded'
  BY NothingStored, WritesIs DEF Loop, Traced
<1>2. AgreeOn(traced', mach', stale')
  BY <1>1 DEF Traced, AgreeOn
<1>3. "CS" \notin stale'
  BY <1>1, CsApart DEF Traced
<1>4. QED
  BY <1>1, <1>2, <1>3 DEF Traced

(* Nothing is known in a new state. *)
LEMMA NewStateIs ==
  /\ NewState \in States /\ NewState.stack = << >>
  /\ \A u \in UnitsOf(WordRegs) : Get(NewState.known, u) = 0
<1>1. 0 \in WordVals /\ << >> \in Seq(WordVals)
  BY RegisterAssumption DEF WordVals
<1>2. NewState \in States
  BY <1>1 DEF NewState, Blank, States, Files
<1>3. Low(0) = 0 /\ High(0) = 0
  <2>1. 0 \in Nat /\ 0 \in ByteVals /\ 0 * Base + 0 = 0
    BY RegisterAssumption DEF ByteVals
  <2>2. QED
    BY <2>1, Compose
<1>4. ASSUME NEW u \in UnitsOf(WordRegs) PROVE Get(NewState.known, u) = 0
  <2>1. CASE u \in ByteRegs
    BY <1>3, <2>1, Bytes DEF NewState, Blank, Get, Half
  <2>2. CASE Whole(u)
    BY <2>2, Words DEF NewState, Blank, Get, Whole
  <2>3. QED
    BY <2>1, <2>2, AllUnits
<1>5. QED
  BY <1>2, <1>4 DEF NewState

(* Of a register set to a value, only that register becomes known. *)
LEMMA OnlyOneKnown ==
  ASSUME NEW s \in States, NEW r \in {"CS", "DS", "SS"}, NEW v \in WordVals,
         NEW u \in UnitsOf(WordRegs)
  PROVE  /\ SetValue(s, r, v) \in States /\ SetValue(s, r, v).stack = s.stack
         /\ u # r => /\ Get(SetValue(s, r, v).known, u) = Get(s.known, u)
                     /\ Get(SetValue(s, r, v).regs, u) = Get(s.regs, u)
<1>1. r \notin ByteRegs /\ Vals(r) = WordVals
  BY DEF ByteRegs, Parent, Vals
<1>2. /\ SetValue(s, r, v) \in States /\ SetValue(s, r, v).stack = s.stack
      /\ SetValue(s, r, v).regs = Set(s.regs, r, v)
      /\ SetValue(s, r, v).known = Set(s.known, r, AllBits(r))
  BY <1>1, SetValueIs
<1>3. s.regs \in Files /\ s.known \in Files /\ AllBits(r) \in Vals(r)
  BY AllBitsType DEF States
<1>4. ASSUME u # r
      PROVE  /\ Get(Set(s.known, r, AllBits(r)), u) = Get(s.known, u)
             /\ Get(Set(s.regs, r, v), u) = Get(s.regs, u)
  <2>1. CASE r \in WordRegs
    <3>1. UnitsOf({r}) = {r}
      <4>1. Whole(r)
        BY <2>1 DEF Whole, ByteRegs, Parent
      <4>2. QED
        BY <2>1, <4>1, UnitsIs
    <3>2. r \in Regs \cup {"NONE"}
      BY <2>1 DEF Regs
    <3>3. QED
      BY <1>1, <1>3, <1>4, <3>1, <3>2, GetOfSet
  <2>2. CASE r \notin WordRegs
    <3>1. r \notin Regs
      BY <1>1, <2>2 DEF Regs
    <3>2. Set(s.known, r, AllBits(r)) = s.known /\ Set(s.regs, r, v) = s.regs
      BY <1>1, <1>3, <3>1, SetIs
    <3>3. QED
      BY <3>2
  <2>3. QED
    BY <2>1, <2>2
<1>5. QED
  BY <1>2, <1>4

(* CS set to a value is known, and holds the value. *)
LEMMA CsSet ==
  ASSUME NEW s \in States, NEW v \in WordVals
  PROVE  /\ IsKnown(SetValue(s, "CS", v), "CS")
         /\ Get(SetValue(s, "CS", v).regs, "CS") = v
<1>1. "CS" \in WordRegs /\ "CS" \notin ByteRegs /\ Vals("CS") = WordVals
  BY RegisterAssumption DEF ByteRegs, Parent, Vals
<1>2. /\ SetValue(s, "CS", v).regs = [s.regs EXCEPT !["CS"] = v]
      /\ SetValue(s, "CS", v).known = [s.known EXCEPT !["CS"] = AllBits("CS")]
  <2>1. s.regs \in Files /\ s.known \in Files /\ AllBits("CS") \in Vals("CS")
    BY AllBitsType DEF States
  <2>2. /\ SetValue(s, "CS", v).regs = Set(s.regs, "CS", v)
        /\ SetValue(s, "CS", v).known = Set(s.known, "CS", AllBits("CS"))
    BY <1>1, SetValueIs
  <2>3. /\ Set(s.regs, "CS", v) = [s.regs EXCEPT !["CS"] = v]
        /\ Set(s.known, "CS", AllBits("CS")) = [s.known EXCEPT !["CS"] = AllBits("CS")]
    BY <1>1 DEF Set
  <2>4. QED
    BY <2>2, <2>3
<1>3. QED
  BY <1>1, <1>2 DEF States, Files, IsKnown, Get
LEMMA KeptIs ==
  ASSUME NEW s \in States, NEW r \in {"DS", "SS"}, NEW keep \in States
  PROVE  /\ Kept(s, r, keep) \in States /\ Kept(s, r, keep).stack = keep.stack
         /\ \A u \in UnitsOf(WordRegs) \ {r} :
              /\ Get(Kept(s, r, keep).known, u) = Get(keep.known, u)
              /\ Get(Kept(s, r, keep).regs, u) = Get(keep.regs, u)
<1>1. CASE r \in WordRegs /\ IsKnown(s, r)
  <2>1. Kept(s, r, keep) = SetValue(keep, r, Value(s, r))
    BY <1>1 DEF Kept
  <2>2. Value(s, r) \in WordVals
    BY <1>1, ValueType, Words DEF Regs, Vals
  <2>3. "CS" \in UnitsOf(WordRegs)
    BY CsApart
  <2>4. QED
    BY <2>1, <2>2, <2>3, OnlyOneKnown
<1>2. CASE ~(r \in WordRegs /\ IsKnown(s, r))
  BY <1>2 DEF Kept
<1>3. QED
  BY <1>1, <1>2

(* A callee is entered with CS the same in what is traced and in the       *)
(* machine.                                                                *)
LEMMA CallIntoStep ==
  ASSUME Traced, NEW v \in WordVals, NEW seg \in WordVals, CallInto(v, seg)
  PROVE  Traced' /\ StoredIsLoaded'
<1>1. mstack' \in Seq(WordVals)
  BY DEF CallInto, Traced
<1>2. /\ sstale' = [i \in DOMAIN sstale |-> TRUE] /\ UNCHANGED stale
      /\ traced' = SetValue(traced, "CS", seg) /\ mach' = Set(mach, "CS", seg)
      /\ StoredIsLoaded'
  BY NothingStored DEF CallInto
<1>3. traced \in States /\ mach \in Files /\ AgreeOn(traced, mach, stale) /\ "CS" \notin stale
  BY DEF Traced
<1>4. "CS" \in Regs \cup {"NONE"} /\ seg \in Vals("CS")
  BY CsApart DEF Vals, ByteRegs, Parent
<1>5. AgreeOn(traced', mach', stale')
  BY <1>2, <1>3, <1>4, SetBoth
<1>6. mach' \in Files
  BY <1>2, <1>3, <1>4, SetIs
<1>7. traced' \in States /\ traced'.stack = traced.stack /\ IsKnown(traced', "CS")
  BY <1>2, <1>3, CsSet, CsApart, OnlyOneKnown
<1>8. /\ sstale' \in Seq(BOOLEAN) /\ Len(sstale') = Len(traced'.stack)
      /\ StackHeld(sstale', traced'.stack, mstack')
  BY <1>2, <1>7, AllStale DEF StackHeld, Traced
<1>9. QED
  BY <1>1, <1>2, <1>3, <1>5, <1>6, <1>7, <1>8 DEF Traced

LEMMA CallOverStep ==
  ASSUME Traced, CallOver
  PROVE  Traced' /\ StoredIsLoaded'
<1> DEFINE cs == SetValue(NewState, "CS", Value(traced, "CS"))
           ds == Kept(traced, "DS", cs)
           ss == Kept(traced, "SS", ds)
<1>1. /\ traced' = ss /\ sstale' = << >> /\ mstack' = << >>
      /\ stale' = stale \cup UnitsOf({"DS", "SS"}) /\ mach' \in Files
      /\ \A u \in UnitsOf(WordRegs) \ UnitsOf(WordRegs \ {"CS"}) : Get(mach', u) = Get(mach, u)
      /\ StoredIsLoaded'
  BY NothingStored, WritesIs DEF CallOver, BehindCall, Traced
<1>2. /\ traced \in States /\ "CS" \in UnitsOf(WordRegs) \ stale /\ IsKnown(traced, "CS")
      /\ "CS" \notin UnitsOf(WordRegs \ {"CS"}) /\ "CS" \notin UnitsOf({"DS", "SS"})
  BY CsApart DEF Traced
<1>3. Value(traced, "CS") \in WordVals
  BY <1>2, ValueType, CsApart DEF Vals, ByteRegs, Parent
<1>4. Value(traced, "CS") = Get(mach, "CS")
  BY <1>2 DEF Value, Traced, AgreeOn
<1>5. /\ cs \in States /\ cs.stack = << >>
      /\ IsKnown(cs, "CS") /\ Get(cs.regs, "CS") = Get(mach, "CS")
      /\ \A u \in UnitsOf(WordRegs) \ {"CS"} : Get(cs.known, u) = 0
  <2>1. cs \in States /\ cs.stack = << >>
    BY <1>2, <1>3, NewStateIs, OnlyOneKnown
  <2>2. IsKnown(cs, "CS") /\ Get(cs.regs, "CS") = Get(mach, "CS")
    BY <1>3, <1>4, NewStateIs, CsSet
  <2>3. \A u \in UnitsOf(WordRegs) \ {"CS"} : Get(cs.known, u) = 0
    BY <1>3, NewStateIs, OnlyOneKnown
  <2>4. QED
    BY <2>1, <2>2, <2>3
<1> HIDE DEF cs
<1>6. /\ ds \in States /\ ds.stack = << >>
      /\ \A u \in UnitsOf(WordRegs) \ {"DS"} :
           Get(ds.known, u) = Get(cs.known, u) /\ Get(ds.regs, u) = Get(cs.regs, u)
  BY <1>2, <1>5, KeptIs
<1> HIDE DEF ds
<1>7. /\ ss \in States /\ ss.stack = << >>
      /\ \A u \in UnitsOf(WordRegs) \ {"SS"} :
           Get(ss.known, u) = Get(ds.known, u) /\ Get(ss.regs, u) = Get(ds.regs, u)
  BY <1>2, <1>6, KeptIs
<1> HIDE DEF ss
<1>8. IsKnown(ss, "CS") /\ Get(ss.regs, "CS") = Get(mach, "CS")
  BY <1>2, <1>5, <1>6, <1>7 DEF IsKnown
<1>9. AgreeOn(traced', mach', stale')
  <2> SUFFICES ASSUME NEW u \in UnitsOf(WordRegs) \ stale', IsKnown(ss, u)
               PROVE  Get(ss.regs, u) = Get(mach', u)
    BY <1>1 DEF AgreeOn
  <2>1. CASE u = "CS"
    BY <1>1, <1>2, <1>8, <2>1
  <2>2. CASE u \in {"DS", "SS"}
    <3>1. u \in WordRegs
      BY <2>2, AllUnits DEF ByteRegs, Parent, Whole
    <3>2. u \in UnitsOf({u})
      <4>1. Whole(u)
        BY <2>2, <3>1 DEF Whole, ByteRegs, Parent
      <4>2. QED
        BY <3>1, <4>1, UnitsIs
    <3>3. u \in stale'
      BY <1>1, <2>2, <3>2, UnitsUnion
    <3>4. QED
      BY <3>3
  <2>3. CASE u \notin {"CS", "DS", "SS"}
    <3>1. Get(ss.known, u) = 0
      BY <1>5, <1>6, <1>7, <2>3
    <3>2. QED
      BY <3>1, AllBitsType DEF IsKnown
  <2>4. QED
    BY <2>1, <2>2, <2>3
<1>10. StackHeld(sstale', traced'.stack, mstack')
  BY <1>1 DEF StackHeld
<1>11. Traced'
  BY <1>1, <1>2, <1>7, <1>8, <1>9, <1>10 DEF Traced
<1>12. QED
  BY <1>1, <1>11

(* A path begins with CS known, and SS unless it is the same place. *)
LEMMA TraceBegins == Init => Traced /\ StoredIsLoaded
<1> SUFFICES ASSUME Init PROVE Traced /\ StoredIsLoaded
  OBVIOUS
<1> DEFINE cs == SetValue(NewState, "CS", CodeBase)
<1>1. /\ traced = cs \/ traced = SetValue(cs, "SS", StackBase)
      /\ mach \in Files /\ mach["CS"] = CodeBase /\ ("SS" \in WordRegs => mach["SS"] = StackBase)
      /\ mstack = << >> /\ stale = {} /\ sstale = << >> /\ stored = NotStored
  BY DEF Init, EntryState
<1>2. /\ cs \in States /\ cs.stack = << >>
      /\ IsKnown(cs, "CS") /\ Get(cs.regs, "CS") = CodeBase
      /\ \A u \in UnitsOf(WordRegs) \ {"CS"} : Get(cs.known, u) = 0
  <2>1. cs \in States /\ cs.stack = << >>
    BY TraceAssumption, NewStateIs, OnlyOneKnown, CsApart
  <2>2. IsKnown(cs, "CS") /\ Get(cs.regs, "CS") = CodeBase
    BY TraceAssumption, NewStateIs, CsSet
  <2>3. \A u \in UnitsOf(WordRegs) \ {"CS"} : Get(cs.known, u) = 0
    BY TraceAssumption, NewStateIs, OnlyOneKnown
  <2>4. QED
    BY <2>1, <2>2, <2>3
<1> HIDE DEF cs
<1>3. Get(mach, "CS") = CodeBase
  BY <1>1, CsApart DEF Get, ByteRegs, Parent
<1>4. AgreeOn(cs, mach, {})
  BY <1>2, <1>3, AllBitsType DEF AgreeOn, IsKnown
<1>5. traced \in States /\ traced.stack = << >> /\ IsKnown(traced, "CS")
  <2>1. CASE traced = cs
    BY <1>1, <1>2, <2>1
  <2>2. CASE traced = SetValue(cs, "SS", StackBase)
    BY <1>1, <1>2, <2>2, TraceAssumption, OnlyOneKnown, CsApart DEF IsKnown
  <2>3. QED
    BY <1>1, <2>1, <2>2
<1>6. AgreeOn(traced, mach, {})
  <2>1. CASE traced = cs
    BY <1>1, <1>4, <2>1
  <2>2. CASE traced = SetValue(cs, "SS", StackBase) /\ "SS" \in WordRegs
    <3>1. "SS" \in Regs \cup {"NONE"} /\ StackBase \in Vals("SS")
      BY <2>2, TraceAssumption DEF Regs, Vals, ByteRegs, Parent
    <3>2. Set(mach, "SS", StackBase) = mach
      <4>1. Set(mach, "SS", StackBase) = [mach EXCEPT !["SS"] = StackBase]
        BY <1>1, <2>2, <3>1, SetIs
      <4>2. QED
        BY <1>1, <2>2, <4>1 DEF Files
    <3>3. AgreeOn(SetValue(cs, "SS", StackBase), Set(mach, "SS", StackBase), {})
      BY <1>1, <1>2, <1>4, <3>1, SetBoth
    <3>4. QED
      BY <1>1, <2>2, <3>2, <3>3
  <2>3. CASE traced = SetValue(cs, "SS", StackBase) /\ "SS" \notin WordRegs
    <3>1. "SS" \notin Regs /\ StackBase \in Vals("SS")
      BY <2>3, TraceAssumption DEF Regs, Vals, ByteRegs, Parent
    <3>2. /\ SetValue(cs, "SS", StackBase).regs = cs.regs
          /\ SetValue(cs, "SS", StackBase).known = cs.known
      <4>1. cs.regs \in Files /\ cs.known \in Files /\ AllBits("SS") \in Vals("SS")
        BY <1>2, AllBitsType DEF States
      <4>2. /\ SetValue(cs, "SS", StackBase).regs = Set(cs.regs, "SS", StackBase)
            /\ SetValue(cs, "SS", StackBase).known = Set(cs.known, "SS", AllBits("SS"))
        BY <1>2, <3>1, SetValueIs
      <4>3. QED
        BY <3>1, <4>1, <4>2, SetIs
    <3>3. QED
      BY <1>1, <1>4, <2>3, <3>2 DEF AgreeOn, IsKnown
  <2>4. QED
    BY <1>1, <2>1, <2>2, <2>3
<1>7. QED
  BY <1>1, <1>5, <1>6 DEF Traced, StackHeld, StoredIsLoaded, NotStored

-----------------------------------------------------------------------------
LEMMA TraceNext == Traced /\ StoredIsLoaded /\ [Next]_trace => Traced' /\ StoredIsLoaded'
<1> SUFFICES ASSUME Traced, StoredIsLoaded, [Next]_trace PROVE Traced' /\ StoredIsLoaded'
  OBVIOUS
<1>1. CASE MovAny
  <2>1. PICK d \in Regs \ {"CS"} :
          \/ d \in DataRegs /\ \E v \in Vals(d) : MovImm(d, v)
          \/ \E s \in Regs : SameSize(d, s) /\ {d, s} \cap DataRegs # {} /\ MovReg(d, s)
          \/ \E v \in Vals(d) : MovOther(d, v) \/ \E seg \in SegRegs \cap WordRegs : MovMem(d, seg, v)
    BY <1>1 DEF MovAny
  <2>2. QED
    BY <2>1, MovImmStep, MovRegStep, MovOtherStep, MovMemStep
<1>2. CASE PushAny
  BY <1>2, PushRegStep, PushOtherStep DEF PushAny
<1>3. CASE PopAny
  BY <1>3, PopStep DEF PopAny
<1>4. CASE MoveStack
  BY <1>4, MoveStackStep
<1>5. CASE Execute
  BY <1>5, EffectsSound, FollowStep DEF Execute
<1>6. ASSUME NEW at, Stops(at) PROVE Traced' /\ StoredIsLoaded'
  BY <1>6, NothingStored DEF Stops, Traced
<1>7. CASE ExecuteTrap
  BY <1>7, NothingStored DEF ExecuteTrap, Traced
<1>8. CASE Interrupt
  BY <1>6, <1>8, EffectsSound, FollowStep DEF Interrupt
<1>9. CASE EndOfPath
  BY <1>6, <1>9 DEF EndOfPath
<1>10. CASE Loop
  BY <1>10, LoopStep
<1>11. CASE \E v \in WordVals, seg \in CalleeBases : CallInto(v, seg)
  BY <1>11, TraceAssumption, CallIntoStep
<1>12. CASE CallOver
  BY <1>12, CallOverStep
<1>13. CASE UNCHANGED trace
  BY <1>13 DEF trace, Traced, StoredIsLoaded
<1>14. QED
  BY <1>1, <1>2, <1>3, <1>4, <1>5, <1>7, <1>8, <1>9, <1>10, <1>11, <1>12, <1>13 DEF Next

(* On every path, whatever it executes, what the tracing says of a         *)
(* register is what the machine holds, unless it is one of the losses      *)
(* named; and every word of the simulated stack not lost is the machine's. *)
THEOREM TracingSound == Spec => []KnownUnlessStale
<1>1. Traced /\ StoredIsLoaded => KnownUnlessStale
  BY HeldIsKnown
<1>2. QED
  BY <1>1, TraceBegins, TraceNext, PTL DEF Spec

(* A segment is registered at the base the machine loads, unless what was  *)
(* loaded had been lost.                                                   *)
THEOREM SegmentsAreLoaded == Spec => []StoredIsLoaded
BY TraceBegins, TraceNext, PTL DEF Spec
=============================================================================
