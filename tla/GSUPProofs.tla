----------------------------- MODULE GSUPProofs -----------------------------
(***************************************************************************)
(* The dispatcher of library/GSUP_Emulation.ttcn for any ConnHdlrs, IMSIs  *)
(* and sizes of its tables, used with discipline or not: its types, and    *)
(* that its tables route as Router does; then what a disciplined use gets.  *)
(***************************************************************************)
EXTENDS GSUP, SequenceTheorems, FiniteSetTheorems, WellFoundedInduction, TLAPS

\* The inductive invariant.
GSUPInv == TypeOK /\ OneEntryPerImsi

-----------------------------------------------------------------------------
(* The tables. *)

\* The first of some slots is one of them.
LEMMA FirstIn ==
  ASSUME NEW S \in SUBSET Nat, S # {}
  PROVE  First(S) \in S
<1>1. PICK x \in S : \A y \in S : ~(<<y, x>> \in OpToRel(<, Nat))
  BY NatLessThanWellFounded, WFMin, Zenon
<1>2. \A y \in S : x <= y
  <2> TAKE y \in S
  <2>1. ~(y < x)
    BY <1>1 DEF OpToRel
  <2> QED  BY <2>1
<1> QED  BY <1>2 DEF First

\* The first slot of an IMSI is in the table and holds that IMSI.
LEMMA SlotsIn ==
  ASSUME NEW n \in Nat, NEW table \in [1 .. n -> Entries], NEW k, Slots(table, k) # {}
  PROVE  /\ First(Slots(table, k)) \in 1 .. n
         /\ table[First(Slots(table, k))].imsi = k
         /\ k \in Imsis => table[First(Slots(table, k))].comp \in Hdlrs
<1>1. Slots(table, k) \in SUBSET Nat
  BY DEF Slots
<1>2. First(Slots(table, k)) \in Slots(table, k)
  BY <1>1, FirstIn
<1> QED  BY <1>2, NullAssumption DEF Slots, Entries, Free

\* f_imsi_table_add and f_create_expect fill a free slot of the table.
LEMMA AddTypes ==
  ASSUME NEW n \in Nat, NEW table \in [1 .. n -> Entries], NEW k \in Imsis, NEW h \in Hdlrs,
         Fits(table)
  PROVE  /\ Add(table, k, h) \in [1 .. n -> Entries]
         /\ Add(table, k, h) = [table EXCEPT ![First(Slots(table, NoImsi))] = [imsi |-> k, comp |-> h]]
         /\ First(Slots(table, NoImsi)) \in 1 .. n
         /\ table[First(Slots(table, NoImsi))] = Free
<1>1. First(Slots(table, NoImsi)) \in 1 .. n /\ table[First(Slots(table, NoImsi))].imsi = NoImsi
  BY SlotsIn DEF Fits
<1>2. [imsi |-> k, comp |-> h] \in Entries
  BY DEF Entries
<1> QED  BY <1>1, <1>2, NullAssumption DEF Add, Entries, Free

\* A cleared table is a table.
LEMMA ClearedTypes ==
  ASSUME NEW n \in Nat, NEW table \in [1 .. n -> Entries], NEW i \in 1 .. n
  PROVE  Cleared(table, i) \in [1 .. n -> Entries] /\ Cleared(table, i) = [table EXCEPT ![i] = Free]
  BY DEF Cleared, Entries

\* Removing entries, and adding one for an IMSI that has none, keeps entries unique.
OneEntry(table) ==
    \A i, j \in DOMAIN table : table[i].imsi = table[j].imsi /\ table[i].imsi # NoImsi => i = j

LEMMA AddUnique ==
  ASSUME NEW n \in Nat, NEW table \in [1 .. n -> Entries], NEW k \in Imsis, NEW h \in Hdlrs,
         Fits(table), OneEntry(table), Slots(table, k) = {}
  PROVE  OneEntry(Add(table, k, h))
<1> DEFINE f == First(Slots(table, NoImsi))
<1>1. Add(table, k, h) = [table EXCEPT ![f] = [imsi |-> k, comp |-> h]] /\ f \in 1 .. n
  BY AddTypes
<1>2. \A i \in 1 .. n : table[i].imsi # k
  BY DEF Slots
<1> HIDE DEF f
<1> QED  BY <1>1, <1>2 DEF OneEntry

\* Clearing an entry keeps the others unique.
LEMMA ClearedUnique ==
  ASSUME NEW n \in Nat, NEW table \in [1 .. n -> Entries], NEW i \in 1 .. n, OneEntry(table)
  PROVE  OneEntry(Cleared(table, i))
  BY ClearedTypes DEF OneEntry, Free

\* A cleared entry was the only one of its IMSI.
LEMMA DelUnknown ==
  ASSUME NEW n \in Nat, NEW table \in [1 .. n -> Entries], NEW k \in Imsis,
         Slots(table, k) # {}, OneEntry(table)
  PROVE  /\ Del(table, k) \in [1 .. n -> Entries]
         /\ OneEntry(Del(table, k))
         /\ Slots(Del(table, k), k) = {}
         /\ Fits(Del(table, k))
<1> DEFINE f == First(Slots(table, k))
<1>1. f \in 1 .. n /\ table[f].imsi = k
  BY SlotsIn
<1>2. /\ Cleared(table, f) \in [1 .. n -> Entries]
      /\ Cleared(table, f) = [table EXCEPT ![f] = Free]
      /\ OneEntry(Cleared(table, f))
  BY <1>1, ClearedTypes, ClearedUnique
<1> HIDE DEF f
<1>3. \A i \in 1 .. n : table[i].imsi = k => i = f
  BY <1>1, NullAssumption DEF OneEntry
<1>4. Slots(Cleared(table, f), k) = {}
  BY <1>1, <1>2, <1>3, NullAssumption DEF Slots, Free
<1>5. f \in Slots(Cleared(table, f), NoImsi)
  BY <1>1, <1>2 DEF Slots, Free
<1> QED  BY <1>2, <1>4, <1>5 DEF Del, Fits, f

-----------------------------------------------------------------------------
(* What the tables stand for. *)

\* The handler of an IMSI is the one in its only entry.
LEMMA OwnerUnique ==
  ASSUME NEW n \in Nat, NEW table \in [1 .. n -> Entries], NEW k \in Imsis, OneEntry(table),
         NEW i \in 1 .. n, table[i].imsi = k
  PROVE  OwnerIn(table, k) = table[i].comp
<1>1. i \in Slots(table, k)
  BY DEF Slots
<1>2. First(Slots(table, k)) \in 1 .. n /\ table[First(Slots(table, k))].imsi = k
  BY <1>1, SlotsIn
<1>3. First(Slots(table, k)) = i
  BY <1>2, NullAssumption DEF OneEntry
<1>4. Slots(table, k) # {}
  BY <1>1
<1> QED  BY <1>3, <1>4 DEF OwnerIn

\* A slot that changes from one entry to another disturbs only their IMSIs.
LEMMA OwnerElsewhere ==
  ASSUME NEW n \in Nat, NEW table \in [1 .. n -> Entries], NEW new \in [1 .. n -> Entries],
         NEW i \in 1 .. n, \A l \in 1 .. n : l # i => new[l] = table[l],
         NEW j \in Imsis, table[i].imsi # j, new[i].imsi # j
  PROVE  OwnerIn(new, j) = OwnerIn(table, j)
<1> DEFINE f == First(Slots(table, j))
<1>1. Slots(new, j) = Slots(table, j)
  BY DEF Slots
<1>2. CASE Slots(table, j) = {}
  BY <1>1, <1>2 DEF OwnerIn
<1>3. CASE Slots(table, j) # {}
  <2>1. f \in 1 .. n /\ table[f].imsi = j
    BY <1>3, SlotsIn
  <2>2. OwnerIn(new, j) = new[f].comp /\ OwnerIn(table, j) = table[f].comp
    BY <1>1, <1>3 DEF OwnerIn
  <2> HIDE DEF f
  <2>3. f # i
    BY <2>1
  <2> QED  BY <2>1, <2>2, <2>3
<1> QED  BY <1>2, <1>3

\* f_imsi_table_add makes h the handler of k.
LEMMA OwnerAdd ==
  ASSUME NEW n \in Nat, NEW table \in [1 .. n -> Entries], NEW k \in Imsis, NEW h \in Hdlrs,
         Fits(table), OneEntry(table), Slots(table, k) = {}
  PROVE  /\ OwnerIn(Add(table, k, h), k) = h
         /\ \A j \in Imsis \ {k} : OwnerIn(Add(table, k, h), j) = OwnerIn(table, j)
<1> DEFINE f == First(Slots(table, NoImsi))
           e == [imsi |-> k, comp |-> h]
<1>1. /\ Add(table, k, h) \in [1 .. n -> Entries]
      /\ Add(table, k, h) = [table EXCEPT ![f] = e]
      /\ f \in 1 .. n /\ table[f] = Free
      /\ e \in Entries /\ e.imsi = k /\ e.comp = h
  BY AddTypes DEF Entries
<1>2. OneEntry(Add(table, k, h))
  BY AddUnique
<1> HIDE DEF f, e
<1>3. OwnerIn(Add(table, k, h), k) = h
  <2>1. Add(table, k, h)[f].imsi = k /\ Add(table, k, h)[f].comp = h
    BY <1>1
  <2> DEFINE new == Add(table, k, h)
  <2>2. new \in [1 .. n -> Entries] /\ OneEntry(new) /\ f \in 1 .. n /\ new[f].imsi = k /\ new[f].comp = h
    BY <1>1, <1>2, <2>1
  <2> HIDE DEF new
  <2>3. OwnerIn(new, k) = h
    BY <2>2, OwnerUnique
  <2> QED  BY <2>3 DEF new
<1>4. ASSUME NEW j \in Imsis \ {k}
      PROVE  OwnerIn(Add(table, k, h), j) = OwnerIn(table, j)
  <2> DEFINE new == Add(table, k, h)
  <2>1. /\ new \in [1 .. n -> Entries] /\ \A l \in 1 .. n : l # f => new[l] = table[l]
        /\ table[f].imsi # j /\ new[f].imsi # j
    BY <1>1, NullAssumption DEF Free
  <2> HIDE DEF new
  <2>2. OwnerIn(new, j) = OwnerIn(table, j)
    BY <1>1, <2>1, OwnerElsewhere
  <2> QED  BY <2>2 DEF new
<1> QED  BY <1>3, <1>4

\* f_imsi_table_del leaves k without a handler.
LEMMA OwnerDel ==
  ASSUME NEW n \in Nat, NEW table \in [1 .. n -> Entries], NEW k \in Imsis,
         Slots(table, k) # {}, OneEntry(table)
  PROVE  /\ OwnerIn(Del(table, k), k) = Nobody
         /\ \A j \in Imsis \ {k} : OwnerIn(Del(table, k), j) = OwnerIn(table, j)
<1> DEFINE f == First(Slots(table, k))
<1>1. OwnerIn(Del(table, k), k) = Nobody
  BY DelUnknown DEF OwnerIn
<1>2. f \in 1 .. n /\ table[f].imsi = k
  BY SlotsIn
<1>3. Del(table, k) = [table EXCEPT ![f] = Free]
  BY <1>2, ClearedTypes DEF Del
<1>4. Free \in Entries /\ Free.imsi = NoImsi
  BY DEF Entries, Free
<1> HIDE DEF f
<1>5. ASSUME NEW j \in Imsis \ {k}
      PROVE  OwnerIn(Del(table, k), j) = OwnerIn(table, j)
  <2> DEFINE new == Del(table, k)
  <2>1. /\ new \in [1 .. n -> Entries] /\ \A l \in 1 .. n : l # f => new[l] = table[l]
        /\ table[f].imsi # j /\ new[f].imsi # j
    BY <1>2, <1>3, <1>4, NullAssumption
  <2> HIDE DEF new
  <2>2. OwnerIn(new, j) = OwnerIn(table, j)
    BY <1>2, <2>1, OwnerElsewhere
  <2> QED  BY <2>2 DEF new
<1> QED  BY <1>1, <1>5

\* How often h expects k is a natural number.
LEMMA ExpectingFinite ==
  ASSUME NEW n \in Nat, NEW table \in [1 .. n -> Entries], NEW k, NEW h
  PROVE  IsFiniteSet(SlotsOf(table, k, h)) /\ Expects(table, k, h) \in Nat
<1>1. IsFiniteSet(1 .. n)
  BY FS_Interval
<1>2. SlotsOf(table, k, h) \subseteq 1 .. n
  BY DEF SlotsOf, Slots
<1>3. IsFiniteSet(SlotsOf(table, k, h))
  BY <1>1, <1>2, FS_Subset
<1> QED  BY <1>3, FS_CardinalityType DEF Expects

\* f_create_expect adds one expect.
LEMMA ExpectsAdd ==
  ASSUME NEW n \in Nat, NEW table \in [1 .. n -> Entries], NEW k \in Imsis, NEW h \in Hdlrs,
         Fits(table)
  PROVE  /\ Expects(Add(table, k, h), k, h) = Expects(table, k, h) + 1
         /\ \A j \in Imsis, g \in Hdlrs : <<j, g>> # <<k, h>> =>
               Expects(Add(table, k, h), j, g) = Expects(table, j, g)
<1> DEFINE f == First(Slots(table, NoImsi))
           new == Add(table, k, h)
<1>1. /\ new \in [1 .. n -> Entries]
      /\ new = [table EXCEPT ![f] = [imsi |-> k, comp |-> h]]
      /\ f \in 1 .. n /\ table[f] = Free
  BY AddTypes
<1> HIDE DEF f, new
<1>2. SlotsOf(new, k, h) = SlotsOf(table, k, h) \cup {f} /\ f \notin SlotsOf(table, k, h)
  BY <1>1, NullAssumption DEF SlotsOf, Slots, Free
<1>3. Expects(new, k, h) = Expects(table, k, h) + 1
  <2>1. IsFiniteSet(SlotsOf(table, k, h))
    BY ExpectingFinite
  <2>2. Cardinality(SlotsOf(table, k, h) \cup {f}) = Cardinality(SlotsOf(table, k, h)) + 1
    BY <1>2, <2>1, FS_AddElement
  <2> QED  BY <1>2, <2>2 DEF Expects
<1>4. ASSUME NEW j \in Imsis, NEW g \in Hdlrs, <<j, g>> # <<k, h>>
      PROVE  Expects(new, j, g) = Expects(table, j, g)
  <2>1. SlotsOf(new, j, g) = SlotsOf(table, j, g)
    BY <1>1, <1>4, NullAssumption DEF SlotsOf, Slots, Free
  <2> QED  BY <2>1 DEF Expects
<1> QED  BY <1>3, <1>4 DEF new

\* Clearing an entry takes one expect away.
LEMMA ExpectsCleared ==
  ASSUME NEW n \in Nat, NEW table \in [1 .. n -> Entries], NEW i \in 1 .. n,
         NEW k \in Imsis, NEW h \in Hdlrs, table[i].imsi = k, table[i].comp = h
  PROVE  /\ Expects(table, k, h) > 0
         /\ Expects(Cleared(table, i), k, h) = Expects(table, k, h) - 1
         /\ \A j \in Imsis, g \in Hdlrs : <<j, g>> # <<k, h>> =>
               Expects(Cleared(table, i), j, g) = Expects(table, j, g)
<1> DEFINE new == Cleared(table, i)
<1>1. new \in [1 .. n -> Entries] /\ new = [table EXCEPT ![i] = Free]
  BY ClearedTypes
<1> HIDE DEF new
<1>2. SlotsOf(new, k, h) = SlotsOf(table, k, h) \ {i} /\ i \in SlotsOf(table, k, h)
  BY <1>1, NullAssumption DEF SlotsOf, Slots, Free
<1>3. Expects(new, k, h) = Expects(table, k, h) - 1
  <2>1. IsFiniteSet(SlotsOf(table, k, h))
    BY ExpectingFinite
  <2>2. Cardinality(SlotsOf(table, k, h) \ {i}) = Cardinality(SlotsOf(table, k, h)) - 1
    BY <1>2, <2>1, FS_RemoveElement
  <2> QED  BY <1>2, <2>2 DEF Expects
<1>4. ASSUME NEW j \in Imsis, NEW g \in Hdlrs, <<j, g>> # <<k, h>>
      PROVE  Expects(new, j, g) = Expects(table, j, g)
  <2>1. SlotsOf(new, j, g) = SlotsOf(table, j, g)
    BY <1>1, <1>4, NullAssumption DEF SlotsOf, Slots, Free
  <2> QED  BY <2>1 DEF Expects
<1>5. Expects(table, k, h) > 0
  <2>1. Expects(new, k, h) \in Nat /\ Expects(table, k, h) \in Nat
    BY <1>1, ExpectingFinite
  <2> QED  BY <1>3, <2>1
<1> QED  BY <1>3, <1>4, <1>5 DEF new

\* The same of all IMSIs at once, in the form the refinement needs.
LEMMA OwnersAdd ==
  ASSUME NEW n \in Nat, NEW table \in [1 .. n -> Entries], NEW k \in Imsis, NEW h \in Hdlrs,
         Fits(table), OneEntry(table), Slots(table, k) = {}
  PROVE  Owners(Add(table, k, h)) = [Owners(table) EXCEPT ![k] = h]
<1>1. OwnerIn(Add(table, k, h), k) = h
  BY OwnerAdd
<1>2. \A j \in Imsis \ {k} : OwnerIn(Add(table, k, h), j) = OwnerIn(table, j)
  BY OwnerAdd
<1> QED  BY <1>1, <1>2 DEF Owners

\* f_imsi_table_del takes the handler of k away.
LEMMA OwnersDel ==
  ASSUME NEW n \in Nat, NEW table \in [1 .. n -> Entries], NEW k \in Imsis,
         Slots(table, k) # {}, OneEntry(table)
  PROVE  Owners(Del(table, k)) = [Owners(table) EXCEPT ![k] = Nobody]
<1>1. OwnerIn(Del(table, k), k) = Nobody
  BY OwnerDel
<1>2. \A j \in Imsis \ {k} : OwnerIn(Del(table, k), j) = OwnerIn(table, j)
  BY OwnerDel
<1> QED  BY <1>1, <1>2 DEF Owners

\* An IMSI has an entry just when it has a handler.
LEMMA OwnersKnown ==
  ASSUME NEW n \in Nat, NEW table \in [1 .. n -> Entries], NEW k \in Imsis
  PROVE  /\ Slots(table, k) # {} => /\ Owners(table)[k] = table[First(Slots(table, k))].comp
                                    /\ Owners(table)[k] \in Hdlrs
                                    /\ Owners(table)[k] # Nobody
         /\ Slots(table, k) = {} => Owners(table)[k] = Nobody
<1>1. CASE Slots(table, k) = {}
  BY <1>1 DEF Owners, OwnerIn
<1>2. CASE Slots(table, k) # {}
  <2>1. table[First(Slots(table, k))].comp \in Hdlrs
    BY <1>2, SlotsIn
  <2> QED  BY <1>2, <2>1, NullAssumption DEF Owners, OwnerIn
<1> QED  BY <1>1, <1>2

\* f_create_expect adds one expect, of h for k.
LEMMA ExpectedAdd ==
  ASSUME NEW n \in Nat, NEW table \in [1 .. n -> Entries], NEW k \in Imsis, NEW h \in Hdlrs,
         Fits(table)
  PROVE  Expected(Add(table, k, h)) = [Expected(table) EXCEPT ![<<k, h>>] = @ + 1]
<1> DEFINE new == Add(table, k, h)
<1>1. /\ Expects(new, k, h) = Expects(table, k, h) + 1
      /\ \A p \in Imsis \X Hdlrs : p # <<k, h>> => Expects(new, p[1], p[2]) = Expects(table, p[1], p[2])
  BY ExpectsAdd
<1> HIDE DEF new
<1>2. Expected(new)[<<k, h>>] = Expected(table)[<<k, h>>] + 1
  BY <1>1 DEF Expected
<1>3. \A p \in Imsis \X Hdlrs : p # <<k, h>> => Expected(new)[p] = Expected(table)[p]
  BY <1>1 DEF Expected
<1>4. Expected(new) = [p \in Imsis \X Hdlrs |-> Expected(new)[p]] /\ DOMAIN Expected(table) = Imsis \X Hdlrs
  BY DEF Expected
<1>5. Expected(new) = [Expected(table) EXCEPT ![<<k, h>>] = Expected(table)[<<k, h>>] + 1]
  BY <1>2, <1>3, <1>4
<1> QED  BY <1>5 DEF new

\* Clearing a slot of GsupExpectTable takes one expect away.
LEMMA ExpectedCleared ==
  ASSUME NEW n \in Nat, NEW table \in [1 .. n -> Entries], NEW i \in 1 .. n,
         NEW k \in Imsis, NEW h \in Hdlrs, table[i].imsi = k, table[i].comp = h
  PROVE  /\ Expected(table)[<<k, h>>] > 0
         /\ Expected(Cleared(table, i)) = [Expected(table) EXCEPT ![<<k, h>>] = @ - 1]
<1> DEFINE new == Cleared(table, i)
<1>1. /\ Expects(table, k, h) > 0
      /\ Expects(new, k, h) = Expects(table, k, h) - 1
      /\ \A p \in Imsis \X Hdlrs : p # <<k, h>> => Expects(new, p[1], p[2]) = Expects(table, p[1], p[2])
  BY ExpectsCleared
<1> HIDE DEF new
<1>2. Expected(table)[<<k, h>>] > 0 /\ Expected(new)[<<k, h>>] = Expected(table)[<<k, h>>] - 1
  BY <1>1 DEF Expected
<1>3. \A p \in Imsis \X Hdlrs : p # <<k, h>> => Expected(new)[p] = Expected(table)[p]
  BY <1>1 DEF Expected
<1>4. Expected(new) = [p \in Imsis \X Hdlrs |-> Expected(new)[p]] /\ DOMAIN Expected(table) = Imsis \X Hdlrs
  BY DEF Expected
<1>5. Expected(new) = [Expected(table) EXCEPT ![<<k, h>>] = Expected(table)[<<k, h>>] - 1]
  BY <1>2, <1>3, <1>4
<1> QED  BY <1>2, <1>5 DEF new

-----------------------------------------------------------------------------
(* The steps. *)

\* OneEntryPerImsi in terms of the table, in a state ...
LEMMA OneEntryIs ==
  ASSUME TypeOK
  PROVE  OneEntryPerImsi <=> OneEntry(GsupImsiTable)
  BY DEF TypeOK, OneEntryPerImsi, OneEntry

\* ... and in the next one.
LEMMA OneEntryNext ==
  ASSUME TypeOK'
  PROVE  OneEntryPerImsi' <=> OneEntry(GsupImsiTable')
  BY DEF TypeOK, OneEntryPerImsi, OneEntry

\* What a step that leaves GsupImsiTable alone, or changes it as f_imsi_table_add
\* and f_imsi_table_del do, keeps true.
LEMMA InvStep ==
  ASSUME GSUPInv, TypeOK',
         \/ GsupImsiTable' = GsupImsiTable
         \/ \E k \in Imsis, h \in Hdlrs :
               /\ Slots(GsupImsiTable, k) = {} /\ Fits(GsupImsiTable)
               /\ GsupImsiTable' = Add(GsupImsiTable, k, h)
         \/ \E k \in Imsis :
               /\ Slots(GsupImsiTable, k) # {}
               /\ GsupImsiTable' = Del(GsupImsiTable, k)
         \/ \E k \in Imsis, h \in Hdlrs :
               /\ Slots(GsupImsiTable, k) # {}
               /\ GsupImsiTable' = Add(Del(GsupImsiTable, k), k, h)
  PROVE  GSUPInv'
<1>1. GsupImsiTable \in [1 .. ImsiSlots -> Entries] /\ ImsiSlots \in Nat /\ OneEntry(GsupImsiTable)
  BY OneEntryIs, SlotsAssumption DEF GSUPInv, TypeOK
<1>2. OneEntry(GsupImsiTable')
  <2>1. CASE GsupImsiTable' = GsupImsiTable
    BY <1>1, <2>1
  <2>2. ASSUME NEW k \in Imsis, NEW h \in Hdlrs, Slots(GsupImsiTable, k) = {}, Fits(GsupImsiTable),
               GsupImsiTable' = Add(GsupImsiTable, k, h)
        PROVE  OneEntry(GsupImsiTable')
    BY <1>1, <2>2, AddUnique
  <2>3. ASSUME NEW k \in Imsis, Slots(GsupImsiTable, k) # {}, GsupImsiTable' = Del(GsupImsiTable, k)
        PROVE  OneEntry(GsupImsiTable')
    BY <1>1, <2>3, DelUnknown
  <2>4. ASSUME NEW k \in Imsis, NEW h \in Hdlrs, Slots(GsupImsiTable, k) # {},
               GsupImsiTable' = Add(Del(GsupImsiTable, k), k, h)
        PROVE  OneEntry(GsupImsiTable')
    <3> DEFINE less == Del(GsupImsiTable, k)
    <3>1. less \in [1 .. ImsiSlots -> Entries] /\ OneEntry(less) /\ Slots(less, k) = {} /\ Fits(less)
      BY <1>1, <2>4, DelUnknown
    <3> HIDE DEF less
    <3>2. OneEntry(Add(less, k, h))
      BY <1>1, <3>1, AddUnique
    <3> QED  BY <2>4, <3>2 DEF less
  <2> QED  BY <2>1, <2>2, <2>3, <2>4
<1> QED  BY <1>2, OneEntryNext DEF GSUPInv

\* A PDU forwarded to h.
LEMMA ForwardTypes ==
  ASSUME TypeOK, NEW k \in Imsis, NEW h \in Hdlrs, Forward(k, h)
  PROVE  inbox' \in [Hdlrs -> Seq(Imsis)] /\ outcome' \in {"running", "lost", "failed"}
<1>1. CASE h \in ended
  BY <1>1 DEF Forward, TypeOK
<1>2. CASE h \notin ended
  <2>1. inbox[h] \in Seq(Imsis)
    BY DEF TypeOK
  <2>2. Append(inbox[h], k) \in Seq(Imsis)
    BY <2>1
  <2> QED  BY <1>2, <2>2 DEF Forward, TypeOK
<1> QED  BY <1>1, <1>2

\* ... is one Router delivers, or ends the testcase.
LEMMA ForwardMaps ==
  ASSUME outcome = "running", NEW k, NEW h, Forward(k, h)
  PROVE  \/ Abstract!Put(k, h) /\ outcome' = "running"
         \/ outcome' = "failed" /\ UNCHANGED inbox
  BY DEF Forward, Abstract!Put

\* The end of the testcase is the End of Router.
LEMMA EndMaps ==
  ASSUME outcome = "running", outcome' # "running", UNCHANGED inbox
  PROVE  Abstract!Next
  BY DEF Abstract!Next, Abstract!End

\* A PDU of an IMSI with an entry.
LEMMA RouteKnownStep ==
  ASSUME GSUPInv, NEW k \in Imsis, RouteKnown(k)
  PROVE  GSUPInv' /\ Abstract!Next
<1> DEFINE h == GsupImsiTable[First(Slots(GsupImsiTable, k))].comp
<1>1. /\ h \in Hdlrs
      /\ Owners(GsupImsiTable)[k] = h /\ h # Nobody
  <2>1. GsupImsiTable \in [1 .. ImsiSlots -> Entries] /\ ImsiSlots \in Nat /\ Slots(GsupImsiTable, k) # {}
    BY SlotsAssumption DEF GSUPInv, TypeOK, RouteKnown, Known
  <2> QED  BY <2>1, OwnersKnown
<1>2. /\ outcome = "running" /\ Forward(k, h) /\ gsup # <<>> /\ gsup' = Tail(gsup)
      /\ UNCHANGED <<GsupImsiTable, GsupExpectTable, call, ended, user, stage, wild>>
  BY DEF RouteKnown, ReceivePdu, Dispatcher, tables, testcase
<1> HIDE DEF h
<1>3. inbox' \in [Hdlrs -> Seq(Imsis)] /\ outcome' \in {"running", "lost", "failed"}
  BY <1>1, <1>2, ForwardTypes DEF GSUPInv
<1>4. TypeOK'
  BY <1>2, <1>3 DEF GSUPInv, TypeOK
<1>5. CASE Abstract!Put(k, h) /\ outcome' = "running"
  <2>1. Abstract!Deliver(k)
    BY <1>1, <1>2, <1>5 DEF Abstract!Deliver
  <2> QED  BY <1>2, <1>4, <2>1, InvStep DEF Abstract!Next
<1>6. CASE outcome' = "failed" /\ UNCHANGED inbox
  BY <1>2, <1>4, <1>6, InvStep, EndMaps
<1> QED  BY <1>2, <1>5, <1>6, ForwardMaps

\* A PDU of an IMSI with an expect: it moves to GsupImsiTable.
LEMMA RouteExpectedStep ==
  ASSUME GSUPInv, NEW k \in Imsis, RouteExpected(k)
  PROVE  GSUPInv' /\ Abstract!Next
<1> DEFINE i == First(Slots(GsupExpectTable, k))
           h == GsupExpectTable[i].comp
<1>1. /\ outcome = "running" /\ gsup # <<>> /\ gsup' = Tail(gsup)
      /\ Slots(GsupImsiTable, k) = {} /\ Fits(GsupImsiTable) /\ Slots(GsupExpectTable, k) # {}
      /\ GsupExpectTable' = Cleared(GsupExpectTable, i)
      /\ GsupImsiTable' = Add(GsupImsiTable, k, h)
      /\ Forward(k, h)
      /\ UNCHANGED <<call, ended, user, stage, wild>>
  BY DEF RouteExpected, ReceivePdu, Dispatcher, Known, testcase
<1>2. /\ GsupImsiTable \in [1 .. ImsiSlots -> Entries] /\ ImsiSlots \in Nat
      /\ GsupExpectTable \in [1 .. ExpectSlots -> Entries] /\ ExpectSlots \in Nat
      /\ OneEntry(GsupImsiTable)
  BY OneEntryIs, SlotsAssumption DEF GSUPInv, TypeOK
<1>3. i \in 1 .. ExpectSlots /\ GsupExpectTable[i].imsi = k /\ h \in Hdlrs /\ GsupExpectTable[i].comp = h
  BY <1>1, <1>2, SlotsIn
<1> HIDE DEF i, h
<1>4. GsupExpectTable' \in [1 .. ExpectSlots -> Entries]
  BY <1>1, <1>2, <1>3, ClearedTypes
<1>5. GsupImsiTable' \in [1 .. ImsiSlots -> Entries]
  BY <1>1, <1>2, <1>3, AddTypes
<1>6. inbox' \in [Hdlrs -> Seq(Imsis)] /\ outcome' \in {"running", "lost", "failed"}
  BY <1>1, <1>3, ForwardTypes DEF GSUPInv
<1>7. TypeOK'
  BY <1>1, <1>4, <1>5, <1>6 DEF GSUPInv, TypeOK
<1>8. GSUPInv'
  BY <1>1, <1>3, <1>7, InvStep
<1>9. CASE Abstract!Put(k, h) /\ outcome' = "running"
  <2>1. Owners(GsupImsiTable)[k] = Nobody
    BY <1>1, <1>2, OwnersKnown
  <2>2. Owners(GsupImsiTable') = [Owners(GsupImsiTable) EXCEPT ![k] = h]
    BY <1>1, <1>2, <1>3, OwnersAdd
  <2>3. /\ Expected(GsupExpectTable)[<<k, h>>] > 0
        /\ Expected(GsupExpectTable') = [Expected(GsupExpectTable) EXCEPT ![<<k, h>>] = @ - 1]
    <3>1. /\ Expected(GsupExpectTable)[<<k, h>>] > 0
          /\ Expected(Cleared(GsupExpectTable, i)) = [Expected(GsupExpectTable) EXCEPT ![<<k, h>>] = @ - 1]
      BY <1>2, <1>3, ExpectedCleared
    <3> QED  BY <1>1, <3>1
  <2>4. Abstract!Deliver(k)
    BY <1>1, <1>3, <1>9, <2>1, <2>2, <2>3 DEF Abstract!Deliver
  <2> QED  BY <1>8, <2>4 DEF Abstract!Next
<1>10. CASE outcome' = "failed" /\ UNCHANGED inbox
  BY <1>1, <1>8, <1>10, EndMaps
<1> QED  BY <1>1, <1>9, <1>10, ForwardMaps

\* Errors and the loss of the connection end the testcase.
LEMMA EndStep ==
  ASSUME GSUPInv, outcome = "running", outcome' \in {"failed", "lost"},
         UNCHANGED <<tables, gsup, inbox, call, ended, testcase>>
  PROVE  GSUPInv' /\ Abstract!Next
<1>1. TypeOK'
  BY DEF GSUPInv, TypeOK, tables, testcase
<1>2. GSUPInv'
  BY <1>1, InvStep DEF tables
<1> QED  BY <1>2, EndMaps

\* A call that is answered keeps the types if its change of the tables does.
LEMMA ReplyTypes ==
  ASSUME TypeOK, NEW h \in Hdlrs, Reply(h),
         GsupImsiTable' \in [1 .. ImsiSlots -> Entries],
         GsupExpectTable' \in [1 .. ExpectSlots -> Entries],
         UNCHANGED <<ended, testcase>>
  PROVE  TypeOK'
  BY DEF TypeOK, Reply, testcase

\* What a call that waits asks for.
LEMMA GetcallTypes ==
  ASSUME TypeOK, NEW h \in Hdlrs, NEW op \in Ops, Getcall(h, op)
  PROVE  call[h].imsi \in Imsis
<1>1. "none" \notin Ops
  BY DEF Ops
<1> QED  BY <1>1 DEF TypeOK, Getcall, Calls, Idle

\* f_create_expect: an Expect of Router.
LEMMA RegisterExpectStep ==
  ASSUME GSUPInv, NEW h \in Hdlrs, RegisterExpect(h)
  PROVE  GSUPInv' /\ Abstract!Next
<1> DEFINE k == call[h].imsi
<1>1. outcome = "running" /\ UNCHANGED <<ended, testcase>> /\ k \in Imsis
  BY GetcallTypes DEF RegisterExpect, Getcall, Dispatcher, GSUPInv, Ops
<1>2. CASE Fits(GsupExpectTable)
  <2>1. /\ GsupExpectTable' = Add(GsupExpectTable, k, h)
        /\ Reply(h) /\ GsupImsiTable' = GsupImsiTable
    BY <1>2 DEF RegisterExpect
  <2>2. GsupExpectTable \in [1 .. ExpectSlots -> Entries] /\ ExpectSlots \in Nat
    BY SlotsAssumption DEF GSUPInv, TypeOK
  <2> HIDE DEF k
  <2>3. GsupExpectTable' \in [1 .. ExpectSlots -> Entries]
    BY <1>1, <1>2, <2>1, <2>2, AddTypes
  <2>4. TypeOK'
    BY <1>1, <2>1, <2>3, ReplyTypes DEF GSUPInv, TypeOK
  <2>5. GSUPInv'
    BY <2>1, <2>4, InvStep
  <2>6. Expected(GsupExpectTable') = [Expected(GsupExpectTable) EXCEPT ![<<k, h>>] = @ + 1]
    BY <1>1, <1>2, <2>1, <2>2, ExpectedAdd
  <2>7. Abstract!Expect(k, h)
    BY <1>1, <2>1, <2>6 DEF Abstract!Expect, Reply
  <2> QED  BY <1>1, <2>5, <2>7 DEF Abstract!Next
<1>3. CASE ~Fits(GsupExpectTable)
  BY <1>1, <1>3, EndStep DEF RegisterExpect, Fail
<1> QED  BY <1>2, <1>3

\* f_destroy_expect: a Withdraw of Router.
LEMMA UnregisterExpectStep ==
  ASSUME GSUPInv, NEW h \in Hdlrs, UnregisterExpect(h)
  PROVE  GSUPInv' /\ Abstract!Next
<1> DEFINE k == call[h].imsi
           i == First(Matching(h))
<1>1. outcome = "running" /\ UNCHANGED <<ended, testcase>> /\ k \in Imsis
  BY GetcallTypes DEF UnregisterExpect, Getcall, Dispatcher, GSUPInv, Ops
<1>2. CASE Matching(h) # {}
  <2>1. /\ GsupExpectTable' = Cleared(GsupExpectTable, i)
        /\ Reply(h) /\ GsupImsiTable' = GsupImsiTable
    BY <1>2 DEF UnregisterExpect
  <2>2. GsupExpectTable \in [1 .. ExpectSlots -> Entries] /\ ExpectSlots \in Nat
    BY SlotsAssumption DEF GSUPInv, TypeOK
  <2>3. i \in 1 .. ExpectSlots /\ GsupExpectTable[i].imsi = k /\ GsupExpectTable[i].comp = h
    <3>1. Matching(h) \in SUBSET Nat
      BY <2>2 DEF Matching, SlotsOf, Slots
    <3>2. i \in Matching(h)
      BY <1>2, <3>1, FirstIn
    <3> QED  BY <2>2, <3>2 DEF Matching, SlotsOf, Slots
  <2> HIDE DEF k, i
  <2>4. GsupExpectTable' \in [1 .. ExpectSlots -> Entries]
    BY <2>1, <2>2, <2>3, ClearedTypes
  <2>5. TypeOK'
    BY <1>1, <2>1, <2>4, ReplyTypes DEF GSUPInv, TypeOK
  <2>6. GSUPInv'
    BY <2>1, <2>5, InvStep
  <2>7. /\ Expected(GsupExpectTable)[<<k, h>>] > 0
        /\ Expected(GsupExpectTable') = [Expected(GsupExpectTable) EXCEPT ![<<k, h>>] = @ - 1]
    BY <1>1, <2>1, <2>2, <2>3, ExpectedCleared
  <2>8. Abstract!Withdraw(k, h)
    BY <1>1, <2>1, <2>7 DEF Abstract!Withdraw, Reply
  <2> QED  BY <1>1, <2>6, <2>8 DEF Abstract!Next
<1>3. CASE ~(Matching(h) # {})
  BY <1>1, <1>3, EndStep DEF UnregisterExpect, Fail
<1> QED  BY <1>2, <1>3

\* f_imsi_table_del: a Reassign to nobody.
LEMMA UnregisterConnHdlrStep ==
  ASSUME GSUPInv, NEW h \in Hdlrs, UnregisterConnHdlr(h)
  PROVE  GSUPInv' /\ Abstract!Next
<1> DEFINE k == call[h].imsi
<1>1. outcome = "running" /\ UNCHANGED <<ended, testcase>> /\ k \in Imsis
  BY GetcallTypes DEF UnregisterConnHdlr, Getcall, Dispatcher, GSUPInv, Ops
<1>2. CASE Known(k)
  <2>1. /\ GsupImsiTable' = Del(GsupImsiTable, k) /\ Slots(GsupImsiTable, k) # {}
        /\ Reply(h) /\ GsupExpectTable' = GsupExpectTable
    BY <1>2 DEF UnregisterConnHdlr, Known
  <2>2. /\ GsupImsiTable \in [1 .. ImsiSlots -> Entries] /\ ImsiSlots \in Nat
        /\ OneEntry(GsupImsiTable)
    BY OneEntryIs, SlotsAssumption DEF GSUPInv, TypeOK
  <2> HIDE DEF k
  <2>3. GsupImsiTable' \in [1 .. ImsiSlots -> Entries]
    BY <1>1, <2>1, <2>2, DelUnknown
  <2>4. TypeOK'
    BY <1>1, <2>1, <2>3, ReplyTypes DEF GSUPInv, TypeOK
  <2>5. GSUPInv'
    BY <1>1, <2>1, <2>4, InvStep
  <2>6. /\ Owners(GsupImsiTable)[k] # Nobody
        /\ Owners(GsupImsiTable') = [Owners(GsupImsiTable) EXCEPT ![k] = Nobody]
    BY <1>1, <2>1, <2>2, OwnersKnown, OwnersDel
  <2>7. Abstract!Reassign(k, Nobody)
    BY <1>1, <2>1, <2>6 DEF Abstract!Reassign, Reply
  <2> QED  BY <1>1, <2>5, <2>7 DEF Abstract!Next
<1>3. CASE ~Known(k)
  BY <1>1, <1>3, EndStep DEF UnregisterConnHdlr, Fail
<1> QED  BY <1>2, <1>3

\* f_imsi_table_del and f_imsi_table_add: a Reassign to the caller.
LEMMA ChangeConnHdlrStep ==
  ASSUME GSUPInv, NEW h \in Hdlrs, ChangeConnHdlr(h)
  PROVE  GSUPInv' /\ Abstract!Next
<1> DEFINE k == call[h].imsi
           less == Del(GsupImsiTable, k)
<1>1. outcome = "running" /\ UNCHANGED <<ended, testcase>> /\ k \in Imsis
  BY GetcallTypes DEF ChangeConnHdlr, Getcall, Dispatcher, GSUPInv, Ops
<1>2. CASE Known(k)
  <2>1. /\ GsupImsiTable' = Add(less, k, h) /\ Slots(GsupImsiTable, k) # {}
        /\ Reply(h) /\ GsupExpectTable' = GsupExpectTable
    BY <1>2 DEF ChangeConnHdlr, Reassigned, Known
  <2>2. /\ GsupImsiTable \in [1 .. ImsiSlots -> Entries] /\ ImsiSlots \in Nat
        /\ OneEntry(GsupImsiTable)
    BY OneEntryIs, SlotsAssumption DEF GSUPInv, TypeOK
  <2>3. /\ less \in [1 .. ImsiSlots -> Entries]
        /\ OneEntry(less) /\ Slots(less, k) = {} /\ Fits(less)
    BY <1>1, <2>1, <2>2, DelUnknown
  <2>4. /\ Owners(GsupImsiTable)[k] # Nobody
        /\ Owners(less) = [Owners(GsupImsiTable) EXCEPT ![k] = Nobody]
    BY <1>1, <2>1, <2>2, OwnersKnown, OwnersDel
  <2>5. \E g \in Imsis, x \in Hdlrs : /\ Slots(GsupImsiTable, g) # {}
                                      /\ GsupImsiTable' = Add(Del(GsupImsiTable, g), g, x)
    BY <1>1, <2>1
  <2> HIDE DEF less, k
  <2>6. GsupImsiTable' \in [1 .. ImsiSlots -> Entries]
    BY <1>1, <2>1, <2>2, <2>3, AddTypes
  <2>7. TypeOK'
    BY <1>1, <2>1, <2>6, ReplyTypes DEF GSUPInv, TypeOK
  <2>8. GSUPInv'
    BY <2>5, <2>7, InvStep
  <2>9. Owners(GsupImsiTable') = [Owners(GsupImsiTable) EXCEPT ![k] = h]
    <3>1. Owners(GsupImsiTable') = [Owners(less) EXCEPT ![k] = h]
      BY <1>1, <2>1, <2>2, <2>3, OwnersAdd
    <3> QED  BY <2>4, <3>1
  <2>10. Abstract!Reassign(k, h)
    BY <1>1, <2>1, <2>4, <2>9 DEF Abstract!Reassign, Reply
  <2> QED  BY <1>1, <2>8, <2>10 DEF Abstract!Next
<1>3. CASE ~Known(k)
  BY <1>1, <1>3, EndStep DEF ChangeConnHdlr, Fail
<1> QED  BY <1>2, <1>3

\* All the calls.
LEMMA ServeStep ==
  ASSUME GSUPInv, NEW h \in Hdlrs, Serve(h)
  PROVE  GSUPInv' /\ Abstract!Next
  BY RegisterExpectStep, UnregisterExpectStep, UnregisterConnHdlrStep, ChangeConnHdlrStep DEF Serve

\* All the PDUs.
LEMMA RouteStep ==
  ASSUME GSUPInv, Route
  PROVE  GSUPInv' /\ Abstract!Next
<1>1. ASSUME NEW k \in Imsis, RouteFails(k)
      PROVE  GSUPInv' /\ Abstract!Next
  BY <1>1, EndStep DEF RouteFails, ReceivePdu, Dispatcher, Fail
<1> QED  BY <1>1, RouteKnownStep, RouteExpectedStep DEF Route

\* The loss of the connection.
LEMMA ConnectionLostStep ==
  ASSUME GSUPInv, ConnectionLost
  PROVE  GSUPInv' /\ Abstract!Next
  BY EndStep DEF ConnectionLost, Dispatcher

\* What the testcase does with an IMSI keeps the types of its record.
LEMMA UseTypes ==
  ASSUME TypeOK, NEW k \in Imsis, NEW h \in Hdlrs, NEW old, NEW new \in Stages,
         Use(k, h, old, new)
  PROVE  user' \in [Imsis -> Hdlrs \cup {Nobody}] /\ stage' \in [Imsis -> Stages] /\ wild' = wild
  BY DEF Use, TypeOK, testcase

\* A ConnHdlr that starts to wait in a call keeps the types.
LEMMA CallTypes ==
  ASSUME TypeOK, NEW h \in Hdlrs, NEW op \in Ops, NEW k \in Imsis, Call(h, op, k),
         user' \in [Imsis -> Hdlrs \cup {Nobody}], stage' \in [Imsis -> Stages], wild' = wild
  PROVE  TypeOK' /\ UNCHANGED <<tables, inbox, outcome>>
<1>1. [op |-> op, imsi |-> k] \in Calls
  BY DEF Calls
<1> QED  BY <1>1 DEF TypeOK, Call, Client, tables

\* Steps of the ConnHdlrs and the IUT: they read at most what Router delivered.
LEMMA QuietStep ==
  ASSUME GSUPInv, TypeOK', UNCHANGED <<tables, inbox, outcome>>
  PROVE  GSUPInv' /\ UNCHANGED Abstract!vars
  BY InvStep DEF Abstract!vars, tables

\* The calls of the ConnHdlrs, seen from their side.
LEMMA CallStep ==
  ASSUME GSUPInv, NEW h \in Hdlrs, NEW k \in Imsis,
         \/ CreateExpect(h, k) \/ DestroyExpect(h, k) \/ Unregister(h, k) \/ TakeOver(h, k)
  PROVE  GSUPInv' /\ UNCHANGED Abstract!vars
<1>1. TypeOK /\ {"free", "claimed", "over"} \subseteq Stages /\ Ops = {"expect", "unexpect", "unregister", "change"}
  BY DEF GSUPInv, Stages, Ops
<1>2. CASE CreateExpect(h, k)
  BY <1>1, <1>2, UseTypes, CallTypes, QuietStep DEF CreateExpect
<1>3. CASE DestroyExpect(h, k)
  BY <1>1, <1>3, UseTypes, CallTypes, QuietStep DEF DestroyExpect
<1>4. CASE Unregister(h, k)
  BY <1>1, <1>4, UseTypes, CallTypes, QuietStep DEF Unregister
<1>5. CASE TakeOver(h, k)
  <2>1. user' \in [Imsis -> Hdlrs \cup {Nobody}] /\ stage' \in [Imsis -> Stages] /\ wild' = wild
    BY <1>1, <1>5 DEF TakeOver, TypeOK, testcase
  <2> QED  BY <1>1, <1>5, <2>1, CallTypes, QuietStep DEF TakeOver
<1> QED  BY <1>2, <1>3, <1>4, <1>5

\* What the ConnHdlrs do with the IUT.
LEMMA UserStep ==
  ASSUME GSUPInv, NEW h \in Hdlrs, NEW k \in Imsis, Trigger(h, k) \/ Release(h, k)
  PROVE  GSUPInv' /\ UNCHANGED Abstract!vars
<1>1. user' \in [Imsis -> Hdlrs \cup {Nobody}] /\ stage' \in [Imsis -> Stages] /\ wild' = wild
  BY UseTypes DEF Trigger, Release, GSUPInv, Stages
<1>2. UNCHANGED <<tables, outcome, gsup, inbox, call, ended>>
  BY DEF Trigger, Release, Client
<1>3. TypeOK'
  BY <1>1, <1>2 DEF GSUPInv, TypeOK, tables
<1> QED  BY <1>2, <1>3, QuietStep

\* A ConnHdlr reads its next PDU: a Read of Router.
LEMMA ReadPduStep ==
  ASSUME GSUPInv, NEW h \in Hdlrs, ReadPdu(h)
  PROVE  GSUPInv' /\ Abstract!Next
<1>1. TypeOK /\ outcome = "running" /\ UNCHANGED <<tables, outcome, gsup, call, ended, user, wild>>
  BY DEF ReadPdu, Client, GSUPInv
<1>2. inbox[h] # <<>> /\ inbox' = [inbox EXCEPT ![h] = Tail(@)] /\ inbox[h] \in Seq(Imsis)
  BY <1>1 DEF ReadPdu, TypeOK
<1>3. inbox' \in [Hdlrs -> Seq(Imsis)]
  <2>1. Tail(inbox[h]) \in Seq(Imsis)
    BY <1>2
  <2> QED  BY <1>1, <1>2, <2>1 DEF TypeOK
<1>4. stage' \in [Imsis -> Stages]
  <2>1. "heard" \in Stages /\ Head(inbox[h]) \in Imsis
    BY <1>2 DEF Stages
  <2>2. PICK k \in Imsis : stage' = [stage EXCEPT ![k] = IF @ = "talking" /\ user[k] = h THEN "heard" ELSE @]
    BY <2>1 DEF ReadPdu
  <2> QED  BY <1>1, <2>1, <2>2 DEF TypeOK
<1>5. TypeOK'
  BY <1>1, <1>3, <1>4 DEF TypeOK, tables
<1>6. Abstract!Read(h)
  BY <1>1, <1>2 DEF Abstract!Read, tables
<1> QED  BY <1>1, <1>5, <1>6, InvStep DEF Abstract!Next, tables

\* A ConnHdlr ends.
LEMMA FinishStep ==
  ASSUME GSUPInv, NEW h \in Hdlrs, Finish(h)
  PROVE  GSUPInv' /\ UNCHANGED Abstract!vars
<1>1. TypeOK'
  BY DEF GSUPInv, TypeOK, Finish, Client, tables, testcase
<1> QED  BY <1>1, QuietStep DEF Finish, Client

\* The IUT sends a PDU.
LEMMA IutSendsStep ==
  ASSUME GSUPInv, NEW k \in Imsis, IutSends(k)
  PROVE  GSUPInv' /\ UNCHANGED Abstract!vars
<1>1. TypeOK'
  BY DEF GSUPInv, TypeOK, IutSends, tables, testcase
<1> QED  BY <1>1, QuietStep DEF IutSends

\* Every step keeps the invariant and is one of Router, or none.
LEMMA NextStep ==
  ASSUME GSUPInv, [Next]_vars
  PROVE  GSUPInv' /\ [Abstract!Next]_(Abstract!vars)
<1>1. CASE Route
  BY <1>1, RouteStep
<1>2. CASE ConnectionLost
  BY <1>2, ConnectionLostStep
<1>3. ASSUME NEW h \in Hdlrs, Serve(h)
      PROVE  GSUPInv' /\ [Abstract!Next]_(Abstract!vars)
  BY <1>3, ServeStep
<1>4. ASSUME NEW h \in Hdlrs, ConnHdlr(h)
      PROVE  GSUPInv' /\ [Abstract!Next]_(Abstract!vars)
  BY <1>4, CallStep, UserStep, ReadPduStep, FinishStep DEF ConnHdlr
<1>5. ASSUME NEW k \in Imsis, IutSends(k)
      PROVE  GSUPInv' /\ [Abstract!Next]_(Abstract!vars)
  BY <1>5, IutSendsStep
<1>6. CASE UNCHANGED vars
  <2>1. TypeOK'
    BY <1>6 DEF GSUPInv, TypeOK, vars, tables, testcase
  <2> QED  BY <1>6, <2>1, QuietStep DEF vars
<1> QED  BY <1>1, <1>2, <1>3, <1>4, <1>5, <1>6 DEF Next

\* Empty tables stand for no handlers and no expects.
LEMMA InitTables ==
  ASSUME NEW n \in Nat, NEW table, table = [i \in 1 .. n |-> Free]
  PROVE  /\ table \in [1 .. n -> Entries] /\ OneEntry(table)
         /\ Owners(table) = [k \in Imsis |-> Nobody]
         /\ Expected(table) = [p \in Imsis \X Hdlrs |-> 0]
<1>1. table \in [1 .. n -> Entries] /\ OneEntry(table)
  BY DEF Entries, OneEntry, Free
<1>2. \A k \in Imsis : Slots(table, k) = {}
  BY NullAssumption DEF Slots, Free
<1>3. \A k \in Imsis, h \in Hdlrs : Expects(table, k, h) = 0
  <2> TAKE k \in Imsis, h \in Hdlrs
  <2>1. SlotsOf(table, k, h) = {}
    BY <1>2 DEF SlotsOf
  <2> QED  BY <2>1, FS_EmptySet DEF Expects
<1> QED  BY <1>1, <1>2, <1>3 DEF Owners, OwnerIn, Expected

\* The initial states are initial states of Router.
LEMMA InitStep ==
  ASSUME Init
  PROVE  GSUPInv /\ Abstract!Init
<1>1. /\ GsupImsiTable \in [1 .. ImsiSlots -> Entries]
      /\ GsupExpectTable \in [1 .. ExpectSlots -> Entries]
      /\ OneEntry(GsupImsiTable)
      /\ Owners(GsupImsiTable) = [k \in Imsis |-> Nobody]
      /\ Expected(GsupExpectTable) = [p \in Imsis \X Hdlrs |-> 0]
  BY InitTables, SlotsAssumption DEF Init
<1>2. TypeOK
  BY <1>1, WildAssumption DEF Init, TypeOK, Stages
<1> QED  BY <1>1, <1>2, OneEntryIs DEF GSUPInv, Init, Abstract!Init

-----------------------------------------------------------------------------
(* The theorems. *)

\* The inductive invariant of the dispatcher holds.
THEOREM GSUPInvariant == Spec => []GSUPInv
<1>1. Init => GSUPInv
  BY InitStep
<1>2. GSUPInv /\ [Next]_vars => GSUPInv'
  BY NextStep
<1> QED  BY <1>1, <1>2, PTL DEF Spec

\* The variables of the dispatcher and its users keep their types.
THEOREM GSUPTypes == Spec => []TypeOK
<1>1. GSUPInv => TypeOK
  BY DEF GSUPInv
<1> QED  BY <1>1, GSUPInvariant, PTL

\* No IMSI is ever in two entries of GsupImsiTable, whatever the calls.
THEOREM GSUPOneEntry == Spec => []OneEntryPerImsi
<1>1. GSUPInv => OneEntryPerImsi
  BY DEF GSUPInv
<1> QED  BY <1>1, GSUPInvariant, PTL

\* The dispatcher implements Router: with its tables of any size it delivers every
\* PDU it handles to the one handler of its IMSI or to one that expected it.
THEOREM GSUPRouting == Spec => Routing
<1>1. Init => Abstract!Init
  BY InitStep
<1>2. GSUPInv /\ [Next]_vars => [Abstract!Next]_(Abstract!vars)
  BY NextStep
<1> QED  BY <1>1, <1>2, GSUPInvariant, PTL DEF Spec, Routing, Abstract!Spec

-----------------------------------------------------------------------------
(* The ConnHdlrs that use the dispatcher with discipline: what such a use     *)
(* makes of its tables, that every PDU goes to the ConnHdlr in charge, and    *)
(* that tables with a slot for each IMSI never fail.                          *)

Owner(k) == OwnerIn(GsupImsiTable, k)
Expecting(k, h) == Expects(GsupExpectTable, k, h)
NoneExpects(k) == \A g \in Hdlrs : Expecting(k, g) = 0
OnlyExpects(k, h) == \A g \in Hdlrs : Expecting(k, g) = IF g = h THEN 1 ELSE 0
NoneCalls(k) == \A g \in Hdlrs : call[g].imsi # k
OnlyCalls(k, h, op) == call[h] = [op |-> op, imsi |-> k] /\ OneAtATime(k, h)
UnderWay(k) == \E i \in DOMAIN gsup : gsup[i] = k
Alive == Hdlrs \ ended

\* The tables and the calls for an IMSI in each stage of its use.
FreeUse(k) ==
    /\ user[k] = Nobody
    /\ \/ NoneCalls(k) /\ Owner(k) = Nobody /\ NoneExpects(k)
       \/ /\ Owner(k) = Nobody
          /\ \E h \in Hdlrs : OnlyCalls(k, h, "unexpect") /\ OnlyExpects(k, h)
       \/ /\ Owner(k) \in Hdlrs /\ NoneExpects(k)
          /\ \E h \in Hdlrs : OnlyCalls(k, h, "unregister")

ClaimedUse(k) ==
    /\ user[k] \in Alive /\ Owner(k) = Nobody /\ ~Unread(user[k], k)
    /\ \/ OnlyCalls(k, user[k], "expect") /\ NoneExpects(k)
       \/ NoneCalls(k) /\ OnlyExpects(k, user[k])

TalkingUse(k) ==
    /\ user[k] \in Alive /\ NoneCalls(k)
    /\ \/ Owner(k) = Nobody /\ OnlyExpects(k, user[k]) /\ ~Unread(user[k], k)
       \/ Owner(k) = user[k] /\ NoneExpects(k)

HeardUse(k) ==
    /\ user[k] \in Alive /\ Owner(k) \in Alive /\ NoneExpects(k)
    /\ \/ NoneCalls(k) /\ Owner(k) = user[k]
       \/ OnlyCalls(k, user[k], "change")

OverUse(k) ==
    /\ user[k] \in Hdlrs /\ Owner(k) = user[k]
    /\ NoneExpects(k) /\ NoneCalls(k)

Used(k) ==
    /\ \/ stage[k] = "free" /\ FreeUse(k)
       \/ stage[k] = "claimed" /\ ClaimedUse(k)
       \/ stage[k] = "talking" /\ TalkingUse(k)
       \/ stage[k] = "heard" /\ HeardUse(k)
       \/ stage[k] = "over" /\ OverUse(k)
    /\ UnderWay(k) => stage[k] \in {"talking", "heard"}

\* The inductive invariant.
UseInv == \A k \in Imsis \ wild : Used(k)

-----------------------------------------------------------------------------
(* What the steps do to the tables and the calls. *)

\* Nothing, if they leave the tables alone.
LEMMA TablesSame ==
  ASSUME UNCHANGED tables
  PROVE  /\ \A k \in Imsis : Owner(k)' = Owner(k)
         /\ \A k \in Imsis, g \in Hdlrs : Expecting(k, g)' = Expecting(k, g)
  BY DEF tables, Owner, Expecting

\* The tables are tables, and GsupImsiTable has one entry per IMSI.
LEMMA TablesAre ==
  ASSUME GSUPInv
  PROVE  /\ GsupImsiTable \in [1 .. ImsiSlots -> Entries] /\ ImsiSlots \in Nat
         /\ GsupExpectTable \in [1 .. ExpectSlots -> Entries] /\ ExpectSlots \in Nat
         /\ OneEntry(GsupImsiTable)
  BY OneEntryIs, SlotsAssumption DEF GSUPInv, TypeOK

\* An IMSI is known when it has an owner, who is a ConnHdlr.
LEMMA OwnerKnown ==
  ASSUME GSUPInv, NEW k \in Imsis
  PROVE  /\ Known(k) => Owner(k) = GsupImsiTable[First(Slots(GsupImsiTable, k))].comp
         /\ Known(k) => Owner(k) \in Hdlrs
         /\ Known(k) <=> Owner(k) # Nobody
<1>1. Owners(GsupImsiTable)[k] = Owner(k)
  BY DEF Owners, Owner
<1> QED  BY <1>1, TablesAre, OwnersKnown DEF Known

\* f_create_expect: the caller expects its IMSI once more.
LEMMA RegisterExpectTables ==
  ASSUME GSUPInv, NEW h \in Hdlrs, RegisterExpect(h)
  PROVE  \/ UNCHANGED <<tables, call>>
         \/ /\ call' = [call EXCEPT ![h] = Idle]
            /\ \A k \in Imsis : Owner(k)' = Owner(k)
            /\ \A k \in Imsis, g \in Hdlrs :
                  Expecting(k, g)' = IF k = call[h].imsi /\ g = h
                                     THEN Expecting(k, g) + 1 ELSE Expecting(k, g)
<1> DEFINE j == call[h].imsi
<1>1. j \in Imsis
  BY GetcallTypes DEF RegisterExpect, GSUPInv, Ops
<1>2. CASE Fits(GsupExpectTable)
  <2>1. /\ GsupExpectTable' = Add(GsupExpectTable, j, h)
        /\ call' = [call EXCEPT ![h] = Idle] /\ GsupImsiTable' = GsupImsiTable
    BY <1>2 DEF RegisterExpect, Reply
  <2> HIDE DEF j
  <2>2. /\ Expects(Add(GsupExpectTable, j, h), j, h) = Expects(GsupExpectTable, j, h) + 1
        /\ \A k \in Imsis, g \in Hdlrs : <<k, g>> # <<j, h>> =>
              Expects(Add(GsupExpectTable, j, h), k, g) = Expects(GsupExpectTable, k, g)
    BY <1>1, <1>2, TablesAre, ExpectsAdd
  <2>3. /\ \A k \in Imsis : Owner(k)' = Owner(k)
        /\ \A k \in Imsis, g \in Hdlrs :
              Expecting(k, g)' = IF k = j /\ g = h THEN Expecting(k, g) + 1 ELSE Expecting(k, g)
    BY <2>1, <2>2 DEF Owner, Expecting
  <2> QED  BY <2>1, <2>3 DEF j
<1>3. CASE ~Fits(GsupExpectTable)
  BY <1>3 DEF RegisterExpect, Fail
<1> QED  BY <1>2, <1>3

\* f_destroy_expect: the caller expects its IMSI once less.
LEMMA UnregisterExpectTables ==
  ASSUME GSUPInv, NEW h \in Hdlrs, UnregisterExpect(h)
  PROVE  \/ UNCHANGED <<tables, call>> /\ Expecting(call[h].imsi, h) = 0
         \/ /\ call' = [call EXCEPT ![h] = Idle]
            /\ \A k \in Imsis : Owner(k)' = Owner(k)
            /\ \A k \in Imsis, g \in Hdlrs :
                  Expecting(k, g)' = IF k = call[h].imsi /\ g = h
                                     THEN Expecting(k, g) - 1 ELSE Expecting(k, g)
<1> DEFINE j == call[h].imsi
           i == First(Matching(h))
<1>1. j \in Imsis
  BY GetcallTypes DEF UnregisterExpect, GSUPInv, Ops
<1>2. CASE Matching(h) # {}
  <2>1. /\ GsupExpectTable' = Cleared(GsupExpectTable, i)
        /\ call' = [call EXCEPT ![h] = Idle] /\ GsupImsiTable' = GsupImsiTable
    BY <1>2 DEF UnregisterExpect, Reply
  <2>2. i \in 1 .. ExpectSlots /\ GsupExpectTable[i].imsi = j /\ GsupExpectTable[i].comp = h
    <3>1. Matching(h) \in SUBSET Nat
      BY TablesAre DEF Matching, SlotsOf, Slots
    <3>2. i \in Matching(h)
      BY <1>2, <3>1, FirstIn
    <3> QED  BY TablesAre, <3>2 DEF Matching, SlotsOf, Slots
  <2> HIDE DEF i, j
  <2>3. /\ Expects(Cleared(GsupExpectTable, i), j, h) = Expects(GsupExpectTable, j, h) - 1
        /\ \A k \in Imsis, g \in Hdlrs : <<k, g>> # <<j, h>> =>
              Expects(Cleared(GsupExpectTable, i), k, g) = Expects(GsupExpectTable, k, g)
    BY <1>1, <2>2, TablesAre, ExpectsCleared
  <2>4. /\ \A k \in Imsis : Owner(k)' = Owner(k)
        /\ \A k \in Imsis, g \in Hdlrs :
              Expecting(k, g)' = IF k = j /\ g = h THEN Expecting(k, g) - 1 ELSE Expecting(k, g)
    BY <2>1, <2>3 DEF Owner, Expecting
  <2> QED  BY <2>1, <2>4 DEF j
<1>3. CASE Matching(h) = {}
  BY <1>3, FS_EmptySet DEF UnregisterExpect, Fail, Matching, Expecting, Expects
<1> QED  BY <1>2, <1>3

\* f_imsi_table_del: the IMSI of the caller has no owner any more.
LEMMA UnregisterConnHdlrTables ==
  ASSUME GSUPInv, NEW h \in Hdlrs, UnregisterConnHdlr(h)
  PROVE  \/ UNCHANGED <<tables, call>> /\ Owner(call[h].imsi) = Nobody
         \/ /\ call' = [call EXCEPT ![h] = Idle]
            /\ \A k \in Imsis : Owner(k)' = IF k = call[h].imsi THEN Nobody ELSE Owner(k)
            /\ \A k \in Imsis, g \in Hdlrs : Expecting(k, g)' = Expecting(k, g)
<1> DEFINE j == call[h].imsi
<1>1. j \in Imsis
  BY GetcallTypes DEF UnregisterConnHdlr, GSUPInv, Ops
<1>2. CASE Known(j)
  <2>1. /\ GsupImsiTable' = Del(GsupImsiTable, j) /\ Slots(GsupImsiTable, j) # {}
        /\ call' = [call EXCEPT ![h] = Idle] /\ GsupExpectTable' = GsupExpectTable
    BY <1>2 DEF UnregisterConnHdlr, Reply, Known
  <2> HIDE DEF j
  <2>2. /\ OwnerIn(Del(GsupImsiTable, j), j) = Nobody
        /\ \A k \in Imsis \ {j} : OwnerIn(Del(GsupImsiTable, j), k) = OwnerIn(GsupImsiTable, k)
    BY <1>1, <2>1, TablesAre, OwnerDel
  <2>3. /\ \A k \in Imsis : Owner(k)' = IF k = j THEN Nobody ELSE Owner(k)
        /\ \A k \in Imsis, g \in Hdlrs : Expecting(k, g)' = Expecting(k, g)
    BY <2>1, <2>2 DEF Owner, Expecting
  <2> QED  BY <2>1, <2>3 DEF j
<1>3. CASE ~Known(j)
  <2>1. Owner(j) = Nobody
    BY <1>1, <1>3, OwnerKnown
  <2> QED  BY <1>3, <2>1 DEF UnregisterConnHdlr, Fail
<1> QED  BY <1>2, <1>3

\* f_imsi_table_del and f_imsi_table_add: the caller is the owner of its IMSI.
LEMMA ChangeConnHdlrTables ==
  ASSUME GSUPInv, NEW h \in Hdlrs, ChangeConnHdlr(h)
  PROVE  \/ UNCHANGED <<tables, call>> /\ Owner(call[h].imsi) = Nobody
         \/ /\ call' = [call EXCEPT ![h] = Idle]
            /\ \A k \in Imsis : Owner(k)' = IF k = call[h].imsi THEN h ELSE Owner(k)
            /\ \A k \in Imsis, g \in Hdlrs : Expecting(k, g)' = Expecting(k, g)
<1> DEFINE j == call[h].imsi
           less == Del(GsupImsiTable, j)
<1>1. j \in Imsis
  BY GetcallTypes DEF ChangeConnHdlr, GSUPInv, Ops
<1>2. CASE Known(j)
  <2>1. /\ GsupImsiTable' = Add(less, j, h) /\ Slots(GsupImsiTable, j) # {}
        /\ call' = [call EXCEPT ![h] = Idle] /\ GsupExpectTable' = GsupExpectTable
    BY <1>2 DEF ChangeConnHdlr, Reply, Known, Reassigned
  <2> HIDE DEF j
  <2>2. \A k \in Imsis \ {j} : OwnerIn(less, k) = OwnerIn(GsupImsiTable, k)
    BY <1>1, <2>1, TablesAre, OwnerDel
  <2>3. /\ less \in [1 .. ImsiSlots -> Entries]
        /\ OneEntry(less) /\ Slots(less, j) = {} /\ Fits(less)
    BY <1>1, <2>1, TablesAre, DelUnknown
  <2> HIDE DEF less
  <2>4. /\ OwnerIn(Add(less, j, h), j) = h
        /\ \A k \in Imsis \ {j} : OwnerIn(Add(less, j, h), k) = OwnerIn(less, k)
    BY <1>1, <2>3, TablesAre, OwnerAdd
  <2>5. /\ \A k \in Imsis : Owner(k)' = IF k = j THEN h ELSE Owner(k)
        /\ \A k \in Imsis, g \in Hdlrs : Expecting(k, g)' = Expecting(k, g)
    BY <2>1, <2>2, <2>4 DEF Owner, Expecting
  <2> QED  BY <2>1, <2>5 DEF j
<1>3. CASE ~Known(j)
  <2>1. Owner(j) = Nobody
    BY <1>1, <1>3, OwnerKnown
  <2> QED  BY <1>3, <2>1 DEF ChangeConnHdlr, Fail
<1> QED  BY <1>2, <1>3

\* An expected PDU: the ConnHdlr that expected it is the owner of its IMSI.
LEMMA RouteExpectedTables ==
  ASSUME GSUPInv, NEW k \in Imsis, RouteExpected(k)
  PROVE  \E h \in Hdlrs :
           /\ Forward(k, h)
           /\ Expecting(k, h) > 0
           /\ \A j \in Imsis : Owner(j)' = IF j = k THEN h ELSE Owner(j)
           /\ \A j \in Imsis, g \in Hdlrs :
                 Expecting(j, g)' = IF j = k /\ g = h THEN Expecting(j, g) - 1 ELSE Expecting(j, g)
<1> DEFINE i == First(Slots(GsupExpectTable, k))
           h == GsupExpectTable[i].comp
<1>1. /\ Slots(GsupImsiTable, k) = {} /\ Fits(GsupImsiTable) /\ Slots(GsupExpectTable, k) # {}
      /\ GsupExpectTable' = Cleared(GsupExpectTable, i)
      /\ GsupImsiTable' = Add(GsupImsiTable, k, h)
      /\ Forward(k, h)
  BY DEF RouteExpected, Known
<1>2. i \in 1 .. ExpectSlots /\ GsupExpectTable[i].imsi = k /\ h \in Hdlrs /\ GsupExpectTable[i].comp = h
  BY <1>1, TablesAre, SlotsIn
<1> HIDE DEF i, h
<1>3. /\ Expects(GsupExpectTable, k, h) > 0
      /\ Expects(Cleared(GsupExpectTable, i), k, h) = Expects(GsupExpectTable, k, h) - 1
      /\ \A j \in Imsis, g \in Hdlrs : <<j, g>> # <<k, h>> =>
            Expects(Cleared(GsupExpectTable, i), j, g) = Expects(GsupExpectTable, j, g)
  BY <1>2, TablesAre, ExpectsCleared
<1>4. /\ OwnerIn(Add(GsupImsiTable, k, h), k) = h
      /\ \A j \in Imsis \ {k} : OwnerIn(Add(GsupImsiTable, k, h), j) = OwnerIn(GsupImsiTable, j)
  BY <1>1, <1>2, TablesAre, OwnerAdd
<1> QED  BY <1>1, <1>2, <1>3, <1>4 DEF Owner, Expecting

-----------------------------------------------------------------------------
(* What the steps do to the use of an IMSI. *)

\* A step that does not concern k: PDUs of k may arrive and be read, and calls
\* for other IMSIs begin and end.
LEMMA Undisturbed ==
  ASSUME NEW k \in Imsis, Used(k),
         stage'[k] = stage[k], user'[k] = user[k], Owner(k)' = Owner(k),
         \A g \in Hdlrs : Expecting(k, g)' = Expecting(k, g),
         \A g \in Hdlrs : call'[g] = call[g] \/ (call[g].imsi # k /\ call'[g].imsi # k),
         \A g \in Hdlrs : Unread(g, k)' => Unread(g, k) \/ Owner(k) # Nobody,
         stage[k] \in {"claimed", "talking", "heard"} =>
            \A g \in {user[k], Owner(k)} : g \in ended' => g \in ended,
         UnderWay(k)' => UnderWay(k) \/ stage[k] \in {"talking", "heard"}
  PROVE  Used(k)'
<1>1. (NoneExpects(k) => NoneExpects(k)') /\ \A h \in Hdlrs : OnlyExpects(k, h) => OnlyExpects(k, h)'
  BY DEF NoneExpects, OnlyExpects
<1>2. /\ NoneCalls(k) => NoneCalls(k)'
      /\ \A h \in Hdlrs, op \in Ops : OnlyCalls(k, h, op) => OnlyCalls(k, h, op)'
  BY DEF NoneCalls, OnlyCalls, OneAtATime
<1>3. UnderWay(k)' => stage'[k] \in {"talking", "heard"}
  BY DEF Used
<1>4. CASE stage[k] = "free" /\ FreeUse(k)
  <2>1. FreeUse(k)'
    BY <1>1, <1>2, <1>4 DEF FreeUse, Ops
  <2> QED  BY <1>3, <1>4, <2>1 DEF Used
<1>5. CASE stage[k] = "claimed" /\ ClaimedUse(k)
  <2>1. ClaimedUse(k)'
    BY <1>1, <1>2, <1>5, NullAssumption DEF ClaimedUse, Alive, Ops
  <2> QED  BY <1>3, <1>5, <2>1 DEF Used
<1>6. CASE stage[k] = "talking" /\ TalkingUse(k)
  <2>1. TalkingUse(k)'
    BY <1>1, <1>2, <1>6, NullAssumption DEF TalkingUse, Alive, Ops
  <2> QED  BY <1>3, <1>6, <2>1 DEF Used
<1>7. CASE stage[k] = "heard" /\ HeardUse(k)
  <2>1. HeardUse(k)'
    BY <1>1, <1>2, <1>7 DEF HeardUse, Alive, Ops
  <2> QED  BY <1>3, <1>7, <2>1 DEF Used
<1>8. CASE stage[k] = "over" /\ OverUse(k)
  <2>1. OverUse(k)'
    BY <1>1, <1>2, <1>8 DEF OverUse
  <2> QED  BY <1>3, <1>8, <2>1 DEF Used
<1> QED  BY <1>4, <1>5, <1>6, <1>7, <1>8 DEF Used

\* A PDU that leaves the queue, and one that joins the unread ones.
LEMMA TailUnderWay ==
  ASSUME TypeOK, gsup # <<>>, gsup' = Tail(gsup), NEW k
  PROVE  UnderWay(k)' => UnderWay(k)
  BY DEF TypeOK, UnderWay

LEMMA HeadUnderWay ==
  ASSUME TypeOK, gsup # <<>>
  PROVE  UnderWay(Head(gsup))
  BY DEF TypeOK, UnderWay

\* A forwarded PDU is the only one that is new in an inbox.
LEMMA ForwardUnread ==
  ASSUME TypeOK, NEW j \in Imsis, NEW h \in Hdlrs, Forward(j, h), NEW k \in Imsis, k # j,
         NEW g \in Hdlrs
  PROVE  Unread(g, k)' => Unread(g, k)
<1>1. CASE inbox' = inbox
  BY <1>1 DEF Unread
<1>2. CASE inbox' = [inbox EXCEPT ![h] = Append(@, j)]
  <2>1. inbox'[g] = inbox[g] \/ inbox'[g] = Append(inbox[g], j)
    BY <1>2 DEF TypeOK
  <2>2. inbox[g] \in Seq(Imsis)
    BY DEF TypeOK
  <2> QED  BY <2>1, <2>2 DEF Unread
<1> QED  BY <1>1, <1>2 DEF Forward

\* A step that changes nothing but the outcome, the PDUs and the readers' record.
LEMMA StillUsed ==
  ASSUME UseInv, UNCHANGED <<tables, call, inbox, gsup, ended, user, stage, wild>>
  PROVE  UseInv'
<1> SUFFICES ASSUME NEW k \in Imsis \ wild  PROVE Used(k)'
  BY DEF UseInv
<1> QED  BY TablesSame, Undisturbed DEF UseInv, Unread, UnderWay

\* A PDU of an IMSI with an owner.
LEMMA RouteKnownUse ==
  ASSUME GSUPInv, UseInv, NEW j \in Imsis, RouteKnown(j)
  PROVE  UseInv'
<1>1. /\ UNCHANGED <<tables, call, ended, user, stage, wild>> /\ gsup # <<>> /\ gsup' = Tail(gsup)
      /\ Forward(j, Owner(j)) /\ Owner(j) \in Hdlrs /\ TypeOK
  BY OwnerKnown DEF RouteKnown, ReceivePdu, Dispatcher, testcase, GSUPInv
<1> SUFFICES ASSUME NEW k \in Imsis \ wild  PROVE Used(k)'
  BY <1>1 DEF UseInv
<1>2. \A g \in Hdlrs : Unread(g, k)' => Unread(g, k) \/ Owner(k) # Nobody
  BY <1>1, ForwardUnread, NullAssumption
<1>3. UnderWay(k)' => UnderWay(k)
  BY <1>1, TailUnderWay
<1>4. Owner(k)' = Owner(k) /\ \A g \in Hdlrs : Expecting(k, g)' = Expecting(k, g)
  BY <1>1, TablesSame
<1> QED  BY <1>1, <1>2, <1>3, <1>4, Undisturbed DEF UseInv

\* An expected PDU: the ConnHdlr in charge hears of its IMSI for the first time.
LEMMA RouteExpectedUse ==
  ASSUME GSUPInv, UseInv, NEW j \in Imsis, RouteExpected(j)
  PROVE  UseInv'
<1>1. /\ UNCHANGED <<call, ended, user, stage, wild>> /\ gsup # <<>> /\ gsup' = Tail(gsup)
      /\ TypeOK /\ j = Head(gsup) /\ ~Known(j)
  BY DEF RouteExpected, ReceivePdu, Dispatcher, testcase, GSUPInv
<1>2. PICK h \in Hdlrs :
           /\ Forward(j, h)
           /\ Expecting(j, h) > 0
           /\ \A k \in Imsis : Owner(k)' = IF k = j THEN h ELSE Owner(k)
           /\ \A k \in Imsis, g \in Hdlrs :
                 Expecting(k, g)' = IF k = j /\ g = h THEN Expecting(k, g) - 1 ELSE Expecting(k, g)
  BY RouteExpectedTables
<1> SUFFICES ASSUME NEW k \in Imsis \ wild  PROVE Used(k)'
  BY <1>1 DEF UseInv
<1>3. UnderWay(k)' => UnderWay(k)
  BY <1>1, TailUnderWay
<1>4. CASE k # j
  <2>1. \A g \in Hdlrs : Unread(g, k)' => Unread(g, k)
    BY <1>1, <1>2, <1>4, ForwardUnread
  <2> QED  BY <1>1, <1>2, <1>3, <1>4, <2>1, Undisturbed DEF UseInv
<1>5. CASE k = j
  <2>1. stage[k] \in {"talking", "heard"} /\ Owner(k) = Nobody /\ Used(k)
    BY <1>1, <1>5, HeadUnderWay, OwnerKnown DEF UseInv, Used
  <2>2. stage[k] = "talking" /\ TalkingUse(k) /\ OnlyExpects(k, user[k]) /\ user[k] \in Hdlrs
    BY <2>1, NullAssumption DEF Used, HeardUse, TalkingUse, Alive
  <2>3. h = user[k]
    BY <1>2, <1>5, <2>2 DEF OnlyExpects
  <2>4. NoneExpects(k)'
    BY <1>2, <1>5, <2>2, <2>3 DEF OnlyExpects, NoneExpects
  <2>5. TalkingUse(k)'
    BY <1>1, <1>2, <1>5, <2>2, <2>3, <2>4 DEF TalkingUse, Alive, NoneCalls
  <2> QED  BY <1>1, <2>2, <2>5 DEF Used
<1> QED  BY <1>4, <1>5

\* The dispatcher serves a call: what stays the same.
LEMMA ServeFrame ==
  ASSUME GSUPInv, NEW h \in Hdlrs, Serve(h)
  PROVE  /\ UNCHANGED <<inbox, gsup, ended, user, stage, wild>>
         /\ outcome = "running" /\ call[h].imsi \in Imsis /\ TypeOK
<1>1. \E op \in Ops : Getcall(h, op)
  BY DEF Serve, RegisterExpect, UnregisterExpect, UnregisterConnHdlr, ChangeConnHdlr, Ops
<1>2. call[h].imsi \in Imsis /\ TypeOK
  BY <1>1, GetcallTypes DEF GSUPInv
<1> QED  BY <1>1, <1>2 DEF Serve, RegisterExpect, UnregisterExpect, UnregisterConnHdlr, ChangeConnHdlr,
              Getcall, Dispatcher, Fail, Reply, testcase

\* ... and that it does not concern other IMSIs.
LEMMA ServeOther ==
  ASSUME GSUPInv, UseInv, NEW h \in Hdlrs, Serve(h), NEW k \in Imsis \ wild, k # call[h].imsi
  PROVE  Used(k)'
<1>1. Owner(k)' = Owner(k) /\ \A g \in Hdlrs : Expecting(k, g)' = Expecting(k, g)
  BY TablesSame, RegisterExpectTables, UnregisterExpectTables, UnregisterConnHdlrTables,
     ChangeConnHdlrTables DEF Serve
<1>2. call' = call \/ call' = [call EXCEPT ![h] = Idle]
  BY RegisterExpectTables, UnregisterExpectTables, UnregisterConnHdlrTables,
     ChangeConnHdlrTables DEF Serve
<1>3. \A g \in Hdlrs : call'[g] = call[g] \/ (call[g].imsi # k /\ call'[g].imsi # k)
  BY <1>2, ServeFrame, NullAssumption DEF Idle, TypeOK
<1> QED  BY <1>1, <1>3, ServeFrame, Undisturbed DEF UseInv, Unread, UnderWay

\* What a ConnHdlr may be waiting for, and where its IMSI stands then.
LEMMA CallUse ==
  ASSUME UseInv, NEW h \in Hdlrs, NEW k \in Imsis \ wild, call[h].imsi = k
  PROVE  /\ OneAtATime(k, h)
         /\ ~UnderWay(k) \/ stage[k] = "heard"
         /\ \/ stage[k] = "free" /\ FreeUse(k) /\ call[h].op = "unexpect"
               /\ OnlyExpects(k, h) /\ Owner(k) = Nobody
            \/ stage[k] = "free" /\ FreeUse(k) /\ call[h].op = "unregister"
               /\ NoneExpects(k) /\ Owner(k) \in Hdlrs
            \/ stage[k] = "claimed" /\ ClaimedUse(k) /\ call[h].op = "expect" /\ user[k] = h
               /\ NoneExpects(k)
            \/ stage[k] = "heard" /\ HeardUse(k) /\ call[h].op = "change" /\ user[k] = h
<1>1. ~NoneCalls(k)
  BY DEF NoneCalls
<1>2. \A g \in Hdlrs, op \in Ops : OnlyCalls(k, g, op) => g = h /\ call[h].op = op /\ OneAtATime(k, h)
  BY DEF OnlyCalls, OneAtATime
<1>3. Used(k) /\ Alive \subseteq Hdlrs
  BY DEF UseInv, Alive
<1>4. CASE stage[k] = "free"
  BY <1>1, <1>2, <1>3, <1>4 DEF Used, FreeUse, Ops
<1>5. CASE stage[k] = "claimed"
  BY <1>1, <1>2, <1>3, <1>5 DEF Used, ClaimedUse, Ops
<1>6. CASE stage[k] = "heard"
  BY <1>1, <1>2, <1>3, <1>6 DEF Used, HeardUse, Ops
<1> QED  BY <1>1, <1>3, <1>4, <1>5, <1>6 DEF Used, TalkingUse, OverUse

\* A call that was answered leaves no call for its IMSI.
LEMMA Answered ==
  ASSUME TypeOK, NEW h \in Hdlrs, NEW k \in Imsis, OneAtATime(k, h),
         call' = [call EXCEPT ![h] = Idle]
  PROVE  NoneCalls(k)'
  BY NullAssumption DEF TypeOK, OneAtATime, NoneCalls, Idle

\* The calls of an IMSI used with discipline.
LEMMA ServeUse ==
  ASSUME GSUPInv, UseInv, NEW h \in Hdlrs, Serve(h)
  PROVE  UseInv'
<1>1. /\ UNCHANGED <<inbox, gsup, ended, user, stage, wild>>
      /\ call[h].imsi \in Imsis /\ TypeOK
  BY ServeFrame
<1> SUFFICES ASSUME NEW k \in Imsis \ wild  PROVE Used(k)'
  BY <1>1 DEF UseInv
<1>2. CASE k # call[h].imsi
  BY <1>2, ServeOther
<1>3. CASE UNCHANGED <<tables, call>>
  BY <1>1, <1>3, StillUsed DEF UseInv
<1>4. ASSUME k = call[h].imsi, call' = [call EXCEPT ![h] = Idle]
      PROVE  Used(k)'
  <2>1. NoneCalls(k)' /\ UnderWay(k)' = UnderWay(k) /\ Unread(user[k], k)' = Unread(user[k], k)
    BY <1>1, <1>4, Answered, CallUse DEF UnderWay, Unread
  <2>2. call' # call
    BY <1>1, <1>4, NullAssumption DEF TypeOK, Idle
  <2>3. CASE RegisterExpect(h)
    <3>1. /\ Owner(k)' = Owner(k)
          /\ \A g \in Hdlrs : Expecting(k, g)' = IF g = h THEN Expecting(k, g) + 1 ELSE Expecting(k, g)
      BY <1>4, <2>2, <2>3, RegisterExpectTables
    <3>2. /\ stage[k] = "claimed" /\ ClaimedUse(k) /\ user[k] = h /\ NoneExpects(k) /\ ~UnderWay(k)
      BY <1>4, <2>3, CallUse DEF RegisterExpect, Getcall
    <3>3. OnlyExpects(k, h)'
      BY <3>1, <3>2 DEF NoneExpects, OnlyExpects
    <3>4. ClaimedUse(k)'
      BY <1>1, <2>1, <3>1, <3>2, <3>3 DEF ClaimedUse, Alive, Unread
    <3> QED  BY <1>1, <2>1, <3>2, <3>4 DEF Used
  <2>4. CASE UnregisterExpect(h)
    <3>1. /\ Owner(k)' = Owner(k)
          /\ \A g \in Hdlrs : Expecting(k, g)' = IF g = h THEN Expecting(k, g) - 1 ELSE Expecting(k, g)
      BY <1>4, <2>2, <2>4, UnregisterExpectTables
    <3>2. /\ stage[k] = "free" /\ FreeUse(k) /\ OnlyExpects(k, h) /\ Owner(k) = Nobody /\ ~UnderWay(k)
      BY <1>4, <2>4, CallUse DEF UnregisterExpect, Getcall
    <3>3. NoneExpects(k)'
      BY <3>1, <3>2 DEF NoneExpects, OnlyExpects
    <3>4. FreeUse(k)'
      BY <1>1, <2>1, <3>1, <3>2, <3>3 DEF FreeUse
    <3> QED  BY <1>1, <2>1, <3>2, <3>4 DEF Used
  <2>5. CASE UnregisterConnHdlr(h)
    <3>1. Owner(k)' = Nobody /\ \A g \in Hdlrs : Expecting(k, g)' = Expecting(k, g)
      BY <1>4, <2>2, <2>5, UnregisterConnHdlrTables
    <3>2. /\ stage[k] = "free" /\ FreeUse(k) /\ NoneExpects(k) /\ ~UnderWay(k)
      BY <1>4, <2>5, CallUse DEF UnregisterConnHdlr, Getcall
    <3>3. FreeUse(k)'
      BY <1>1, <2>1, <3>1, <3>2 DEF FreeUse, NoneExpects
    <3> QED  BY <1>1, <2>1, <3>2, <3>3 DEF Used
  <2>6. CASE ChangeConnHdlr(h)
    <3>1. Owner(k)' = h /\ \A g \in Hdlrs : Expecting(k, g)' = Expecting(k, g)
      BY <1>4, <2>2, <2>6, ChangeConnHdlrTables
    <3>2. /\ stage[k] = "heard" /\ HeardUse(k) /\ user[k] = h
      BY <1>4, <2>6, CallUse DEF ChangeConnHdlr, Getcall
    <3>3. HeardUse(k)'
      BY <1>1, <2>1, <3>1, <3>2 DEF HeardUse, NoneExpects, Alive
    <3> QED  BY <1>1, <2>1, <3>2, <3>3 DEF Used
  <2> QED  BY <2>3, <2>4, <2>5, <2>6 DEF Serve
<1>5. UNCHANGED <<tables, call>> \/ call' = [call EXCEPT ![h] = Idle]
  BY RegisterExpectTables, UnregisterExpectTables, UnregisterConnHdlrTables,
     ChangeConnHdlrTables DEF Serve
<1> QED  BY <1>2, <1>3, <1>4, <1>5

\* A ConnHdlr that is in no call, and the only one that may call for k: nobody does.
LEMMA IdleUse ==
  ASSUME NEW h \in Hdlrs, NEW k \in Imsis, call[h] = Idle, OneAtATime(k, h)
  PROVE  NoneCalls(k) /\ \A g \in Hdlrs, op \in Ops : ~OnlyCalls(k, g, op)
<1>1. NoneCalls(k)
  BY NullAssumption DEF OneAtATime, NoneCalls, Idle
<1> QED  BY <1>1 DEF NoneCalls, OnlyCalls

\* A call, or another step of h, that is about j and not k.
LEMMA CallOther ==
  ASSUME TypeOK, UseInv, NEW h \in Hdlrs, Client(h), NEW j \in Imsis,
         call' = call \/ \E op \in Ops : call' = [call EXCEPT ![h] = [op |-> op, imsi |-> j]],
         UNCHANGED <<gsup, inbox, ended>>,
         NEW k \in Imsis \ wild, k # j, user'[k] = user[k], stage'[k] = stage[k]
  PROVE  Used(k)'
<1>1. \A g \in Hdlrs : call'[g] = call[g] \/ (call[g].imsi # k /\ call'[g].imsi # k)
  BY NullAssumption DEF Client, Idle, TypeOK
<1>2. Owner(k)' = Owner(k) /\ \A g \in Hdlrs : Expecting(k, g)' = Expecting(k, g)
  BY TablesSame DEF Client
<1> QED  BY <1>1, <1>2, Undisturbed DEF UseInv, Unread, UnderWay

\* The testcase's record of other IMSIs.
LEMMA UseOther ==
  ASSUME TypeOK, NEW j \in Imsis, NEW h \in Hdlrs, NEW old, NEW new, Use(j, h, old, new)
  PROVE  /\ wild' = wild
         /\ \A k \in Imsis \ wild : k # j => user'[k] = user[k] /\ stage'[k] = stage[k]
         /\ j \notin wild => /\ stage[j] \in old /\ user[j] \in {Nobody, h} /\ OneAtATime(j, h)
                             /\ stage'[j] = new
                             /\ user'[j] = IF new = "free" THEN Nobody ELSE h
  BY DEF Use, TypeOK, testcase

\* h starts to wait in a call for an IMSI nobody else calls for.
LEMMA Called ==
  ASSUME TypeOK, NEW h \in Hdlrs, NEW k \in Imsis, NEW op \in Ops, Call(h, op, k),
         OneAtATime(k, h)
  PROVE  OnlyCalls(k, h, op)'
  BY DEF TypeOK, Call, OnlyCalls, OneAtATime

\* f_create_gsup_expect: the caller is in charge of the IMSI.
LEMMA CreateExpectUse ==
  ASSUME GSUPInv, UseInv, NEW h \in Hdlrs, NEW j \in Imsis, CreateExpect(h, j)
  PROVE  UseInv'
<1>1. /\ Call(h, "expect", j) /\ Use(j, h, {"free"}, "claimed") /\ TypeOK /\ "expect" \in Ops
      /\ Client(h) /\ call[h] = Idle /\ h \in Alive
      /\ UNCHANGED <<tables, gsup, inbox, ended>>
  BY DEF CreateExpect, Call, Client, Ops, Alive, GSUPInv
<1>2. wild' = wild
  BY <1>1, UseOther
<1> SUFFICES ASSUME NEW k \in Imsis \ wild  PROVE Used(k)'
  BY <1>2 DEF UseInv
<1>3. CASE k # j
  <2>1. user'[k] = user[k] /\ stage'[k] = stage[k]
    BY <1>1, <1>3, UseOther
  <2>2. call' = [call EXCEPT ![h] = [op |-> "expect", imsi |-> j]]
    BY <1>1 DEF Call
  <2> QED  BY <1>1, <1>3, <2>1, <2>2, CallOther
<1>4. CASE k = j
  <2>1. /\ stage[k] = "free" /\ OneAtATime(k, h) /\ stage'[k] = "claimed" /\ user'[k] = h
    BY <1>1, <1>4, UseOther
  <2>2. NoneCalls(k) /\ OnlyCalls(k, h, "expect")' /\ \A g \in Hdlrs, op \in Ops : ~OnlyCalls(k, g, op)
    BY <1>1, <1>4, <2>1, IdleUse, Called
  <2>3. NoneExpects(k) /\ Owner(k) = Nobody /\ ~UnderWay(k)
    BY <2>1, <2>2, NullAssumption DEF UseInv, Used, FreeUse, Ops
  <2>4. NoneExpects(k)' /\ Owner(k)' = Nobody /\ ~UnderWay(k)'
    BY <1>1, <2>3, TablesSame DEF NoneExpects, UnderWay
  <2>5. ~Unread(h, k)'
    BY <1>1, <1>4 DEF CreateExpect, Unread
  <2>6. ClaimedUse(k)'
    BY <1>1, <2>1, <2>2, <2>4, <2>5 DEF ClaimedUse, Alive, Unread
  <2> QED  BY <2>1, <2>4, <2>6 DEF Used
<1> QED  BY <1>3, <1>4

\* f_destroy_gsup_expect by the ConnHdlr in charge: nobody is any more.
LEMMA DestroyExpectUse ==
  ASSUME GSUPInv, UseInv, NEW h \in Hdlrs, NEW j \in Imsis, DestroyExpect(h, j)
  PROVE  UseInv'
<1>1. /\ Call(h, "unexpect", j) /\ Use(j, h, {"claimed"}, "free") /\ TypeOK /\ "unexpect" \in Ops
      /\ Client(h) /\ call[h] = Idle
      /\ UNCHANGED <<tables, gsup, inbox, ended>>
  BY DEF DestroyExpect, Call, Client, Ops, GSUPInv
<1>2. wild' = wild
  BY <1>1, UseOther
<1> SUFFICES ASSUME NEW k \in Imsis \ wild  PROVE Used(k)'
  BY <1>2 DEF UseInv
<1>3. CASE k # j
  <2>1. user'[k] = user[k] /\ stage'[k] = stage[k]
    BY <1>1, <1>3, UseOther
  <2>2. call' = [call EXCEPT ![h] = [op |-> "unexpect", imsi |-> j]]
    BY <1>1 DEF Call
  <2> QED  BY <1>1, <1>3, <2>1, <2>2, CallOther
<1>4. CASE k = j
  <2>1. /\ stage[k] = "claimed" /\ OneAtATime(k, h) /\ stage'[k] = "free"
        /\ user[k] \in {Nobody, h} /\ user'[k] = Nobody
    BY <1>1, <1>4, UseOther
  <2>2. NoneCalls(k) /\ OnlyCalls(k, h, "unexpect")' /\ \A g \in Hdlrs, op \in Ops : ~OnlyCalls(k, g, op)
    BY <1>1, <1>4, <2>1, IdleUse, Called
  <2>3. user[k] = h /\ OnlyExpects(k, h) /\ Owner(k) = Nobody /\ ~UnderWay(k)
    BY <2>1, <2>2, NullAssumption DEF UseInv, Used, ClaimedUse, Ops, Alive
  <2>4. OnlyExpects(k, h)' /\ Owner(k)' = Nobody /\ ~UnderWay(k)'
    BY <1>1, <2>3, TablesSame DEF OnlyExpects, UnderWay
  <2>5. FreeUse(k)'
    BY <2>1, <2>2, <2>4 DEF FreeUse
  <2> QED  BY <2>1, <2>4, <2>5 DEF Used
<1> QED  BY <1>3, <1>4

\* f_unregister_gsup_imsi by the ConnHdlr in charge, once the IUT is done.
LEMMA UnregisterUse ==
  ASSUME GSUPInv, UseInv, NEW h \in Hdlrs, NEW j \in Imsis, Unregister(h, j)
  PROVE  UseInv'
<1>1. /\ Call(h, "unregister", j) /\ Use(j, h, {"over"}, "free") /\ TypeOK /\ "unregister" \in Ops
      /\ Client(h) /\ call[h] = Idle
      /\ UNCHANGED <<tables, gsup, inbox, ended>>
  BY DEF Unregister, Call, Client, Ops, GSUPInv
<1>2. wild' = wild
  BY <1>1, UseOther
<1> SUFFICES ASSUME NEW k \in Imsis \ wild  PROVE Used(k)'
  BY <1>2 DEF UseInv
<1>3. CASE k # j
  <2>1. user'[k] = user[k] /\ stage'[k] = stage[k]
    BY <1>1, <1>3, UseOther
  <2>2. call' = [call EXCEPT ![h] = [op |-> "unregister", imsi |-> j]]
    BY <1>1 DEF Call
  <2> QED  BY <1>1, <1>3, <2>1, <2>2, CallOther
<1>4. CASE k = j
  <2>1. /\ stage[k] = "over" /\ OneAtATime(k, h) /\ stage'[k] = "free" /\ user'[k] = Nobody
    BY <1>1, <1>4, UseOther
  <2>2. OnlyCalls(k, h, "unregister")'
    BY <1>1, <1>4, <2>1, Called
  <2>3. NoneExpects(k) /\ Owner(k) \in Hdlrs /\ ~UnderWay(k)
    BY <2>1 DEF UseInv, Used, OverUse
  <2>4. NoneExpects(k)' /\ Owner(k)' \in Hdlrs /\ ~UnderWay(k)'
    BY <1>1, <2>3, TablesSame DEF NoneExpects, UnderWay
  <2>5. FreeUse(k)'
    BY <2>1, <2>2, <2>4 DEF FreeUse
  <2> QED  BY <2>1, <2>4, <2>5 DEF Used
<1> QED  BY <1>3, <1>4

\* f_gsup_change_connhdlr: the caller is in charge, not yet the owner.
LEMMA TakeOverUse ==
  ASSUME GSUPInv, UseInv, NEW h \in Hdlrs, NEW j \in Imsis, TakeOver(h, j)
  PROVE  UseInv'
<1>1. /\ Call(h, "change", j) /\ TypeOK /\ "change" \in Ops
      /\ Client(h) /\ call[h] = Idle /\ h \in Alive
      /\ UNCHANGED <<tables, gsup, inbox, ended, wild, stage>>
  BY DEF TakeOver, Call, Client, Ops, Alive, GSUPInv, testcase
<1> SUFFICES ASSUME NEW k \in Imsis \ wild  PROVE Used(k)'
  BY <1>1 DEF UseInv
<1>3. CASE k # j
  <2>1. user'[k] = user[k]
    BY <1>1, <1>3 DEF TakeOver, TypeOK, testcase
  <2>2. call' = [call EXCEPT ![h] = [op |-> "change", imsi |-> j]]
    BY <1>1 DEF Call
  <2> QED  BY <1>1, <1>3, <2>1, <2>2, CallOther
<1>4. CASE k = j
  <2>1. /\ stage[k] = "heard" /\ OneAtATime(k, h) /\ user'[k] = h
    BY <1>1, <1>4 DEF TakeOver, TypeOK
  <2>2. OnlyCalls(k, h, "change")'
    BY <1>1, <1>4, <2>1, Called
  <2>3. NoneExpects(k) /\ Owner(k) \in Alive
    BY <2>1 DEF UseInv, Used, HeardUse
  <2>4. NoneExpects(k)' /\ Owner(k)' = Owner(k)
    BY <1>1, <2>3, TablesSame DEF NoneExpects
  <2>5. HeardUse(k)'
    BY <1>1, <2>1, <2>2, <2>3, <2>4 DEF HeardUse, Alive
  <2> QED  BY <1>1, <2>1, <2>5 DEF Used
<1> QED  BY <1>3, <1>4

\* The ConnHdlr in charge gives the IUT reason to speak.
LEMMA TriggerUse ==
  ASSUME GSUPInv, UseInv, NEW h \in Hdlrs, NEW j \in Imsis, Trigger(h, j)
  PROVE  UseInv'
<1>1. /\ Use(j, h, {"claimed"}, "talking") /\ TypeOK /\ j \notin wild /\ user[j] = h
      /\ Client(h) /\ call[h] = Idle
      /\ UNCHANGED <<tables, gsup, inbox, call, ended>>
  BY DEF Trigger, Client, GSUPInv
<1>2. wild' = wild
  BY <1>1, UseOther
<1> SUFFICES ASSUME NEW k \in Imsis \ wild  PROVE Used(k)'
  BY <1>2 DEF UseInv
<1>3. CASE k # j
  <2>1. user'[k] = user[k] /\ stage'[k] = stage[k]
    BY <1>1, <1>3, UseOther
  <2> QED  BY <1>1, <1>3, <2>1, CallOther
<1>4. CASE k = j
  <2>1. /\ stage[k] = "claimed" /\ OneAtATime(k, h) /\ stage'[k] = "talking" /\ user'[k] = h
    BY <1>1, <1>4, UseOther
  <2>2. NoneCalls(k) /\ \A g \in Hdlrs, op \in Ops : ~OnlyCalls(k, g, op)
    BY <1>1, <1>4, <2>1, IdleUse
  <2>3. OnlyExpects(k, h) /\ Owner(k) = Nobody /\ ~Unread(h, k) /\ h \in Alive
    BY <1>1, <1>4, <2>1, <2>2, NullAssumption DEF UseInv, Used, ClaimedUse, Ops, Alive
  <2>4. OnlyExpects(k, h)' /\ Owner(k)' = Nobody /\ NoneCalls(k)' /\ ~Unread(h, k)'
    BY <1>1, <2>2, <2>3, TablesSame DEF OnlyExpects, NoneCalls, Unread
  <2>5. TalkingUse(k)'
    BY <1>1, <2>1, <2>3, <2>4 DEF TalkingUse, Alive, Unread
  <2> QED  BY <2>1, <2>5 DEF Used
<1> QED  BY <1>3, <1>4

\* The IUT is done and all it said was read.
LEMMA ReleaseUse ==
  ASSUME GSUPInv, UseInv, NEW h \in Hdlrs, NEW j \in Imsis, Release(h, j)
  PROVE  UseInv'
<1>1. /\ Use(j, h, {"heard"}, "over") /\ TypeOK /\ j \notin wild /\ user[j] = h
      /\ Client(h) /\ call[h] = Idle /\ ~UnderWay(j)
      /\ UNCHANGED <<tables, gsup, inbox, call, ended>>
  BY DEF Release, Client, UnderWay, GSUPInv
<1>2. wild' = wild
  BY <1>1, UseOther
<1> SUFFICES ASSUME NEW k \in Imsis \ wild  PROVE Used(k)'
  BY <1>2 DEF UseInv
<1>3. CASE k # j
  <2>1. user'[k] = user[k] /\ stage'[k] = stage[k]
    BY <1>1, <1>3, UseOther
  <2> QED  BY <1>1, <1>3, <2>1, CallOther
<1>4. CASE k = j
  <2>1. /\ stage[k] = "heard" /\ OneAtATime(k, h) /\ stage'[k] = "over" /\ user'[k] = h
    BY <1>1, <1>4, UseOther
  <2>2. NoneCalls(k) /\ \A g \in Hdlrs, op \in Ops : ~OnlyCalls(k, g, op)
    BY <1>1, <1>4, <2>1, IdleUse
  <2>3. NoneExpects(k) /\ Owner(k) = h
    BY <1>1, <1>4, <2>1, <2>2, NullAssumption DEF UseInv, Used, HeardUse, Ops, Alive
  <2>4. NoneExpects(k)' /\ Owner(k)' = h /\ NoneCalls(k)' /\ ~UnderWay(k)'
    BY <1>1, <1>4, <2>2, <2>3, TablesSame DEF NoneExpects, NoneCalls, UnderWay
  <2>5. OverUse(k)'
    BY <2>1, <2>4 DEF OverUse
  <2> QED  BY <2>1, <2>4, <2>5 DEF Used
<1> QED  BY <1>3, <1>4

\* A ConnHdlr reads a PDU, perhaps the first of an IMSI it is in charge of.
LEMMA ReadPduUse ==
  ASSUME GSUPInv, UseInv, NEW h \in Hdlrs, ReadPdu(h)
  PROVE  UseInv'
<1> DEFINE j == Head(inbox[h])
<1>1. /\ TypeOK /\ UNCHANGED <<tables, gsup, call, ended, user, wild>>
      /\ inbox[h] \in Seq(Imsis) /\ inbox[h] # <<>> /\ j \in Imsis
      /\ inbox' = [inbox EXCEPT ![h] = Tail(@)]
      /\ stage' = [stage EXCEPT ![j] = IF @ = "talking" /\ user[j] = h THEN "heard" ELSE @]
  BY DEF ReadPdu, Client, GSUPInv, TypeOK
<1>2. Unread(h, j)
  BY <1>1 DEF Unread
<1> HIDE DEF j
<1> SUFFICES ASSUME NEW k \in Imsis \ wild  PROVE Used(k)'
  BY <1>1 DEF UseInv
<1>3. Owner(k)' = Owner(k) /\ \A g \in Hdlrs : Expecting(k, g)' = Expecting(k, g)
  BY <1>1, TablesSame
<1>4. \A g \in Hdlrs : Unread(g, k)' => Unread(g, k)
  <2> TAKE g \in Hdlrs
  <2>1. inbox'[g] = inbox[g] \/ (g = h /\ inbox'[g] = Tail(inbox[g]))
    BY <1>1 DEF TypeOK
  <2> QED  BY <1>1, <2>1 DEF Unread
<1>5. CASE stage'[k] = stage[k]
  BY <1>1, <1>3, <1>4, <1>5, Undisturbed DEF UseInv, UnderWay
<1>6. CASE stage'[k] # stage[k]
  <2>1. k = j /\ stage[k] = "talking" /\ user[k] = h /\ stage'[k] = "heard"
    BY <1>1, <1>6 DEF TypeOK
  <2>2. Owner(k) = h /\ NoneExpects(k) /\ NoneCalls(k) /\ h \in Alive
    BY <1>2, <2>1 DEF UseInv, Used, TalkingUse
  <2>3. NoneExpects(k)' /\ NoneCalls(k)'
    BY <1>1, <1>3, <2>2 DEF NoneExpects, NoneCalls
  <2>4. HeardUse(k)'
    BY <1>1, <1>3, <2>1, <2>2, <2>3 DEF HeardUse, Alive
  <2> QED  BY <2>1, <2>4 DEF Used
<1> QED  BY <1>5, <1>6

\* The behaviour of a ConnHdlr ends: it is not in charge, nor is it waited for.
LEMMA FinishUse ==
  ASSUME GSUPInv, UseInv, NEW h \in Hdlrs, Finish(h)
  PROVE  UseInv'
<1>1. /\ UNCHANGED <<tables, gsup, inbox, call, user, stage, wild>> /\ ended' = ended \cup {h}
      /\ \A g \in Hdlrs : call[g].op = "change" => call[g].imsi \in wild
      /\ \A k \in Imsis : user[k] = h => stage[k] = "over"
  BY DEF Finish, Client, testcase
<1> SUFFICES ASSUME NEW k \in Imsis \ wild  PROVE Used(k)'
  BY <1>1 DEF UseInv
<1>2. Used(k)
  BY DEF UseInv
<1>3. stage[k] \in {"claimed", "talking", "heard"} => user[k] # h /\ Owner(k) \in {user[k], Nobody}
  <2>1. \A g \in Hdlrs : ~OnlyCalls(k, g, "change")
    BY <1>1 DEF OnlyCalls
  <2> QED  BY <1>1, <1>2, <2>1 DEF Used, ClaimedUse, TalkingUse, HeardUse, Alive
<1>4. Owner(k)' = Owner(k) /\ \A g \in Hdlrs : Expecting(k, g)' = Expecting(k, g)
  BY <1>1, TablesSame
<1> QED  BY <1>1, <1>2, <1>3, <1>4, NullAssumption, Undisturbed DEF Unread, UnderWay

\* The IUT speaks when it has reason to.
LEMMA IutSendsUse ==
  ASSUME GSUPInv, UseInv, NEW j \in Imsis, IutSends(j)
  PROVE  UseInv'
<1>1. /\ UNCHANGED <<tables, inbox, call, ended, user, stage, wild>> /\ gsup' = Append(gsup, j)
      /\ gsup \in Seq(Imsis)
      /\ j \in wild \/ stage[j] \in {"talking", "heard"}
  BY DEF IutSends, testcase, GSUPInv, TypeOK
<1> SUFFICES ASSUME NEW k \in Imsis \ wild  PROVE Used(k)'
  BY <1>1 DEF UseInv
<1>2. UnderWay(k)' => UnderWay(k) \/ k = j
  BY <1>1 DEF UnderWay
<1>3. Owner(k)' = Owner(k) /\ \A g \in Hdlrs : Expecting(k, g)' = Expecting(k, g)
  BY <1>1, TablesSame
<1> QED  BY <1>1, <1>2, <1>3, Undisturbed DEF UseInv, Unread

-----------------------------------------------------------------------------
(* The invariant. *)

\* At the start no IMSI is in use.
LEMMA InitUse ==
  ASSUME Init
  PROVE  UseInv
<1> SUFFICES ASSUME NEW k \in Imsis \ wild  PROVE Used(k)
  BY DEF UseInv
<1>1. /\ Owners(GsupImsiTable) = [j \in Imsis |-> Nobody]
      /\ Expected(GsupExpectTable) = [p \in Imsis \X Hdlrs |-> 0]
  BY InitTables, SlotsAssumption DEF Init
<1>2. Owner(k) = Nobody
  BY <1>1 DEF Owners, Owner
<1>3. NoneExpects(k)
  <2> SUFFICES ASSUME NEW g \in Hdlrs  PROVE Expecting(k, g) = 0
    BY DEF NoneExpects
  <2>1. Expected(GsupExpectTable)[<<k, g>>] = 0 /\ Expected(GsupExpectTable)[<<k, g>>] = Expecting(k, g)
    <3>1. Expected(GsupExpectTable)[<<k, g>>] = 0
      BY <1>1
    <3> QED  BY <3>1 DEF Expected, Expecting
  <2> QED  BY <2>1
<1>4. NoneCalls(k) /\ ~UnderWay(k)
  BY NullAssumption DEF Init, NoneCalls, Idle, UnderWay
<1> QED  BY <1>2, <1>3, <1>4 DEF Init, Used, FreeUse

\* Every step keeps what the uses stand for.
LEMMA NextUse ==
  ASSUME GSUPInv, UseInv, [Next]_vars
  PROVE  UseInv'
<1>1. CASE Route
  <2>1. ASSUME NEW j \in Imsis, RouteFails(j)
        PROVE  UseInv'
    BY <2>1, StillUsed DEF RouteFails, ReceivePdu, Dispatcher, Fail, testcase
  <2> QED  BY <1>1, <2>1, RouteKnownUse, RouteExpectedUse DEF Route
<1>2. CASE ConnectionLost
  BY <1>2, StillUsed DEF ConnectionLost, Dispatcher, testcase
<1>3. ASSUME NEW h \in Hdlrs, Serve(h)
      PROVE  UseInv'
  BY <1>3, ServeUse
<1>4. ASSUME NEW h \in Hdlrs, ConnHdlr(h)
      PROVE  UseInv'
  BY <1>4, CreateExpectUse, DestroyExpectUse, UnregisterUse, TakeOverUse, TriggerUse, ReleaseUse,
     ReadPduUse, FinishUse DEF ConnHdlr
<1>5. ASSUME NEW j \in Imsis, IutSends(j)
      PROVE  UseInv'
  BY <1>5, IutSendsUse
<1>6. CASE UNCHANGED vars
  BY <1>6, StillUsed DEF vars, testcase
<1> QED  BY <1>1, <1>2, <1>3, <1>4, <1>5, <1>6 DEF Next

\* An IMSI used with discipline is expected, owned and called for by the ConnHdlr
\* in charge of it and nobody else, as its stage says.
THEOREM GSUPUse == Spec => []UseInv
<1>1. Init => UseInv
  BY InitUse
<1>2. GSUPInv /\ UseInv /\ [Next]_vars => UseInv'
  BY NextUse
<1> QED  BY <1>1, <1>2, GSUPInvariant, PTL DEF Spec

-----------------------------------------------------------------------------
(* Every PDU goes to the ConnHdlr in charge. *)

\* Only a PDU that is routed makes an inbox longer.
LEMMA LongerIsForwarded ==
  ASSUME GSUPInv, [Next]_vars, NEW h \in Hdlrs, Len(inbox'[h]) > Len(inbox[h])
  PROVE  \E k \in Imsis : RouteKnown(k) \/ RouteExpected(k)
<1>1. inbox' # inbox
  <2>1. Len(inbox[h]) \in Nat
    BY DEF GSUPInv, TypeOK
  <2> QED  BY <2>1
<1>2. \A g \in Hdlrs : ~ReadPdu(g)
  <2> SUFFICES ASSUME NEW g \in Hdlrs, ReadPdu(g)  PROVE FALSE
    OBVIOUS
  <2>1. inbox[h] \in Seq(Imsis) /\ inbox[g] # <<>> /\ inbox'[h] \in {inbox[h], Tail(inbox[g])}
        /\ (g # h => inbox'[h] = inbox[h])
    BY DEF ReadPdu, GSUPInv, TypeOK
  <2>2. g = h => Len(Tail(inbox[h])) < Len(inbox[h])
    BY <2>1
  <2> QED  BY <2>1, <2>2
<1>3. \A g \in Hdlrs : ~Serve(g)
  BY <1>1, ServeFrame
<1> QED  BY <1>1, <1>2, <1>3 DEF Next, Route, RouteFails, Fail, ConnectionLost, ConnHdlr,
              CreateExpect, DestroyExpect, Unregister, TakeOver, Call, Trigger, Release, Finish,
              IutSends, vars

\* The ConnHdlr that a PDU is forwarded to.
LEMMA OnlyForwarded ==
  ASSUME TypeOK, NEW k, NEW g \in Hdlrs, Forward(k, g), NEW h \in Hdlrs,
         Len(inbox'[h]) > Len(inbox[h])
  PROVE  h = g
<1>1. Len(inbox[h]) \in Nat
  BY DEF TypeOK
<1>2. inbox'[h] # inbox[h]
  BY <1>1
<1> QED  BY <1>2 DEF Forward, TypeOK

\* It is the one in charge of the IMSI, or the one before it.
LEMMA RoutedToUserStep ==
  ASSUME GSUPInv, UseInv, [Next]_vars, NEW h \in Hdlrs, Len(inbox'[h]) > Len(inbox[h])
  PROVE  LET k == Head(gsup) IN
           k \in wild \/ user[k] = h \/ call[user[k]] = [op |-> "change", imsi |-> k]
<1>1. PICK k \in Imsis : RouteKnown(k) \/ RouteExpected(k)
  BY LongerIsForwarded
<1>2. k = Head(gsup) /\ gsup # <<>> /\ TypeOK
  BY <1>1 DEF RouteKnown, RouteExpected, ReceivePdu, GSUPInv
<1>3. ASSUME k \notin wild
      PROVE  user[k] = h \/ call[user[k]] = [op |-> "change", imsi |-> k]
  <2>1. Used(k) /\ stage[k] \in {"talking", "heard"}
    BY <1>2, <1>3, HeadUnderWay DEF UseInv, Used
  <2>2. CASE RouteKnown(k)
    <3>1. Owner(k) \in Hdlrs /\ Forward(k, Owner(k)) /\ Owner(k) # Nobody
      BY <2>2, OwnerKnown DEF RouteKnown
    <3>2. h = Owner(k)
      BY <1>2, <3>1, OnlyForwarded
    <3> QED  BY <2>1, <3>1, <3>2 DEF Used, TalkingUse, HeardUse, OnlyCalls
  <2>3. CASE RouteExpected(k)
    <3>1. PICK g \in Hdlrs : Forward(k, g) /\ Expecting(k, g) > 0
      BY <2>3, RouteExpectedTables
    <3>2. h = g /\ ~NoneExpects(k)
      BY <1>2, <3>1, OnlyForwarded DEF NoneExpects
    <3>3. OnlyExpects(k, user[k])
      BY <2>1, <3>2 DEF Used, TalkingUse, HeardUse
    <3> QED  BY <3>1, <3>2, <3>3 DEF OnlyExpects
  <2> QED  BY <1>1, <2>2, <2>3
<1> QED  BY <1>2, <1>3

\* Every PDU of an IMSI used with discipline goes to the ConnHdlr in charge of it,
\* or while that one waits to take over, to the one before it.
THEOREM GSUPRoutedToUser == Spec => RoutedToUser
<1>1. GSUPInv /\ UseInv /\ [Next]_vars =>
         [\A h \in Hdlrs : Len(inbox'[h]) > Len(inbox[h]) =>
            LET k == Head(gsup) IN
              \/ k \in wild \/ user[k] = h
              \/ call[user[k]] = [op |-> "change", imsi |-> k]]_vars
  BY RoutedToUserStep
<1> QED  BY <1>1, GSUPInvariant, GSUPUse, PTL DEF Spec, RoutedToUser

-----------------------------------------------------------------------------
(* Tables with a slot for each IMSI never fail. *)

\* sizeof(GsupImsiTable) and sizeof(GsupExpectTable) are as much as the testcase needs.
Roomy ==
    /\ IsFiniteSet(Imsis)
    /\ Cardinality(Imsis) <= ImsiSlots /\ Cardinality(Imsis) <= ExpectSlots

\* A table with a slot for each IMSI has room for one it does not hold.
LEMMA Room ==
  ASSUME NEW n \in Nat, NEW table \in [1 .. n -> Entries], OneEntry(table),
         IsFiniteSet(Imsis), Cardinality(Imsis) <= n,
         NEW k \in Imsis, Slots(table, k) = {}
  PROVE  Fits(table)
<1> SUFFICES ASSUME ~Fits(table)  PROVE FALSE
  OBVIOUS
<1> DEFINE f == [i \in 1 .. n |-> table[i].imsi]
           S == 1 .. n
           T == Imsis \ {k}
<1>1. f \in Injection(S, T)
  <2>1. \A i \in S : table[i].imsi \in T
    BY DEF Fits, Slots, Entries, Free
  <2>2. \A i, j \in S : f[i] = f[j] => i = j
    BY <2>1, NullAssumption DEF OneEntry
  <2> QED  BY <2>1, <2>2 DEF Injection, IsInjective
<1>2. IsFiniteSet(T) /\ Cardinality(T) = Cardinality(Imsis) - 1
  BY FS_RemoveElement
<1>3. Cardinality(S) = n
  BY FS_Interval
<1> HIDE DEF f, S, T
<1>4. Cardinality(S) <= Cardinality(T)
  BY <1>1, <1>2, FS_Injection
<1>5. Cardinality(Imsis) \in Nat
  BY FS_CardinalityType
<1> QED  BY <1>2, <1>3, <1>4, <1>5

\* An IMSI used with discipline is in GsupExpectTable once at most.
LEMMA ExpectedOnce ==
  ASSUME GSUPInv, NEW k \in Imsis, Used(k),
         NEW i \in 1 .. ExpectSlots, GsupExpectTable[i].imsi = k,
         NEW j \in 1 .. ExpectSlots, GsupExpectTable[j].imsi = k
  PROVE  i = j
<1> DEFINE g == GsupExpectTable[i].comp
           S == SlotsOf(GsupExpectTable, k, g)
<1>1. g \in Hdlrs /\ GsupExpectTable[j].comp \in Hdlrs
  BY TablesAre, NullAssumption DEF Entries, Free
<1>2. NoneExpects(k) \/ \E h \in Hdlrs : OnlyExpects(k, h)
  BY DEF Used, FreeUse, ClaimedUse, TalkingUse, HeardUse, OverUse, Alive
<1>3. \A h \in Hdlrs, l \in 1 .. ExpectSlots :
         GsupExpectTable[l].imsi = k /\ GsupExpectTable[l].comp = h => Expecting(k, h) > 0
  BY TablesAre, ExpectsCleared DEF Expecting
<1>4. Expecting(k, g) = 1 /\ GsupExpectTable[j].comp = g
  BY <1>1, <1>2, <1>3 DEF NoneExpects, OnlyExpects
<1>5. i \in S /\ j \in S
  BY <1>4, TablesAre DEF SlotsOf, Slots
<1>6. IsFiniteSet(S) /\ Cardinality(S) = 1
  BY <1>4, TablesAre, ExpectingFinite DEF Expecting, Expects
<1> HIDE DEF S
<1>7. \E x : S = {x}
  BY <1>6, FS_Singleton
<1> QED  BY <1>5, <1>7

\* A new expect finds a free slot.
LEMMA ExpectFits ==
  ASSUME Roomy, GSUPInv, UseInv, wild = {}, NEW k \in Imsis, NoneExpects(k)
  PROVE  Fits(GsupExpectTable)
<1>1. OneEntry(GsupExpectTable)
  <2> SUFFICES ASSUME NEW i \in 1 .. ExpectSlots, NEW j \in 1 .. ExpectSlots,
                      GsupExpectTable[i].imsi = GsupExpectTable[j].imsi,
                      GsupExpectTable[i].imsi # NoImsi
               PROVE  i = j
    BY TablesAre DEF OneEntry
  <2>1. GsupExpectTable[i].imsi \in Imsis
    BY TablesAre DEF Entries, Free
  <2> QED  BY <2>1, ExpectedOnce DEF UseInv
<1>2. Slots(GsupExpectTable, k) = {}
  <2> SUFFICES ASSUME NEW i \in 1 .. ExpectSlots, GsupExpectTable[i].imsi = k  PROVE FALSE
    BY TablesAre DEF Slots
  <2> DEFINE g == GsupExpectTable[i].comp
  <2>1. g \in Hdlrs
    BY TablesAre, NullAssumption DEF Entries, Free
  <2>2. Expecting(k, g) > 0
    BY <2>1, TablesAre, ExpectsCleared DEF Expecting
  <2> QED  BY <2>1, <2>2 DEF NoneExpects
<1> QED  BY <1>1, <1>2, TablesAre, Room DEF Roomy

\* Every PDU finds its ConnHdlr, whose behaviour is not over.
LEMMA RouteNeverFails ==
  ASSUME Roomy, GSUPInv, UseInv, wild = {}, Route
  PROVE  outcome' = "running"
<1>1. PICK k \in Imsis : RouteKnown(k) \/ RouteExpected(k) \/ RouteFails(k)
  BY DEF Route
<1>2. /\ outcome = "running" /\ Used(k) /\ stage[k] \in {"talking", "heard"}
  <2>1. k = Head(gsup) /\ gsup # <<>> /\ TypeOK /\ outcome = "running"
    BY <1>1 DEF RouteKnown, RouteExpected, RouteFails, ReceivePdu, Dispatcher, GSUPInv
  <2> QED  BY <2>1, HeadUnderWay DEF UseInv, Used
<1>3. CASE RouteKnown(k)
  <2>1. Owner(k) \in Hdlrs /\ Forward(k, Owner(k)) /\ Owner(k) # Nobody
    BY <1>3, OwnerKnown DEF RouteKnown
  <2>2. Owner(k) \in Alive
    BY <1>2, <2>1 DEF Used, TalkingUse, HeardUse
  <2> QED  BY <1>2, <2>1, <2>2 DEF Forward, Alive
<1>4. CASE RouteExpected(k)
  <2>1. PICK h \in Hdlrs : Forward(k, h) /\ Expecting(k, h) > 0
    BY <1>4, RouteExpectedTables
  <2>2. OnlyExpects(k, user[k]) /\ user[k] \in Alive
    BY <1>2, <2>1 DEF Used, TalkingUse, HeardUse, NoneExpects
  <2>3. h = user[k]
    BY <2>1, <2>2 DEF OnlyExpects
  <2> QED  BY <1>2, <2>1, <2>2, <2>3 DEF Forward, Alive
<1>5. CASE RouteFails(k)
  <2>1. Slots(GsupImsiTable, k) = {}
    BY <1>5 DEF RouteFails, Known
  <2>2. Fits(GsupImsiTable)
    BY <2>1, TablesAre, Room DEF Roomy
  <2>3. Owner(k) = Nobody /\ Slots(GsupExpectTable, k) = {}
    BY <1>5, <2>1, <2>2, OwnerKnown DEF RouteFails
  <2>4. OnlyExpects(k, user[k]) /\ user[k] \in Hdlrs
    BY <1>2, <2>3, NullAssumption DEF Used, TalkingUse, HeardUse, Alive
  <2>5. SlotsOf(GsupExpectTable, k, user[k]) = {}
    BY <2>3 DEF SlotsOf
  <2>6. Expecting(k, user[k]) = 0
    BY <2>5, FS_EmptySet DEF Expecting, Expects
  <2> QED  BY <2>4, <2>6 DEF OnlyExpects
<1> QED  BY <1>1, <1>3, <1>4, <1>5

\* Every call is answered.
LEMMA ServeNeverFails ==
  ASSUME Roomy, GSUPInv, UseInv, wild = {}, NEW h \in Hdlrs, Serve(h)
  PROVE  outcome' = "running"
<1> DEFINE k == call[h].imsi
<1>1. outcome = "running" /\ k \in Imsis \ wild
  BY ServeFrame
<1>2. CASE RegisterExpect(h)
  <2>1. NoneExpects(k)
    BY <1>1, <1>2, CallUse DEF RegisterExpect, Getcall
  <2> QED  BY <1>1, <1>2, <2>1, ExpectFits DEF RegisterExpect, Reply
<1>3. CASE UnregisterExpect(h)
  <2>1. OnlyExpects(k, h)
    BY <1>1, <1>3, CallUse DEF UnregisterExpect, Getcall
  <2>2. Expecting(k, h) = 1
    BY <2>1 DEF OnlyExpects
  <2>3. Matching(h) # {}
    BY <2>2, FS_EmptySet DEF Matching, Expecting, Expects
  <2> QED  BY <1>1, <1>3, <2>3 DEF UnregisterExpect, Reply
<1>4. CASE UnregisterConnHdlr(h)
  <2>1. Owner(k) \in Hdlrs
    BY <1>1, <1>4, CallUse DEF UnregisterConnHdlr, Getcall
  <2>2. Known(k)
    BY <1>1, <2>1, OwnerKnown, NullAssumption
  <2> QED  BY <1>1, <1>4, <2>2 DEF UnregisterConnHdlr, Reply
<1>5. CASE ChangeConnHdlr(h)
  <2>1. Owner(k) \in Hdlrs
    BY <1>1, <1>5, CallUse DEF ChangeConnHdlr, Getcall, HeardUse, Alive
  <2>2. Known(k)
    BY <1>1, <2>1, OwnerKnown, NullAssumption
  <2> QED  BY <1>1, <1>5, <2>2 DEF ChangeConnHdlr, Reply
<1> QED  BY <1>2, <1>3, <1>4, <1>5 DEF Serve

\* How the IMSIs are used does not change.
LEMMA WildStays ==
  ASSUME [Next]_vars
  PROVE  wild' = wild
<1>1. ASSUME NEW h \in Hdlrs, ConnHdlr(h)
      PROVE  wild' = wild
  BY <1>1 DEF ConnHdlr, CreateExpect, DestroyExpect, Unregister, TakeOver, Trigger, Release, ReadPdu,
       Finish, Use, testcase
<1>2. CASE Route
  BY <1>2 DEF Route, RouteKnown, RouteExpected, RouteFails, ReceivePdu, Dispatcher, testcase
<1>3. ASSUME NEW h \in Hdlrs, Serve(h)
      PROVE  wild' = wild
  BY <1>3 DEF Serve, RegisterExpect, UnregisterExpect, UnregisterConnHdlr, ChangeConnHdlr, Getcall,
       Dispatcher, testcase
<1> QED  BY <1>1, <1>2, <1>3 DEF Next, ConnectionLost, Dispatcher, IutSends, vars, testcase

\* If all IMSIs are used with discipline and the tables have a slot for each, the
\* dispatcher never ends the testcase: no PDU is without its ConnHdlr, no call
\* without its entry, no table full.
THEOREM GSUPUsedNeverFails ==
  ASSUME Roomy
  PROVE  Spec => []UsedNeverFails
<1>1. Init => UsedNeverFails
  BY DEF Init, UsedNeverFails
<1>2. GSUPInv /\ UseInv /\ UsedNeverFails /\ [Next]_vars => UsedNeverFails'
  <2> SUFFICES ASSUME GSUPInv, UseInv, [Next]_vars, wild' = {}, outcome' = "failed", UsedNeverFails
               PROVE  FALSE
    BY DEF UsedNeverFails
  <2>1. CASE wild' = wild
    <3>1. outcome # "failed" /\ wild = {}
      BY <2>1 DEF UsedNeverFails
    <3>2. ~Route /\ \A h \in Hdlrs : ~Serve(h)
      BY <3>1, RouteNeverFails, ServeNeverFails
    <3> QED  BY <3>1, <3>2 DEF Next, ConnectionLost, ConnHdlr, CreateExpect, DestroyExpect, Unregister,
                 TakeOver, Call, Client, Trigger, Release, ReadPdu, Finish, IutSends, vars
  <2>2. wild' = wild
    BY WildStays
  <2> QED  BY <2>1, <2>2
<1> QED  BY <1>1, <1>2, GSUPInvariant, GSUPUse, PTL DEF Spec
=============================================================================
