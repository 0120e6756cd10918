-------------------------- MODULE FundUniverseProofs --------------------------
(***************************************************************************)
(* Theorems about FundUniverse, for any codes, names, files, requests and   *)
(* users, however their steps interleave: what an import that runs alone    *)
(* leaves behind, that a portfolio import selects all or nothing, and that  *)
(* the representative of a fund is its preferred share.                     *)
(*                                                                         *)
(* The tables are a value, the store; the lemmas of the first part say what *)
(* the operators on stores keep, those of the second what a request knows   *)
(* of the store while nobody else writes.                                   *)
(***************************************************************************)
EXTENDS FundUniverse, FiniteSetTheorems, WellFoundedInduction, TLAPS

-----------------------------------------------------------------------------
(* Stores.                                                                  *)

Funds == [rep : Codes, key : Keys, selected : BOOLEAN, dependency : BOOLEAN]

\* No two contracts have one representative code, every share is of a contract,
\* and there is no contract without a share.
IsStore(s) ==
  /\ s = [contract |-> s.contract, owner |-> s.owner, lastId |-> s.lastId]
  /\ s.lastId \in Nat
  /\ \A i \in DOMAIN s.contract : i \in 1..s.lastId /\ s.contract[i] \in Funds
  /\ \A i, j \in DOMAIN s.contract : s.contract[i].rep = s.contract[j].rep => i = j
  /\ \A c \in DOMAIN s.owner : c \in Codes /\ s.owner[c] \in DOMAIN s.contract
  /\ \A i \in DOMAIN s.contract : \E c \in DOMAIN s.owner : s.owner[c] = i

\* Every contract is named by the first of its shares.
FirstNames(s) ==
  \A i \in DOMAIN s.contract :
     /\ Owns(s, i, s.contract[i].rep)
     /\ \A c \in DOMAIN s.owner : s.owner[c] = i => Priority[s.contract[i].rep] <= Priority[c]

LEMMA PrioritiesAreNumbers ==
  /\ Cardinality(Codes) \in Nat /\ Worst \in Nat
  /\ \A c \in Codes : Priority[c] \in Nat /\ Priority[c] < Worst
<1>1. Cardinality(Codes) \in Nat  BY PriorityIsStrict, FS_CardinalityType
<1>2. \A c \in Codes : Priority[c] \in 1..Cardinality(Codes)  BY PriorityIsStrict
<1> QED  BY <1>1, <1>2 DEF Worst

LEMMA HolderIsAlone ==
  ASSUME NEW s, IsStore(s), NEW code, NEW i \in Holders(s, code)
  PROVE  Holders(s, code) = {i} /\ i \in DOMAIN s.contract /\ s.contract[i].rep = code
BY DEF Holders, IsStore

\* A set of naturals that is not empty has a least element.
LEMMA LeastNatural ==
  ASSUME NEW S \in SUBSET Nat, S # {}
  PROVE  \E m \in S : \A n \in S : m <= n
<1>1. IsWellFoundedOn(OpToRel(<, Nat), Nat)  BY NatLessThanWellFounded
<1>2. PICK m \in S : \A n \in S : ~ (<<n, m>> \in OpToRel(<, Nat))
  BY <1>1, WFMin
<1>3. \A n \in S : ~ (n < m)  BY <1>2 DEF OpToRel
<1> QED  BY <1>3

\* Of some contracts there is one to keep.
LEMMA OneIsPreferred ==
  ASSUME NEW s, IsStore(s), NEW ids \in SUBSET (DOMAIN s.contract), ids # {}
  PROVE  /\ Preferred(s, ids) \in ids
         /\ \A j \in ids : RepPriority(s, Preferred(s, ids)) <= RepPriority(s, j)
<1> DEFINE all == {RepPriority(s, i) : i \in ids}
<1>1. \A i \in ids : RepPriority(s, i) \in Nat
  BY PrioritiesAreNumbers DEF RepPriority, IsStore, Funds
<1>2. \A n \in all : n \in Nat  BY <1>1
<1>3. all \in SUBSET Nat /\ all # {}  BY <1>2
<1>4. PICK m \in all : \A n \in all : m <= n
  <2> HIDE DEF all
  <2> QED  BY <1>3, LeastNatural
<1>5. \A j \in ids : RepPriority(s, j) \in all  OBVIOUS
<1>6. \E i \in ids : \A j \in ids : RepPriority(s, i) <= RepPriority(s, j)
  BY <1>4, <1>5
<1> QED  BY <1>6 DEF Preferred

\* What a contract is that absorbs others, or is left alone.
LEMMA AbsorbKeeps ==
  ASSUME NEW s, IsStore(s), NEW into,
         \A i \in DOMAIN into : /\ into[i] \in DOMAIN into /\ into[i] \in DOMAIN s.contract
                                /\ into[into[i]] = into[i]
  PROVE  LET t == Absorb(s, into)
         IN /\ IsStore(t)
            /\ DOMAIN t.owner = DOMAIN s.owner
            /\ \A c \in DOMAIN s.owner :
                  t.owner[c] = IF s.owner[c] \in DOMAIN into THEN into[s.owner[c]] ELSE s.owner[c]
            /\ DOMAIN t.contract = {i \in DOMAIN s.contract : i \in DOMAIN into => into[i] = i}
            /\ \A i \in DOMAIN t.contract :
                  t.contract[i].rep = s.contract[i].rep /\ t.contract[i].key = s.contract[i].key
<1> DEFINE t == Absorb(s, into)
           kept == {i \in DOMAIN s.contract : i \in DOMAIN into => into[i] = i}
           moved(c) == IF s.owner[c] \in DOMAIN into THEN into[s.owner[c]] ELSE s.owner[c]
<1>1. /\ t = [contract |-> t.contract, owner |-> t.owner, lastId |-> t.lastId]
      /\ t.lastId = s.lastId /\ DOMAIN t.contract = kept /\ DOMAIN t.owner = DOMAIN s.owner
      /\ \A c \in DOMAIN s.owner : t.owner[c] = moved(c)
  BY DEF Absorb
<1>2. ASSUME NEW i \in kept
      PROVE  /\ t.contract[i].rep = s.contract[i].rep /\ t.contract[i].key = s.contract[i].key
             /\ t.contract[i] \in Funds
  <2>1. s.contract[i] \in Funds  BY DEF IsStore
  <2> QED  BY <2>1 DEF Absorb, Contract, Funds
<1>3. \A c \in DOMAIN s.owner : moved(c) \in kept  BY DEF IsStore
<1>4. ASSUME NEW i \in kept  PROVE \E c \in DOMAIN t.owner : t.owner[c] = i
  <2>1. PICK c \in DOMAIN s.owner : s.owner[c] = i  BY DEF IsStore
  <2>2. moved(c) = i  BY <2>1
  <2> QED  BY <1>1, <2>2
<1> HIDE DEF t, moved
<1>5. IsStore(t)  BY <1>1, <1>2, <1>3, <1>4 DEF IsStore
<1> QED  BY <1>1, <1>2, <1>5 DEF t, moved

\* A merge keeps the first share's name if it keeps the contract that has it.
LEMMA AbsorbNames ==
  ASSUME NEW s, IsStore(s), FirstNames(s), NEW into, DOMAIN into \subseteq DOMAIN s.contract,
         \A i \in DOMAIN into : /\ into[i] \in DOMAIN into /\ into[into[i]] = into[i]
                                /\ RepPriority(s, into[i]) <= RepPriority(s, i)
  PROVE  FirstNames(Absorb(s, into))
<1> DEFINE t == Absorb(s, into)
<1>1. /\ DOMAIN t.owner = DOMAIN s.owner
      /\ \A c \in DOMAIN s.owner :
            t.owner[c] = IF s.owner[c] \in DOMAIN into THEN into[s.owner[c]] ELSE s.owner[c]
      /\ DOMAIN t.contract = {i \in DOMAIN s.contract : i \in DOMAIN into => into[i] = i}
      /\ \A i \in DOMAIN t.contract : t.contract[i].rep = s.contract[i].rep
  BY AbsorbKeeps
<1>2. \A i \in DOMAIN s.contract : /\ s.contract[i].rep \in Codes
                                   /\ RepPriority(s, i) = Priority[s.contract[i].rep]
  BY DEF FirstNames, RepPriority, IsStore, Funds
<1> HIDE DEF t
<1>3. SUFFICES ASSUME NEW i \in DOMAIN t.contract
               PROVE  /\ Owns(t, i, t.contract[i].rep)
                      /\ \A c \in DOMAIN t.owner :
                            t.owner[c] = i => Priority[t.contract[i].rep] <= Priority[c]
  BY DEF FirstNames, t
<1>4. Owns(t, i, t.contract[i].rep)  BY <1>1 DEF FirstNames, Owns
<1>5. ASSUME NEW c \in DOMAIN t.owner, t.owner[c] = i
      PROVE  Priority[t.contract[i].rep] <= Priority[c]
  <2> DEFINE j == s.owner[c]
  <2>1. j \in DOMAIN s.contract /\ c \in Codes  BY <1>1 DEF IsStore
  <2>2. Priority[s.contract[j].rep] <= Priority[c]  BY <1>1, <2>1 DEF FirstNames
  <2>3. i \in DOMAIN s.contract /\ t.contract[i].rep = s.contract[i].rep  BY <1>1
  <2>4. Priority[s.contract[i].rep] <= Priority[s.contract[j].rep]
    <3>1. CASE j \in DOMAIN into
      <4>1. into[j] = i  BY <1>1, <1>5, <3>1
      <4> QED  BY <1>2, <2>1, <2>3, <3>1, <4>1
    <3>2. CASE j \notin DOMAIN into
      <4>1. j = i  BY <1>1, <1>5, <3>2
      <4>2. Priority[s.contract[i].rep] \in Nat  BY <1>2, <2>3, PrioritiesAreNumbers
      <4> QED  BY <4>1, <4>2
    <3> QED  BY <3>1, <3>2
  <2>5. Priority[s.contract[i].rep] \in Nat /\ Priority[s.contract[j].rep] \in Nat /\ Priority[c] \in Nat
    BY <1>2, <2>1, <2>3, PrioritiesAreNumbers
  <2> HIDE DEF j
  <2> QED  BY <2>2, <2>3, <2>4, <2>5
<1> QED  BY <1>4, <1>5

-----------------------------------------------------------------------------
(* Rows that are upserted.                                                  *)

\* What import_universe is given: one row per representative and share.
RowsFit(rows) ==
  /\ IsFiniteSet(rows)
  /\ \A row \in rows : /\ row.rep \in Codes /\ row.key \in Keys /\ row.enabled \in BOOLEAN
                       /\ row.shares \subseteq Codes /\ row.shares # {}
  /\ \A q, r \in rows : q # r => q.rep # r.rep /\ q.shares \cap r.shares = {}

LEMMA ContractColumns ==
  ASSUME NEW code \in Codes, NEW key \in Keys, NEW on \in BOOLEAN, NEW dependency \in BOOLEAN
  PROVE  LET row == Contract(code, key, on, dependency)
         IN /\ row \in Funds /\ row.rep = code /\ row.key = key
            /\ row.selected = on /\ row.dependency = dependency
BY DEF Contract, Funds

\* The contract of a row.
RowFund(row) == Contract(row.rep, row.key, row.enabled, FALSE)

LEMMA RowFundColumns ==
  ASSUME NEW rows, RowsFit(rows), NEW row \in rows
  PROVE  /\ RowFund(row) \in Funds /\ RowFund(row).rep = row.rep /\ RowFund(row).key = row.key
         /\ RowFund(row).selected = row.enabled /\ RowFund(row).dependency = FALSE
<1> DEFINE no == FALSE
           new == Contract(row.rep, row.key, row.enabled, no)
<1>1. row.rep \in Codes /\ row.key \in Keys /\ row.enabled \in BOOLEAN /\ no \in BOOLEAN
  BY DEF RowsFit
<1> HIDE DEF no
<1>2. /\ new \in Funds /\ new.rep = row.rep /\ new.key = row.key
      /\ new.selected = row.enabled /\ new.dependency = no
  BY <1>1, ContractColumns
<1>3. RowFund(row) = new  BY DEF RowFund, no
<1> HIDE DEF new
<1> QED  BY <1>2, <1>3 DEF no

\* t is s with these rows, id[row] being the contract of a row.
HasRows(t, s, rows, id) ==
  /\ DOMAIN t.contract = DOMAIN s.contract \cup {id[row] : row \in rows}
  /\ \A row \in rows : t.contract[id[row]] = RowFund(row)
  /\ \A i \in DOMAIN s.contract :
        (\A row \in rows : id[row] # i) => t.contract[i] = s.contract[i]
  /\ DOMAIN t.owner = DOMAIN s.owner \cup UNION {row.shares : row \in rows}
  /\ \A row \in rows : \A c \in row.shares : t.owner[c] = id[row]
  /\ \A c \in DOMAIN s.owner : (\A row \in rows : c \notin row.shares) => t.owner[c] = s.owner[c]

\* Where a row goes: to the contract it names or to a new one, from which nobody
\* takes a share.
IsPlaced(s, rows, id) ==
  /\ \A q, r \in rows : id[q] = id[r] => q = r
  /\ \A row \in rows : \/ id[row] \in Holders(s, row.rep)
                       \/ Holders(s, row.rep) = {} /\ id[row] > s.lastId
  /\ \A row \in rows : \A c \in row.shares \cap DOMAIN s.owner : s.owner[c] = id[row]

LEMMA NewIdsAreCounted ==
  ASSUME NEW s, IsStore(s), NEW rows, RowsFit(rows)
  PROVE  Cardinality(NewRows(s, rows)) \in Nat
<1>1. NewRows(s, rows) \subseteq rows /\ IsFiniteSet(rows)  BY DEF NewRows, RowsFit
<1> QED  BY <1>1, FS_Subset, FS_CardinalityType

LEMMA RowsArePlaced ==
  ASSUME NEW s, IsStore(s), NEW rows, RowsFit(rows), NEW id \in Assignments(s, rows),
         \A row \in rows : ~Conflicts(s, row)
  PROVE  IsPlaced(s, rows, id)
<1>1. \A q, r \in rows : id[q] = id[r] => q = r  BY DEF Assignments
<1>2. ASSUME NEW row \in rows
      PROVE  \/ id[row] \in Holders(s, row.rep)
             \/ Holders(s, row.rep) = {} /\ id[row] > s.lastId
  BY DEF Assignments, NewRows
<1>3. ASSUME NEW row \in rows, NEW c \in row.shares \cap DOMAIN s.owner  PROVE s.owner[c] = id[row]
  <2>1. Holders(s, row.rep) = {s.owner[c]}  BY <1>3 DEF Conflicts
  <2> QED  BY <1>2, <1>3, <2>1
<1> QED  BY <1>1, <1>2, <1>3 DEF IsPlaced

LEMMA UpsertedHasRows ==
  ASSUME NEW s, IsStore(s), NEW rows, RowsFit(rows), NEW id, IsPlaced(s, rows, id)
  PROVE  HasRows(Upserted(s, rows, id), s, rows, id)
<1> DEFINE t == Upserted(s, rows, id)
           ids == {id[row] : row \in rows}
           shares == UNION {row.shares : row \in rows}
<1>1. /\ DOMAIN t.contract = DOMAIN s.contract \cup ids
      /\ DOMAIN t.owner = DOMAIN s.owner \cup shares
      /\ \A i \in DOMAIN s.contract : i \notin ids => t.contract[i] = s.contract[i]
      /\ \A c \in DOMAIN s.owner : c \notin shares => t.owner[c] = s.owner[c]
  BY DEF Upserted
<1>2. ASSUME NEW row \in rows
      PROVE  t.contract[id[row]] = RowFund(row)
  <2> DEFINE chosen == CHOOSE r \in rows : id[r] = id[row]
  <2>1. id[row] \in ids  OBVIOUS
  <2>2. t.contract[id[row]] = Contract(chosen.rep, chosen.key, chosen.enabled, FALSE)
    BY <2>1 DEF Upserted
  <2>3. chosen \in rows /\ id[chosen] = id[row]  OBVIOUS
  <2>4. chosen = row  BY <2>3 DEF IsPlaced
  <2> QED  BY <2>2, <2>4 DEF RowFund
<1>3. ASSUME NEW row \in rows, NEW c \in row.shares  PROVE t.owner[c] = id[row]
  <2> DEFINE chosen == CHOOSE r \in rows : c \in r.shares
  <2>1. c \in shares  BY <1>3
  <2>2. t.owner[c] = id[chosen]  BY <2>1 DEF Upserted
  <2>3. chosen \in rows /\ c \in chosen.shares  BY <1>3
  <2>4. chosen = row  BY <1>3, <2>3 DEF RowsFit
  <2> QED  BY <2>2, <2>4
<1> QED  BY <1>1, <1>2, <1>3 DEF HasRows

LEMMA UpsertKeeps ==
  ASSUME NEW s, IsStore(s), NEW rows, RowsFit(rows), NEW id, IsPlaced(s, rows, id),
         \A row \in rows : id[row] \in 1..(s.lastId + Cardinality(NewRows(s, rows)))
  PROVE  IsStore(Upserted(s, rows, id))
<1> DEFINE t == Upserted(s, rows, id)
<1>1. HasRows(t, s, rows, id)  BY UpsertedHasRows
<1>2. Cardinality(NewRows(s, rows)) \in Nat  BY NewIdsAreCounted
<1>3. /\ t = [contract |-> t.contract, owner |-> t.owner, lastId |-> t.lastId]
      /\ t.lastId = s.lastId + Cardinality(NewRows(s, rows))
  BY DEF Upserted
<1>4. t.lastId \in Nat /\ s.lastId <= t.lastId /\ s.lastId \in Nat  BY <1>2, <1>3 DEF IsStore
<1> HIDE DEF t
<1>5. ASSUME NEW i \in DOMAIN t.contract
      PROVE  \/ \E row \in rows : i = id[row]
             \/ i \in DOMAIN s.contract /\ (\A row \in rows : id[row] # i) /\ t.contract[i] = s.contract[i]
  BY <1>1 DEF HasRows
<1>6. ASSUME NEW i \in DOMAIN t.contract  PROVE i \in 1..t.lastId /\ t.contract[i] \in Funds
  <2>1. ASSUME NEW row \in rows, i = id[row]  PROVE i \in 1..t.lastId /\ t.contract[i] \in Funds
    <3>1. t.contract[i] \in Funds  BY <1>1, <2>1, RowFundColumns DEF HasRows
    <3>2. i \in 1..t.lastId  BY <1>3, <2>1
    <3> QED  BY <3>1, <3>2
  <2>2. ASSUME i \in DOMAIN s.contract, t.contract[i] = s.contract[i]
        PROVE  i \in 1..t.lastId /\ t.contract[i] \in Funds
    BY <1>4, <2>2 DEF IsStore
  <2> QED  BY <1>5, <2>1, <2>2
<1>7. ASSUME NEW i \in DOMAIN t.contract, NEW j \in DOMAIN t.contract,
             t.contract[i].rep = t.contract[j].rep
      PROVE  i = j
  <2>1. ASSUME NEW row \in rows, NEW k \in DOMAIN s.contract, \A r \in rows : id[r] # k
        PROVE  t.contract[id[row]].rep # s.contract[k].rep
    <3>1. t.contract[id[row]].rep = row.rep  BY <1>1, RowFundColumns DEF HasRows
    <3>2. SUFFICES ASSUME s.contract[k].rep = row.rep  PROVE FALSE  BY <3>1
    <3>3. k \in Holders(s, row.rep)  BY <2>1, <3>2 DEF Holders
    <3>4. Holders(s, row.rep) = {k}  BY <3>3, HolderIsAlone
    <3> QED  BY <2>1, <3>3, <3>4 DEF IsPlaced
  <2>2. ASSUME NEW q \in rows, NEW r \in rows, i = id[q], j = id[r]  PROVE i = j
    <3>1. t.contract[i].rep = q.rep /\ t.contract[j].rep = r.rep
      BY <1>1, <2>2, RowFundColumns DEF HasRows
    <3> QED  BY <1>7, <2>2, <3>1 DEF RowsFit
  <2>3. ASSUME i \in DOMAIN s.contract, j \in DOMAIN s.contract, t.contract[i] = s.contract[i],
               t.contract[j] = s.contract[j]
        PROVE  i = j
    BY <1>7, <2>3 DEF IsStore
  <2> QED  BY <1>5, <1>7, <2>1, <2>2, <2>3
<1>8. ASSUME NEW c \in DOMAIN t.owner  PROVE c \in Codes /\ t.owner[c] \in DOMAIN t.contract
  <2>1. ASSUME NEW row \in rows, c \in row.shares  PROVE c \in Codes /\ t.owner[c] \in DOMAIN t.contract
    BY <1>1, <2>1 DEF HasRows, RowsFit
  <2>2. ASSUME \A row \in rows : c \notin row.shares
        PROVE  c \in Codes /\ t.owner[c] \in DOMAIN t.contract
    <3>1. c \in DOMAIN s.owner /\ t.owner[c] = s.owner[c]  BY <1>1, <2>2 DEF HasRows
    <3> QED  BY <1>1, <3>1 DEF IsStore, HasRows
  <2> QED  BY <2>1, <2>2
<1>9. ASSUME NEW i \in DOMAIN t.contract  PROVE \E c \in DOMAIN t.owner : t.owner[c] = i
  <2>1. ASSUME NEW row \in rows, i = id[row]  PROVE \E c \in DOMAIN t.owner : t.owner[c] = i
    BY <1>1, <2>1 DEF HasRows, RowsFit
  <2>2. ASSUME i \in DOMAIN s.contract  PROVE \E c \in DOMAIN t.owner : t.owner[c] = i
    <3>1. PICK c \in DOMAIN s.owner : s.owner[c] = i  BY <2>2 DEF IsStore
    <3>2. c \in DOMAIN t.owner  BY <1>1, <3>1 DEF HasRows
    <3>3. ASSUME NEW row \in rows, c \in row.shares  PROVE t.owner[c] = i
      BY <1>1, <3>1, <3>3 DEF HasRows, IsPlaced
    <3>4. (\A row \in rows : c \notin row.shares) => t.owner[c] = i  BY <1>1, <3>1 DEF HasRows
    <3> QED  BY <3>2, <3>3, <3>4
  <2> QED  BY <1>5, <2>1, <2>2
<1>10. IsStore(t)  BY <1>3, <1>4, <1>6, <1>7, <1>8, <1>9 DEF IsStore
<1> QED  BY <1>10 DEF t

\* Rows that are named after the first of their shares leave it so everywhere.
LEMMA UpsertNames ==
  ASSUME NEW s, IsStore(s), FirstNames(s), NEW rows, RowsFit(rows), NEW id, IsPlaced(s, rows, id),
         \A row \in rows : /\ Holders(s, row.rep) = {} => row.rep \in row.shares
                           /\ \A c \in row.shares : Priority[row.rep] <= Priority[c]
  PROVE  FirstNames(Upserted(s, rows, id))
<1> DEFINE t == Upserted(s, rows, id)
<1>1. HasRows(t, s, rows, id)  BY UpsertedHasRows
<1> HIDE DEF t
<1>2. ASSUME NEW row \in rows
      PROVE  /\ Owns(t, id[row], row.rep)
             /\ \A c \in DOMAIN t.owner : t.owner[c] = id[row] => Priority[row.rep] <= Priority[c]
  <2>1. Owns(t, id[row], row.rep)
    <3>1. CASE row.rep \in row.shares  BY <1>1, <3>1 DEF HasRows, Owns
    <3>2. CASE row.rep \notin row.shares
      <4>1. id[row] \in Holders(s, row.rep)  BY <3>2 DEF IsPlaced
      <4>2. Owns(s, id[row], row.rep)  BY <4>1, HolderIsAlone DEF FirstNames
      <4>3. ASSUME NEW r \in rows, row.rep \in r.shares  PROVE r = row
        BY <4>2, <4>3 DEF IsPlaced, Owns
      <4> QED  BY <1>1, <3>2, <4>2, <4>3 DEF HasRows, Owns
    <3> QED  BY <3>1, <3>2
  <2>2. ASSUME NEW c \in DOMAIN t.owner, t.owner[c] = id[row]  PROVE Priority[row.rep] <= Priority[c]
    <3>1. ASSUME NEW r \in rows, c \in r.shares  PROVE Priority[row.rep] <= Priority[c]
      <4>1. t.owner[c] = id[r]  BY <1>1, <3>1 DEF HasRows
      <4>2. r = row  BY <2>2, <4>1 DEF IsPlaced
      <4> QED  BY <3>1, <4>2
    <3>2. ASSUME \A r \in rows : c \notin r.shares  PROVE Priority[row.rep] <= Priority[c]
      <4>1. c \in DOMAIN s.owner /\ s.owner[c] = id[row]  BY <1>1, <2>2, <3>2 DEF HasRows
      <4>2. id[row] \in 1..s.lastId /\ s.lastId \in Nat  BY <4>1 DEF IsStore
      <4>3. id[row] \in Holders(s, row.rep)  BY <4>2 DEF IsPlaced
      <4> QED  BY <4>1, <4>3, HolderIsAlone DEF FirstNames
    <3> QED  BY <3>1, <3>2
  <2> QED  BY <2>1, <2>2
<1>3. ASSUME NEW i \in DOMAIN s.contract, \A row \in rows : id[row] # i
      PROVE  /\ Owns(t, i, s.contract[i].rep)
             /\ \A c \in DOMAIN t.owner : t.owner[c] = i => Priority[s.contract[i].rep] <= Priority[c]
  <2>1. Owns(s, i, s.contract[i].rep)  BY DEF FirstNames
  <2>2. \A row \in rows : s.contract[i].rep \notin row.shares  BY <1>3, <2>1 DEF IsPlaced, Owns
  <2>3. Owns(t, i, s.contract[i].rep)  BY <1>1, <2>1, <2>2 DEF HasRows, Owns
  <2>4. ASSUME NEW c \in DOMAIN t.owner, t.owner[c] = i
        PROVE  Priority[s.contract[i].rep] <= Priority[c]
    <3>1. \A row \in rows : c \notin row.shares  BY <1>1, <1>3, <2>4 DEF HasRows
    <3>2. c \in DOMAIN s.owner /\ s.owner[c] = i  BY <1>1, <2>4, <3>1 DEF HasRows
    <3> QED  BY <3>2 DEF FirstNames
  <2> QED  BY <2>3, <2>4
<1>4. FirstNames(t)
  <2> SUFFICES ASSUME NEW i \in DOMAIN t.contract
               PROVE  /\ Owns(t, i, t.contract[i].rep)
                      /\ \A c \in DOMAIN t.owner :
                            t.owner[c] = i => Priority[t.contract[i].rep] <= Priority[c]
    BY DEF FirstNames
  <2>1. ASSUME NEW row \in rows, i = id[row]  PROVE t.contract[i].rep = row.rep
    BY <1>1, <2>1, RowFundColumns DEF HasRows
  <2>2. ASSUME \A row \in rows : id[row] # i
        PROVE  i \in DOMAIN s.contract /\ t.contract[i].rep = s.contract[i].rep
    BY <1>1, <2>2 DEF HasRows
  <2>3. CASE \E row \in rows : i = id[row]  BY <1>2, <2>1, <2>3
  <2>4. CASE \A row \in rows : id[row] # i  BY <1>3, <2>2, <2>4
  <2> QED  BY <2>3, <2>4
<1> QED  BY <1>4 DEF t

\* One row goes to the contract it names, or to one that is new.
LEMMA OneRow ==
  ASSUME NEW s, IsStore(s), NEW row, RowsFit({row}), ~Conflicts(s, row)
  PROVE  LET t == Upsert(s, row)
         IN /\ IsStore(t)
            /\ DOMAIN t.owner = DOMAIN s.owner \cup row.shares
            /\ \A c \in DOMAIN s.owner : t.owner[c] = s.owner[c]
            /\ \E i \in DOMAIN t.contract :
                  /\ \A c \in row.shares : t.owner[c] = i
                  /\ t.contract[i] = RowFund(row)
                  /\ DOMAIN t.contract = DOMAIN s.contract \cup {i}
                  /\ \A j \in DOMAIN s.contract : j # i => t.contract[j] = s.contract[j]
                  /\ \/ i \in Holders(s, row.rep)
                     \/ Holders(s, row.rep) = {} /\ i \notin DOMAIN s.contract
<1> DEFINE old == Holders(s, row.rep)
           i == IF old = {} THEN s.lastId + 1 ELSE CHOOSE j \in old : TRUE
           id == [r \in {row} |-> i]
           t == Upserted(s, {row}, id)
<1>1. Upsert(s, row) = t  BY DEF Upsert
<1>2. i \in Holders(s, row.rep) \/ (old = {} /\ i = s.lastId + 1)  OBVIOUS
<1>3. s.lastId \in Nat /\ \A j \in DOMAIN s.contract : j \in 1..s.lastId  BY DEF IsStore
<1>4. \/ i \in Holders(s, row.rep)
      \/ Holders(s, row.rep) = {} /\ i > s.lastId /\ i \notin DOMAIN s.contract
  BY <1>2, <1>3
<1>5. IsPlaced(s, {row}, id)
  <2>1. \A r \in {row} : id[r] = i  OBVIOUS
  <2> HIDE DEF id
  <2>2. ASSUME NEW c \in row.shares \cap DOMAIN s.owner  PROVE s.owner[c] = i
    BY <1>4, <2>2 DEF Conflicts
  <2> QED  BY <1>4, <2>1, <2>2 DEF IsPlaced
<1>6. i \in 1..(s.lastId + Cardinality(NewRows(s, {row})))
  <2>1. Cardinality(NewRows(s, {row})) \in Nat  BY NewIdsAreCounted
  <2>2. CASE old = {}
    <3>1. NewRows(s, {row}) = {row}  BY <2>2 DEF NewRows
    <3>2. Cardinality({row}) = 1  BY FS_Singleton
    <3> QED  BY <1>2, <1>3, <2>2, <3>1, <3>2
  <2>3. CASE old # {}
    <3>1. i \in DOMAIN s.contract  BY <2>3 DEF Holders
    <3> HIDE DEF i
    <3> QED  BY <1>3, <2>1, <3>1
  <2> QED  BY <2>2, <2>3
<1>7. id[row] = i /\ \A r \in {row} : r = row  OBVIOUS
<1> HIDE DEF id
<1>8. IsStore(t)  BY <1>5, <1>6, <1>7, UpsertKeeps
<1>9. HasRows(t, s, {row}, id)  BY <1>5, UpsertedHasRows
<1> HIDE DEF t, i
<1>10. /\ DOMAIN t.contract = DOMAIN s.contract \cup {i} /\ t.contract[i] = RowFund(row)
       /\ \A j \in DOMAIN s.contract : j # i => t.contract[j] = s.contract[j]
       /\ DOMAIN t.owner = DOMAIN s.owner \cup row.shares
       /\ \A c \in row.shares : t.owner[c] = i
       /\ \A c \in DOMAIN s.owner : c \notin row.shares => t.owner[c] = s.owner[c]
  <2>1. {id[r] : r \in {row}} = {i} /\ UNION {r.shares : r \in {row}} = row.shares  BY <1>7
  <2> QED  BY <1>7, <1>9, <2>1 DEF HasRows
<1>11. \A c \in DOMAIN s.owner : t.owner[c] = s.owner[c]
  BY <1>5, <1>7, <1>10 DEF IsPlaced
<1>12. i \in DOMAIN t.contract  BY <1>10
<1> QED  BY <1>1, <1>4, <1>8, <1>10, <1>11, <1>12

\* Two members make a set of more than one.
LEMMA TwoAreMany ==
  ASSUME NEW S, IsFiniteSet(S), NEW a \in S, NEW b \in S, a # b
  PROVE  Cardinality(S) > 1
<1> DEFINE pair == {a} \cup {b}
<1>1. IsFiniteSet({a}) /\ Cardinality({a}) = 1  BY FS_Singleton
<1>2. b \notin {a}  OBVIOUS
<1>3. Cardinality(pair) = Cardinality({a}) + 1  BY <1>1, <1>2, FS_AddElement
<1>4. pair \subseteq S  OBVIOUS
<1> HIDE DEF pair
<1>5. Cardinality(pair) <= Cardinality(S)  BY <1>4, FS_Subset
<1>6. Cardinality(S) \in Nat  BY FS_CardinalityType
<1> QED  BY <1>1, <1>3, <1>5, <1>6

LEMMA HoldersAreFinite ==
  ASSUME NEW s, IsStore(s), NEW ids \in SUBSET (DOMAIN s.contract)
  PROVE  IsFiniteSet(ids)
<1>1. s.lastId \in Nat /\ \A i \in ids : i \in 1..s.lastId  BY DEF IsStore
<1>2. IsFiniteSet(1..s.lastId)  BY <1>1, FS_Interval
<1>3. ids \subseteq 1..s.lastId  BY <1>1
<1> QED  BY <1>2, <1>3, FS_Subset

-----------------------------------------------------------------------------
(* The types, and the store an import makes.                                *)

Flagged == [selected : BOOLEAN, dependency : BOOLEAN]

Requests ==
  [pc : {"idle", "states", "codes", "commit", "select", "write"},
   codes : SUBSET Codes, todo : SUBSET Codes, failed : BOOLEAN,
   prior : UNION {[D -> Flagged] : D \in SUBSET Nat},
   was : UNION {[D -> BOOLEAN] : D \in SUBSET Codes},
   code : Codes \cup {Nobody}, matches : SUBSET Nat, primary : Nat,
   rep : Codes \cup {Nobody}, best : Nat, alone : BOOLEAN, merged : BOOLEAN]

RequestIsTyped(r) ==
  /\ r \in Requests
  /\ r.todo \subseteq r.codes
  /\ r.pc = "commit" => /\ r.code \in r.codes /\ r.rep \in Codes
                        /\ r.matches # {} => r.primary \in r.matches

UniverseTypes ==
  /\ IsStore(Store)
  /\ lastId <= MaxContracts
  /\ raced \in BOOLEAN
  /\ req \in [Users -> Requests]
  /\ \A u \in Users : RequestIsTyped(req[u])

Importing(u) == req[u].pc = "commit" /\ ~Refused(u)
Several(u) == Cardinality(req[u].matches) > 1

LEMMA SeveralAreSome == \A u \in Users : Several(u) => req[u].matches # {}
<1>1. Cardinality({}) = 0  BY FS_EmptySet
<1> QED  BY <1>1 DEF Several

LEMMA MergeKeeps ==
  ASSUME UniverseTypes, NEW u \in Users, Importing(u)
  PROVE  /\ IsStore(MergedStore(u))
         /\ DOMAIN MergedStore(u).owner = DOMAIN owner
         /\ \A i \in DOMAIN MergedStore(u).contract : i \in DOMAIN contract
         /\ ~Several(u) => MergedStore(u) = Store
         /\ RepOfMatch(u) \in Codes
<1> DEFINE into == [i \in req[u].matches |-> req[u].primary]
<1>1. IsStore(Store) /\ Store.contract = contract /\ Store.owner = owner
  BY DEF UniverseTypes, Store
<1>2. RequestIsTyped(req[u]) /\ req[u].pc = "commit"  BY DEF UniverseTypes, Importing
<1>3. CASE ~Several(u)
  <2>1. MergedStore(u) = Store /\ RepOfMatch(u) = req[u].rep
    BY <1>3 DEF MergedStore, RepOfMatch, Several
  <2> QED  BY <1>1, <1>2, <1>3, <2>1 DEF RequestIsTyped
<1>4. CASE Several(u)
  <2>1. req[u].primary \in req[u].matches  BY <1>2, <1>4, SeveralAreSome DEF RequestIsTyped
  <2>2. req[u].primary \in DOMAIN contract  BY <1>4 DEF Importing, Refused, PrimaryGone, Several
  <2>3. MergedStore(u) = Absorb(Store, into)  BY <1>4 DEF MergedStore, Merge, Several
  <2>4. \A i \in DOMAIN into : /\ into[i] \in DOMAIN into /\ into[i] \in DOMAIN Store.contract
                               /\ into[into[i]] = into[i]
    BY <1>1, <2>1, <2>2
  <2> HIDE DEF into
  <2>5. /\ IsStore(Absorb(Store, into))
        /\ DOMAIN Absorb(Store, into).owner = DOMAIN Store.owner
        /\ DOMAIN Absorb(Store, into).contract =
              {i \in DOMAIN Store.contract : i \in DOMAIN into => into[i] = i}
        /\ \A i \in DOMAIN Absorb(Store, into).contract :
              Absorb(Store, into).contract[i].rep = Store.contract[i].rep
    BY <1>1, <2>4, AbsorbKeeps
  <2>6. RepOfMatch(u) = contract[req[u].primary].rep
    <3>1. req[u].primary \in DOMAIN Absorb(Store, into).contract
      BY <1>1, <2>1, <2>2, <2>5 DEF into
    <3> QED  BY <1>1, <1>4, <2>3, <2>5, <3>1 DEF RepOfMatch, Several
  <2>7. RepOfMatch(u) \in Codes  BY <1>1, <2>2, <2>6 DEF IsStore, Funds
  <2> QED  BY <1>1, <1>4, <2>3, <2>5, <2>7
<1> QED  BY <1>3, <1>4

\* A contract of a store gets another representative.
LEMMA Renames ==
  ASSUME NEW t, t = [contract |-> t.contract, owner |-> t.owner, lastId |-> t.lastId],
         NEW i \in DOMAIN t.contract, t.contract[i] \in Funds, NEW code \in Codes
  PROVE  LET x == [t EXCEPT !.contract[i].rep = code]
         IN /\ x = [contract |-> x.contract, owner |-> x.owner, lastId |-> x.lastId]
            /\ x.owner = t.owner /\ x.lastId = t.lastId /\ DOMAIN x.contract = DOMAIN t.contract
            /\ \A j \in DOMAIN t.contract : j # i => x.contract[j] = t.contract[j]
            /\ x.contract[i] \in Funds /\ x.contract[i].rep = code
            /\ x.contract[i].key = t.contract[i].key
            /\ x.contract[i].selected = t.contract[i].selected
            /\ x.contract[i].dependency = t.contract[i].dependency
<1> DEFINE x == [t EXCEPT !.contract[i].rep = code]
           fund == [t.contract[i] EXCEPT !.rep = code]
<1>1. x = [contract |-> x.contract, owner |-> x.owner, lastId |-> x.lastId]  BY DEF Funds
<1>2. /\ x.owner = t.owner /\ x.lastId = t.lastId
      /\ x.contract = [t.contract EXCEPT ![i].rep = code]
  BY DEF Funds
<1>3. /\ fund \in Funds /\ fund.rep = code /\ fund.key = t.contract[i].key
      /\ fund.selected = t.contract[i].selected /\ fund.dependency = t.contract[i].dependency
  BY DEF Funds
<1> HIDE DEF x
<1>4. /\ DOMAIN x.contract = DOMAIN t.contract /\ x.contract[i] = fund
      /\ \A j \in DOMAIN t.contract : j # i => x.contract[j] = t.contract[j]
  BY <1>2
<1> HIDE DEF fund
<1>5. /\ x.contract[i] \in Funds /\ x.contract[i].rep = code
      /\ x.contract[i].key = t.contract[i].key
      /\ x.contract[i].selected = t.contract[i].selected
      /\ x.contract[i].dependency = t.contract[i].dependency
  BY <1>3, <1>4
<1> QED  BY <1>1, <1>2, <1>4, <1>5 DEF x

\* What a catalog import makes of the store, apart from the merge.
LEMMA ImportMakes ==
  ASSUME UniverseTypes, NEW u \in Users, Importing(u)
  PROVE  LET m == MergedStore(u)
             x == Imported(u)
             code == req[u].code
             i == x.owner[code]
         IN /\ IsStore(x)
            /\ DOMAIN x.owner = DOMAIN owner \cup {code}
            /\ \A c \in DOMAIN owner : x.owner[c] = m.owner[c]
            /\ DOMAIN x.contract = DOMAIN m.contract \cup {i}
            /\ \A j \in DOMAIN m.contract : j # i => x.contract[j] = m.contract[j]
            /\ \/ i \in Holders(m, RepOfMatch(u))
               \/ Holders(m, RepOfMatch(u)) = {} /\ i \notin DOMAIN m.contract
            /\ x.contract[i].key = CatalogKey[code]
            /\ x.contract[i].selected /\ ~x.contract[i].dependency
            /\ x.contract[i].rep = IF Priority[code] < BestOfMatch(u) \/ req[u].matches = {}
                                   THEN code ELSE RepOfMatch(u)
<1> DEFINE m == MergedStore(u)
           x == Imported(u)
           code == req[u].code
           row == CatalogRow(u)
           t == Upsert(m, row)
<1>1. IsStore(m) /\ DOMAIN m.owner = DOMAIN owner /\ RepOfMatch(u) \in Codes  BY MergeKeeps
<1>2. code \in Codes /\ CatalogKey[code] \in Keys
  BY DEF UniverseTypes, RequestIsTyped, Requests, Importing, Keys
<1>3. /\ row.rep = RepOfMatch(u) /\ row.shares = {code} /\ row.key = CatalogKey[code]
      /\ row.enabled = TRUE
  BY DEF CatalogRow
<1>4. ~Conflicts(m, row)  BY DEF Importing, Refused
<1> HIDE DEF m, row, code
<1>5. RowsFit({row})
  <2>1. IsFiniteSet({row})  BY FS_Singleton
  <2> QED  BY <1>1, <1>2, <1>3, <2>1 DEF RowsFit
<1>6. /\ IsStore(t)
      /\ DOMAIN t.owner = DOMAIN m.owner \cup row.shares
      /\ \A c \in DOMAIN m.owner : t.owner[c] = m.owner[c]
      /\ \E i \in DOMAIN t.contract :
            /\ \A c \in row.shares : t.owner[c] = i
            /\ t.contract[i] = RowFund(row)
            /\ DOMAIN t.contract = DOMAIN m.contract \cup {i}
            /\ \A j \in DOMAIN m.contract : j # i => t.contract[j] = m.contract[j]
            /\ \/ i \in Holders(m, row.rep)
               \/ Holders(m, row.rep) = {} /\ i \notin DOMAIN m.contract
  BY <1>1, <1>4, <1>5, OneRow
<1>7. x = Represented(u, t)  BY DEF Imported, m, row
<1> HIDE DEF t, x
<1> DEFINE i == t.owner[code]
<1>8. /\ i \in DOMAIN t.contract
      /\ t.contract[i] = RowFund(row)
      /\ DOMAIN t.contract = DOMAIN m.contract \cup {i}
      /\ \A j \in DOMAIN m.contract : j # i => t.contract[j] = m.contract[j]
      /\ \/ i \in Holders(m, RepOfMatch(u))
         \/ Holders(m, RepOfMatch(u)) = {} /\ i \notin DOMAIN m.contract
  BY <1>3, <1>6
<1>9. /\ t.contract[i] \in Funds /\ t.contract[i].rep = RepOfMatch(u)
      /\ t.contract[i].key = CatalogKey[code]
      /\ t.contract[i].selected /\ ~t.contract[i].dependency
  BY <1>3, <1>5, <1>8, RowFundColumns
<1> HIDE DEF i
<1> DEFINE renamed == Priority[code] < BestOfMatch(u) \/ req[u].matches = {}
<1>10. CASE ~renamed
  <2>1. x = t  BY <1>7, <1>10 DEF Represented, code
  <2> QED  BY <1>1, <1>3, <1>6, <1>8, <1>9, <1>10, <2>1 DEF m, code, x, i
<1>11. CASE renamed
  <2>1. x = [t EXCEPT !.contract[i].rep = code]  BY <1>7, <1>11 DEF Represented, code, i
  <2>2. t = [contract |-> t.contract, owner |-> t.owner, lastId |-> t.lastId]
    BY <1>6 DEF IsStore
  <2>3. /\ x = [contract |-> x.contract, owner |-> x.owner, lastId |-> x.lastId]
        /\ x.owner = t.owner /\ x.lastId = t.lastId /\ DOMAIN x.contract = DOMAIN t.contract
        /\ \A j \in DOMAIN t.contract : j # i => x.contract[j] = t.contract[j]
        /\ x.contract[i] \in Funds /\ x.contract[i].rep = code
        /\ x.contract[i].key = t.contract[i].key
        /\ x.contract[i].selected = t.contract[i].selected
        /\ x.contract[i].dependency = t.contract[i].dependency
    BY <1>2, <1>8, <1>9, <2>1, <2>2, Renames
  <2>4. ~(Cardinality(Holders(x, code)) > 1)  BY DEF Importing, Refused, x, code
  <2>5. \A j \in DOMAIN x.contract : j \in 1..x.lastId /\ x.contract[j] \in Funds
    BY <1>6, <2>3 DEF IsStore
  <2>6. IsFiniteSet(Holders(x, code))
    <3>1. x.lastId \in Nat  BY <1>6, <2>3 DEF IsStore
    <3>2. IsFiniteSet(1..x.lastId)  BY <3>1, FS_Interval
    <3>3. Holders(x, code) \subseteq 1..x.lastId  BY <2>5 DEF Holders
    <3> QED  BY <3>2, <3>3, FS_Subset
  <2>7. ASSUME NEW j \in DOMAIN x.contract, NEW k \in DOMAIN x.contract,
               x.contract[j].rep = x.contract[k].rep
        PROVE  j = k
    <3>1. CASE j # i /\ k # i  BY <1>6, <2>3, <2>7, <3>1 DEF IsStore
    <3>2. CASE j = i \/ k = i
      <4>1. j \in Holders(x, code) /\ k \in Holders(x, code)  BY <2>3, <2>7, <3>2 DEF Holders
      <4> QED  BY <2>4, <2>6, <4>1, TwoAreMany
    <3> QED  BY <3>1, <3>2
  <2>8. IsStore(x)  BY <1>6, <2>3, <2>5, <2>7 DEF IsStore
  <2> QED  BY <1>1, <1>3, <1>6, <1>8, <1>9, <1>11, <2>3, <2>8 DEF m, code, x, i
<1> QED  BY <1>10, <1>11

-----------------------------------------------------------------------------
(* What a request knows of the store while nobody else writes.              *)

\* The contracts it has matched are still those of the catalog's name, and what
\* it has read of the one to keep is still true.
Matched(r, s) ==
  r.pc = "commit" =>
    /\ r.matches = Matching(s, CatalogKey[r.code])
    /\ r.matches = {} => r.rep = r.code
    /\ r.matches # {} => /\ r.rep = s.contract[r.primary].rep
                         /\ r.best = RepPriority(s, r.primary)
                         /\ \A j \in r.matches : r.best <= RepPriority(s, j)

\* A code that is neither to do nor failed has a share, and what has been
\* selected is.
Open(r) == r.todo \cup (IF r.pc = "commit" THEN {r.code} ELSE {})

Found(r, s) ==
  /\ r.pc \in {"states", "codes", "commit"} /\ ~r.failed => r.codes \ Open(r) \subseteq DOMAIN s.owner
  /\ r.pc = "select" => r.codes \subseteq DOMAIN s.owner
  /\ r.pc = "write" => \A c \in r.codes : /\ c \in DOMAIN s.owner
                                          /\ s.contract[s.owner[c]].selected
                                          /\ ~s.contract[s.owner[c]].dependency

\* The flags it has noted are those of the contracts that had the shares, and
\* outside the funds of its file they are still true.
Holding(s, codes) == {s.owner[c] : c \in codes \cap DOMAIN s.owner}

Undoable(r, s) ==
  /\ DOMAIN r.was \subseteq DOMAIN s.owner
  /\ ~r.merged =>
       /\ \A c \in DOMAIN r.was :
             /\ s.owner[c] \in DOMAIN r.prior
             /\ r.prior[s.owner[c]].selected = r.was[c]
             /\ s.owner[c] \notin Holding(s, r.codes) => s.contract[s.owner[c]].selected = r.was[c]
       /\ \A i \in DOMAIN r.prior : \E d \in DOMAIN r.was : s.owner[d] = i

Informed(r, s) ==
  r.pc # "idle" /\ r.alone => Matched(r, s) /\ Found(r, s) /\ Undoable(r, s)

UniverseInv ==
  /\ UniverseTypes
  /\ \A u \in Users : Informed(req[u], Store)

LEMMA IdleIsTyped == RequestIsTyped(Idle) /\ \A s : Informed(Idle, s)
<1> DEFINE none == NoRows
<1>1. none \in [{} -> Flagged] /\ none \in [{} -> BOOLEAN]  BY DEF NoRows
<1>2. none \in UNION {[D -> Flagged] : D \in SUBSET Nat}
  <2>1. {} \in SUBSET Nat  OBVIOUS
  <2> HIDE DEF none
  <2> QED  BY <1>1, <2>1
<1>3. none \in UNION {[D -> BOOLEAN] : D \in SUBSET Codes}
  <2>1. {} \in SUBSET Codes  OBVIOUS
  <2> HIDE DEF none
  <2> QED  BY <1>1, <2>1
<1>4. Idle = [pc |-> "idle", codes |-> {}, todo |-> {}, failed |-> FALSE,
              prior |-> none, was |-> none,
              code |-> Nobody, matches |-> {}, primary |-> Nobody, rep |-> Nobody, best |-> 0,
              alone |-> TRUE, merged |-> FALSE]
  BY DEF Idle
<1> HIDE DEF none
<1>5. Nobody \in Nat  BY DEF Nobody
<1>6. Idle \in Requests  BY <1>2, <1>3, <1>4, <1>5 DEF Requests
<1>7. Idle.pc = "idle" /\ Idle.todo = {} /\ Idle.codes = {}  BY <1>4
<1> QED  BY <1>6, <1>7 DEF RequestIsTyped, Informed

\* A request that goes on to its next code.
LEMMA NextCodeIsTyped ==
  ASSUME NEW u \in Users, NEW r, RequestIsTyped(r), NEW s, 
         r.alone => \/ r.failed
                    \/ r.codes \ r.todo \subseteq DOMAIN s.owner,
         r.alone => Undoable(r, s)
  PROVE  RequestIsTyped(NextCode(u, r)) /\ Informed(NextCode(u, r), s)
<1> DEFINE n == [r EXCEPT !.pc = "codes", !.code = Nobody, !.matches = {},
                          !.primary = Nobody, !.rep = Nobody, !.best = 0]
<1>1. NextCode(u, r) = Idle \/ NextCode(u, r) = n  BY DEF NextCode
<1>2. Nobody \in Nat  BY DEF Nobody
<1>3. r \in Requests  BY DEF RequestIsTyped
<1>4. /\ n \in Requests /\ n.pc = "codes" /\ n.codes = r.codes /\ n.todo = r.todo
      /\ n.failed = r.failed /\ n.alone = r.alone /\ n.was = r.was /\ n.prior = r.prior
      /\ n.merged = r.merged
  BY <1>2, <1>3 DEF Requests
<1> HIDE DEF n
<1>5. RequestIsTyped(n)  BY <1>4 DEF RequestIsTyped
<1>6. Informed(n, s)
  <2>1. Undoable(r, s) => Undoable(n, s)  BY <1>4 DEF Undoable
  <2>2. Open(n) = r.todo  BY <1>4 DEF Open
  <2> QED  BY <1>4, <2>1, <2>2 DEF Informed, Matched, Found
<1> QED  BY <1>1, <1>5, <1>6, IdleIsTyped

\* A step that only reads changes the request that takes it.
LEMMA Reads ==
  ASSUME UniverseInv, NEW u \in Users, NEW r, Read(u, r), RequestIsTyped(r), Informed(r, Store)
  PROVE  UniverseInv'
<1>1. Store' = Store /\ UNCHANGED <<contract, owner, lastId, raced>>  BY DEF Read, dbVars, Store
<1>2. req' = [req EXCEPT ![u] = r] /\ req \in [Users -> Requests] /\ r \in Requests
  BY DEF Read, UniverseInv, UniverseTypes, RequestIsTyped
<1>3. req' \in [Users -> Requests]  BY <1>2
<1>4. ASSUME NEW w \in Users  PROVE RequestIsTyped(req'[w]) /\ Informed(req'[w], Store')
  <2>1. req'[w] = IF w = u THEN r ELSE req[w]  BY <1>2
  <2>2. RequestIsTyped(req[w]) /\ Informed(req[w], Store)  BY DEF UniverseInv, UniverseTypes
  <2>3. PICK q : q = req'[w]  OBVIOUS
  <2>4. RequestIsTyped(q) /\ Informed(q, Store)  BY <2>1, <2>2, <2>3
  <2> QED  BY <1>1, <2>3, <2>4
<1>5. IsStore(Store') /\ lastId' <= MaxContracts /\ raced' \in BOOLEAN
  BY <1>1 DEF UniverseInv, UniverseTypes
<1>6. UniverseTypes'  BY <1>3, <1>4, <1>5 DEF UniverseTypes
<1> QED  BY <1>4, <1>6 DEF UniverseInv

\* A step that writes: what the others know may be out of date.
LEMMA Writes ==
  ASSUME UniverseInv, NEW u, NEW r, NEW t, Commit(t), Written(u, r), IsStore(t),
         u \in Users => RequestIsTyped(r) /\ Informed(r, t)
  PROVE  UniverseInv' /\ Store' = t
<1>1. t = [contract |-> t.contract, owner |-> t.owner, lastId |-> t.lastId]  BY DEF IsStore
<1>2. Store' = t /\ lastId' <= MaxContracts  BY <1>1 DEF Commit, Store, IsStore
<1>3. ASSUME NEW w \in Users
      PROVE  req'[w] \in Requests /\ RequestIsTyped(req'[w]) /\ Informed(req'[w], t)
  <2> DEFINE other == [req[w] EXCEPT !.alone = FALSE, !.was = NoRows]
  <2>1. req'[w] = IF w = u THEN r ELSE IF req[w].pc = "idle" THEN req[w] ELSE other
    BY DEF Written
  <2>2. req[w] \in Requests /\ RequestIsTyped(req[w])  BY DEF UniverseInv, UniverseTypes
  <2>3. NoRows \in UNION {[D -> BOOLEAN] : D \in SUBSET Codes}
    <3>1. NoRows = Idle.was  BY DEF Idle
    <3> QED  BY <3>1, IdleIsTyped DEF RequestIsTyped, Requests
  <2>4. /\ other \in Requests /\ ~other.alone /\ other.pc = req[w].pc
        /\ other.todo = req[w].todo /\ other.codes = req[w].codes /\ other.code = req[w].code
        /\ other.rep = req[w].rep /\ other.matches = req[w].matches
        /\ other.primary = req[w].primary
    BY <2>2, <2>3 DEF Requests
  <2> HIDE DEF other
  <2>5. RequestIsTyped(other)  BY <2>2, <2>4 DEF RequestIsTyped
  <2>6. Informed(other, t)  BY <2>4 DEF Informed
  <2>7. req[w].pc = "idle" => Informed(req[w], t)  BY DEF Informed
  <2>8. PICK q : q = req'[w]  OBVIOUS
  <2>9. q \in Requests /\ RequestIsTyped(q) /\ Informed(q, t)
    <3>1. RequestIsTyped(r) => r \in Requests  BY DEF RequestIsTyped
    <3> QED  BY <2>1, <2>2, <2>4, <2>5, <2>6, <2>7, <2>8, <3>1
  <2> QED  BY <2>8, <2>9
<1>4. req' \in [Users -> Requests]
  <2>1. req' = [w \in Users |-> req'[w]]  BY DEF Written
  <2> QED  BY <1>3, <2>1
<1>5. raced' \in BOOLEAN
  BY Zenon DEF Written
<1>6. UniverseTypes'  BY <1>2, <1>3, <1>4, <1>5 DEF UniverseTypes
<1> QED  BY <1>2, <1>3, <1>6 DEF UniverseInv

-----------------------------------------------------------------------------
(* The steps.                                                               *)

LEMMA UniverseInit == Init => UniverseInv
<1> SUFFICES ASSUME Init  PROVE UniverseInv  OBVIOUS
<1>1. Store = [contract |-> NoRows, owner |-> NoRows, lastId |-> 0]  BY DEF Init, Store
<1>2. DOMAIN NoRows = {}  BY DEF NoRows
<1>3. IsStore(Store)  BY <1>1, <1>2 DEF IsStore
<1>4. \A u \in Users : req[u] = Idle  BY DEF Init
<1>5. req \in [Users -> Requests]  BY <1>4, IdleIsTyped DEF Init, RequestIsTyped
<1>6. lastId <= MaxContracts  BY RequestsAreOfUsers DEF Init
<1>7. raced \in BOOLEAN  BY DEF Init
<1>8. UniverseTypes  BY <1>3, <1>4, <1>5, <1>6, <1>7, IdleIsTyped DEF UniverseTypes
<1> QED  BY <1>4, <1>8, IdleIsTyped DEF UniverseInv

LEMMA StoreColumns ==
  /\ Store.contract = contract /\ Store.owner = owner /\ Store.lastId = lastId
BY DEF Store

LEMMA StartImportKeeps == ASSUME UniverseInv, NEW u \in Users, StartImport(u)  PROVE UniverseInv'
<1>1. PICK codes \in Orders :
        Read(u, [Idle EXCEPT !.pc = "codes", !.codes = codes, !.todo = codes])
  BY DEF StartImport
<1>2. PICK r : r = [Idle EXCEPT !.pc = "codes", !.codes = codes, !.todo = codes]  OBVIOUS
<1>3. codes \subseteq Codes  BY RequestsAreOfUsers
<1>4. Idle \in Requests  BY IdleIsTyped DEF RequestIsTyped
<1>5. /\ r \in Requests /\ r.pc = "codes" /\ r.codes = codes /\ r.todo = codes
      /\ r.was = Idle.was /\ r.prior = Idle.prior
  BY <1>2, <1>3, <1>4 DEF Requests
<1>6. RequestIsTyped(r)  BY <1>5 DEF RequestIsTyped
<1>7. DOMAIN r.was = {} /\ DOMAIN r.prior = {}
  <2>1. Idle.was = NoRows /\ Idle.prior = NoRows  BY DEF Idle
  <2> QED  BY <1>5, <2>1 DEF NoRows
<1>8. Informed(r, Store)  BY <1>5, <1>7 DEF Informed, Matched, Found, Open, Undoable
<1> QED  BY <1>1, <1>2, <1>6, <1>8, Reads

LEMMA LookupFailsKeeps == ASSUME UniverseInv, NEW u \in Users, LookupFails(u)  PROVE UniverseInv'
<1>1. PICK c \in req[u].todo :
        Read(u, NextCode(u, [req[u] EXCEPT !.todo = @ \ {c}, !.failed = TRUE]))
  BY DEF LookupFails
<1>2. PICK q : q = req[u]  OBVIOUS
<1>3. PICK r : r = [q EXCEPT !.todo = @ \ {c}, !.failed = TRUE]  OBVIOUS
<1>4. RequestIsTyped(q) /\ Informed(q, Store) /\ q.pc = "codes" /\ IsStore(Store)
  BY <1>2 DEF UniverseInv, UniverseTypes, LookupFails
<1>5. /\ r \in Requests /\ r.todo = q.todo \ {c} /\ r.failed = TRUE /\ r.pc = q.pc
      /\ r.codes = q.codes /\ r.was = q.was /\ r.prior = q.prior /\ r.merged = q.merged
      /\ r.alone = q.alone
  BY <1>3, <1>4 DEF RequestIsTyped, Requests
<1>6. RequestIsTyped(r)  BY <1>4, <1>5 DEF RequestIsTyped
<1>7. r.alone => Undoable(r, Store)  BY <1>4, <1>5 DEF Informed, Undoable
<1>8. PICK s : s = Store  OBVIOUS
<1>9. PICK n : n = NextCode(u, r)  OBVIOUS
<1>10. RequestIsTyped(n) /\ Informed(n, Store)
  BY <1>4, <1>5, <1>6, <1>7, <1>8, <1>9, NextCodeIsTyped
<1> QED  BY <1>1, <1>2, <1>3, <1>9, <1>10, Reads

LEMMA CommitFailsKeeps == ASSUME UniverseInv, NEW u \in Users, CommitFails(u)  PROVE UniverseInv'
<1>1. Read(u, NextCode(u, [req[u] EXCEPT !.failed = TRUE]))  BY DEF CommitFails
<1>2. PICK q : q = req[u]  OBVIOUS
<1>3. PICK r : r = [q EXCEPT !.failed = TRUE]  OBVIOUS
<1>4. RequestIsTyped(q) /\ Informed(q, Store) /\ q.pc = "commit" /\ IsStore(Store)
  BY <1>2 DEF UniverseInv, UniverseTypes, CommitFails
<1>5. /\ r \in Requests /\ r.todo = q.todo /\ r.failed = TRUE /\ r.pc = q.pc
      /\ r.codes = q.codes /\ r.was = q.was /\ r.prior = q.prior /\ r.merged = q.merged
      /\ r.alone = q.alone /\ r.code = q.code /\ r.rep = q.rep /\ r.matches = q.matches
      /\ r.primary = q.primary
  BY <1>3, <1>4 DEF RequestIsTyped, Requests
<1>6. RequestIsTyped(r)  BY <1>4, <1>5 DEF RequestIsTyped
<1>7. r.alone => Undoable(r, Store)  BY <1>4, <1>5 DEF Informed, Undoable
<1>8. PICK s : s = Store  OBVIOUS
<1>9. PICK n : n = NextCode(u, r)  OBVIOUS
<1>10. RequestIsTyped(n) /\ Informed(n, Store)
  BY <1>4, <1>5, <1>6, <1>7, <1>8, <1>9, NextCodeIsTyped
<1> QED  BY <1>1, <1>2, <1>3, <1>9, <1>10, Reads

LEMMA MatchCodeKeeps == ASSUME UniverseInv, NEW u \in Users, MatchCode(u)  PROVE UniverseInv'
<1> DEFINE ids(c) == Matching(Store, CatalogKey[c])
           one(c) == Preferred(Store, ids(c))
           base(c) == [req[u] EXCEPT !.pc = "commit", !.code = c, !.matches = ids(c),
                                     !.todo = @ \ {c}]
           next(c) == IF ids(c) = {}
                      THEN [base(c) EXCEPT !.primary = Nobody, !.rep = c, !.best = Worst]
                      ELSE [base(c) EXCEPT !.primary = one(c), !.rep = contract[one(c)].rep,
                                           !.best = RepPriority(Store, one(c))]
<1>1. PICK c \in req[u].todo : Read(u, next(c))  BY DEF MatchCode
<1>2. PICK q : q = req[u]  OBVIOUS
<1>3. PICK found : found = ids(c)  OBVIOUS
<1>4. PICK b : b = [q EXCEPT !.pc = "commit", !.code = c, !.matches = found, !.todo = @ \ {c}]
  OBVIOUS
<1>5. PICK first : first = one(c)  OBVIOUS
<1>6. PICK name : name = IF found = {} THEN c ELSE contract[first].rep  OBVIOUS
<1>7. PICK best : best = IF found = {} THEN Worst ELSE RepPriority(Store, first)  OBVIOUS
<1>8. PICK primary : primary = IF found = {} THEN Nobody ELSE first  OBVIOUS
<1>9. PICK r : r = [b EXCEPT !.primary = primary, !.rep = name, !.best = best]  OBVIOUS
<1>10. next(c) = r  BY <1>2, <1>3, <1>4, <1>5, <1>6, <1>7, <1>8, <1>9
<1>11. RequestIsTyped(q) /\ Informed(q, Store) /\ q.pc = "codes" /\ IsStore(Store)
  BY <1>2 DEF UniverseInv, UniverseTypes, MatchCode
<1>12. c \in q.todo /\ c \in q.codes /\ c \in Codes
  BY <1>2, <1>11 DEF RequestIsTyped, Requests
<1>13. found = Matching(Store, CatalogKey[c]) /\ found \subseteq DOMAIN Store.contract
  BY <1>3 DEF Matching
<1> HIDE DEF ids, one, base, next
<1>14. found \subseteq Nat
  <2>1. \A i \in found : i \in 1..Store.lastId /\ Store.lastId \in Nat  BY <1>11, <1>13 DEF IsStore
  <2> QED  BY <2>1
<1>15. found # {} => /\ first \in found
                     /\ \A j \in found : RepPriority(Store, first) <= RepPriority(Store, j)
  <2>1. PICK s : s = Store  OBVIOUS
  <2> QED  BY <1>3, <1>5, <1>11, <1>13, <2>1, OneIsPreferred DEF one, ids
<1>16. name \in Codes /\ best \in Nat /\ primary \in Nat
  <2>1. Nobody \in Nat  BY DEF Nobody
  <2>2. found # {} => contract[first].rep \in Codes /\ RepPriority(Store, first) \in Nat
    BY <1>11, <1>13, <1>15, StoreColumns, PrioritiesAreNumbers DEF IsStore, Funds, RepPriority
  <2>3. found # {} => first \in Nat  BY <1>14, <1>15
  <2> QED  BY <1>6, <1>7, <1>8, <1>12, <2>1, <2>2, <2>3, PrioritiesAreNumbers
<1>17. /\ b \in Requests /\ b.pc = "commit" /\ b.todo = q.todo \ {c}
       /\ b.code = c /\ b.matches = found
       /\ b.codes = q.codes /\ b.was = q.was /\ b.prior = q.prior /\ b.merged = q.merged
       /\ b.alone = q.alone /\ b.failed = q.failed
  BY <1>4, <1>11, <1>12, <1>14 DEF RequestIsTyped, Requests
<1>18. /\ r \in Requests /\ r.pc = "commit" /\ r.todo = q.todo \ {c}
       /\ r.code = c /\ r.matches = found
       /\ r.codes = q.codes /\ r.was = q.was /\ r.prior = q.prior /\ r.merged = q.merged
       /\ r.alone = q.alone /\ r.failed = q.failed
       /\ r.primary = primary /\ r.rep = name /\ r.best = best
  BY <1>9, <1>16, <1>17 DEF Requests
<1>19. RequestIsTyped(r)
  BY <1>8, <1>11, <1>12, <1>15, <1>16, <1>18 DEF RequestIsTyped
<1>20. Matched(r, Store)
  BY <1>6, <1>7, <1>8, <1>13, <1>15, <1>18, StoreColumns DEF Matched
<1>21. r.alone => Found(r, Store) /\ Undoable(r, Store)
  <2>1. SUFFICES ASSUME r.alone  PROVE Found(r, Store) /\ Undoable(r, Store)  OBVIOUS
  <2>2. Found(q, Store) /\ Undoable(q, Store)  BY <1>11, <1>18, <2>1 DEF Informed
  <2>3. Undoable(r, Store)  BY <1>18, <2>2 DEF Undoable
  <2>4. q.codes \ q.todo = r.codes \ Open(r)  BY <1>12, <1>18 DEF Open
  <2>5. Open(q) = q.todo  BY <1>11 DEF Open
  <2>6. Found(r, Store)  BY <1>11, <1>18, <2>2, <2>4, <2>5 DEF Found
  <2> QED  BY <2>3, <2>6
<1>22. Informed(r, Store)  BY <1>20, <1>21 DEF Informed
<1> QED  BY <1>1, <1>10, <1>19, <1>22, Reads

LEMMA PreviewKeeps == ASSUME UniverseInv, NEW u \in Users, Preview(u)  PROVE UniverseInv'
<1>1. PICK codes \in Portfolios :
        Read(u, [Idle EXCEPT !.pc = "states", !.codes = codes, !.todo = codes \ DOMAIN owner])
  BY DEF Preview
<1>2. PICK todo : todo = codes \ DOMAIN owner  OBVIOUS
<1>3. PICK r : r = [Idle EXCEPT !.pc = "states", !.codes = codes, !.todo = todo]  OBVIOUS
<1>4. codes \subseteq Codes  BY RequestsAreOfUsers
<1>5. Idle \in Requests  BY IdleIsTyped DEF RequestIsTyped
<1>6. /\ r \in Requests /\ r.pc = "states" /\ r.codes = codes /\ r.todo = todo
      /\ r.was = Idle.was /\ r.prior = Idle.prior
  BY <1>2, <1>3, <1>4, <1>5 DEF Requests
<1>7. RequestIsTyped(r)  BY <1>2, <1>6 DEF RequestIsTyped
<1>8. DOMAIN r.was = {} /\ DOMAIN r.prior = {}
  <2>1. Idle.was = NoRows /\ Idle.prior = NoRows  BY DEF Idle
  <2> QED  BY <1>6, <2>1 DEF NoRows
<1>9. Informed(r, Store)
  BY <1>2, <1>6, <1>8, StoreColumns DEF Informed, Matched, Found, Open, Undoable
<1> QED  BY <1>1, <1>2, <1>3, <1>7, <1>9, Reads

LEMMA ReadStatesKeeps == ASSUME UniverseInv, NEW u \in Users, ReadStates(u)  PROVE UniverseInv'
<1>1. PICK prior : prior = [i \in DOMAIN contract |-> Flags(i)]  OBVIOUS
<1>2. PICK was : was = [c \in DOMAIN owner |-> contract[owner[c]].selected]  OBVIOUS
<1>3. PICK q : q = req[u]  OBVIOUS
<1>4. PICK r : r = [q EXCEPT !.pc = "codes", !.prior = prior, !.was = was]  OBVIOUS
<1>5. Read(u, r)  BY <1>1, <1>2, <1>3, <1>4 DEF ReadStates
<1>6. RequestIsTyped(q) /\ Informed(q, Store) /\ q.pc = "states" /\ IsStore(Store)
  BY <1>3 DEF UniverseInv, UniverseTypes, ReadStates
<1>7. /\ \A i \in DOMAIN contract : i \in Nat /\ contract[i] \in Funds
      /\ \A c \in DOMAIN owner : c \in Codes /\ owner[c] \in DOMAIN contract
      /\ \A i \in DOMAIN contract : \E c \in DOMAIN owner : owner[c] = i
  BY <1>6, StoreColumns DEF IsStore
<1>8. /\ DOMAIN prior = DOMAIN contract /\ prior \in [DOMAIN contract -> Flagged]
      /\ \A i \in DOMAIN contract : prior[i].selected = contract[i].selected
  BY <1>1, <1>7 DEF Flags, Flagged, Funds
<1>9. /\ DOMAIN was = DOMAIN owner /\ was \in [DOMAIN owner -> BOOLEAN]
      /\ \A c \in DOMAIN owner : was[c] = contract[owner[c]].selected
  BY <1>2, <1>7 DEF Funds
<1>10. /\ prior \in UNION {[D -> Flagged] : D \in SUBSET Nat}
       /\ was \in UNION {[D -> BOOLEAN] : D \in SUBSET Codes}
  <2>1. DOMAIN contract \in SUBSET Nat /\ DOMAIN owner \in SUBSET Codes  BY <1>7
  <2> QED  BY <1>8, <1>9, <2>1
<1>11. /\ r \in Requests /\ r.pc = "codes" /\ r.codes = q.codes /\ r.todo = q.todo
       /\ r.failed = q.failed /\ r.alone = q.alone /\ r.was = was /\ r.prior = prior
  BY <1>4, <1>6, <1>10 DEF RequestIsTyped, Requests
<1>12. RequestIsTyped(r)  BY <1>6, <1>11 DEF RequestIsTyped
<1>13. Undoable(r, Store)  BY <1>7, <1>8, <1>9, <1>11, StoreColumns DEF Undoable
<1>14. q.alone => Found(r, Store)
  <2>1. Open(r) = q.todo /\ Open(q) = q.todo  BY <1>6, <1>11 DEF Open
  <2> QED  BY <1>6, <1>11, <2>1 DEF Informed, Found
<1>15. Informed(r, Store)  BY <1>11, <1>13, <1>14 DEF Informed, Matched
<1> QED  BY <1>5, <1>12, <1>15, Reads

LEMMA CodesAddedKeeps == ASSUME UniverseInv, NEW u \in Users, CodesAdded(u)  PROVE UniverseInv'
<1>1. PICK q : q = req[u]  OBVIOUS
<1>2. PICK r : r = [q EXCEPT !.pc = "select"]  OBVIOUS
<1>3. /\ Read(u, r) /\ q.pc = "codes" /\ q.todo = {} /\ ~q.failed
      /\ RequestIsTyped(q) /\ Informed(q, Store)
  BY <1>1, <1>2 DEF CodesAdded, UniverseInv, UniverseTypes
<1>4. /\ r \in Requests /\ r.pc = "select" /\ r.codes = q.codes /\ r.todo = q.todo
      /\ r.alone = q.alone /\ r.was = q.was /\ r.prior = q.prior /\ r.merged = q.merged
  BY <1>2, <1>3 DEF RequestIsTyped, Requests
<1>5. RequestIsTyped(r)  BY <1>3, <1>4 DEF RequestIsTyped
<1>6. Open(q) = {}  BY <1>3 DEF Open
<1>7. Informed(r, Store)  BY <1>3, <1>4, <1>6 DEF Informed, Matched, Found, Undoable
<1> QED  BY <1>3, <1>5, <1>7, Reads

LEMMA WritePositionsKeeps ==
  ASSUME UniverseInv, NEW u \in Users, WritePositions(u)  PROVE UniverseInv'
<1>1. PICK r : r = Idle  OBVIOUS
<1>2. Read(u, r)  BY <1>1 DEF WritePositions
<1> QED  BY <1>1, <1>2, IdleIsTyped, Reads

\* A store whose contracts get other flags.
LEMMA FlagsKeepStores ==
  ASSUME NEW s, IsStore(s), NEW f, DOMAIN f = DOMAIN s.contract,
         \A i \in DOMAIN f : f[i] \in Funds /\ f[i].rep = s.contract[i].rep,
         NEW t, t = [contract |-> f, owner |-> s.owner, lastId |-> s.lastId]
  PROVE  IsStore(t)
<1>1. t.contract = f /\ t.owner = s.owner /\ t.lastId = s.lastId  OBVIOUS
<1>2. t = [contract |-> t.contract, owner |-> t.owner, lastId |-> t.lastId]  BY <1>1
<1>3. /\ s.lastId \in Nat
      /\ \A i \in DOMAIN s.contract : i \in 1..s.lastId
      /\ \A i, j \in DOMAIN s.contract : s.contract[i].rep = s.contract[j].rep => i = j
      /\ \A c \in DOMAIN s.owner : c \in Codes /\ s.owner[c] \in DOMAIN s.contract
      /\ \A i \in DOMAIN s.contract : \E c \in DOMAIN s.owner : s.owner[c] = i
  BY DEF IsStore
<1> QED  BY <1>1, <1>2, <1>3 DEF IsStore

LEMMA FlagsKeepNames ==
  ASSUME NEW s, FirstNames(s), NEW f, DOMAIN f = DOMAIN s.contract,
         \A i \in DOMAIN f : f[i].rep = s.contract[i].rep,
         NEW t, t = [contract |-> f, owner |-> s.owner, lastId |-> s.lastId]
  PROVE  FirstNames(t)
<1>1. t.contract = f /\ t.owner = s.owner  OBVIOUS
<1> QED  BY <1>1 DEF FirstNames, Owns

\* Contracts with other flags: a contract's row but for selected and dependency.
Reflagged(i, selected, dependency) == Contract(contract[i].rep, contract[i].key, selected, dependency)

LEMMA ReflaggedColumns ==
  ASSUME UniverseInv, NEW i \in DOMAIN contract, NEW on \in BOOLEAN, NEW dependency \in BOOLEAN
  PROVE  /\ Reflagged(i, on, dependency) \in Funds
         /\ Reflagged(i, on, dependency).rep = contract[i].rep
         /\ Reflagged(i, on, dependency).key = contract[i].key
         /\ Reflagged(i, on, dependency).selected = on
         /\ Reflagged(i, on, dependency).dependency = dependency
<1>1. contract[i].rep \in Codes /\ contract[i].key \in Keys
  BY StoreColumns DEF UniverseInv, UniverseTypes, IsStore, Funds
<1> QED  BY <1>1, ContractColumns DEF Reflagged

LEMMA SelectPositionsKeeps ==
  ASSUME UniverseInv, NEW u \in Users, SelectPositions(u)
  PROVE  UniverseInv' /\ (FirstNames(Store) => FirstNames(Store'))
<1> DEFINE yes == TRUE
           no == FALSE
           chosen == ContractsOf(req[u].codes)
<1>1. PICK f : f = [i \in DOMAIN contract |->
                      IF i \in chosen THEN Reflagged(i, yes, no) ELSE contract[i]]
  OBVIOUS
<1>2. PICK t : t = [contract |-> f, owner |-> Store.owner, lastId |-> Store.lastId]  OBVIOUS
<1>3. PICK q : q = req[u]  OBVIOUS
<1>4. PICK r : r = [q EXCEPT !.pc = "write"]  OBVIOUS
<1>5. Commit(t)
  <2>1. [Store EXCEPT !.contract = f] = t  BY <1>2 DEF Store
  <2> QED  BY <1>1, <2>1 DEF SelectPositions, Reflagged
<1>6. Written(u, r) /\ q.pc = "select"  BY <1>3, <1>4 DEF SelectPositions
<1> HIDE DEF yes, no, chosen
<1>7. yes \in BOOLEAN /\ no \in BOOLEAN /\ yes /\ ~no  BY DEF yes, no
<1>8. IsStore(Store) /\ RequestIsTyped(q) /\ Informed(q, Store)
  BY <1>3 DEF UniverseInv, UniverseTypes
<1>9. /\ DOMAIN f = DOMAIN Store.contract
      /\ \A i \in DOMAIN f : f[i] \in Funds /\ f[i].rep = Store.contract[i].rep
      /\ \A i \in DOMAIN f : i \in chosen => f[i].selected /\ ~f[i].dependency
      /\ \A i \in DOMAIN f : i \notin chosen => f[i] = Store.contract[i]
  BY <1>1, <1>7, <1>8, ReflaggedColumns, StoreColumns DEF IsStore
<1>10. IsStore(t) /\ (FirstNames(Store) => FirstNames(t))
  <2>1. PICK s : s = Store  OBVIOUS
  <2> QED  BY <1>2, <1>8, <1>9, <2>1, FlagsKeepStores, FlagsKeepNames
<1>11. /\ r \in Requests /\ r.pc = "write" /\ r.codes = q.codes /\ r.todo = q.todo
       /\ r.alone = q.alone /\ r.was = q.was /\ r.prior = q.prior /\ r.merged = q.merged
  BY <1>4, <1>8 DEF RequestIsTyped, Requests
<1>12. RequestIsTyped(r)  BY <1>6, <1>8, <1>11 DEF RequestIsTyped
<1>13. t.contract = f /\ t.owner = owner  BY <1>2, StoreColumns
<1>14. chosen = Holding(t, q.codes) /\ chosen = Holding(Store, q.codes)
  BY <1>3, <1>13, StoreColumns DEF chosen, ContractsOf, Holding
<1>15. r.alone => Found(r, t) /\ Undoable(r, t)
  <2> SUFFICES ASSUME r.alone  PROVE Found(r, t) /\ Undoable(r, t)  OBVIOUS
  <2>1. Found(q, Store) /\ Undoable(q, Store)  BY <1>6, <1>8, <1>11 DEF Informed
  <2>2. q.codes \subseteq DOMAIN owner  BY <1>6, <2>1, StoreColumns DEF Found
  <2>3. \A c \in DOMAIN owner : owner[c] \in DOMAIN f  BY <1>8, <1>9, StoreColumns DEF IsStore
  <2>4. \A c \in q.codes : owner[c] \in chosen  BY <1>14, <2>2, StoreColumns DEF Holding
  <2>5. Found(r, t)  BY <1>9, <1>11, <1>13, <2>2, <2>3, <2>4 DEF Found
  <2>6. Undoable(r, t)
    BY <1>9, <1>11, <1>13, <1>14, <2>1, <2>3, StoreColumns DEF Undoable
  <2> QED  BY <2>5, <2>6
<1>16. Informed(r, t)  BY <1>11, <1>15 DEF Informed, Matched
<1> QED  BY <1>5, <1>6, <1>10, <1>12, <1>16, Writes

LEMMA RestoreMakes ==
  ASSUME UniverseInv, NEW u \in Users, Restore(u)
  PROVE  /\ UniverseInv' /\ (FirstNames(Store) => FirstNames(Store'))
         /\ owner' = owner
         /\ \A i \in DOMAIN contract :
               contract'[i].selected = IF i \in ContractsOf(req[u].codes)
                                       THEN RestoredFlags(u, i).selected
                                       ELSE contract[i].selected
<1> DEFINE chosen == ContractsOf(req[u].codes)
           on(i) == RestoredFlags(u, i).selected
           dependency(i) == RestoredFlags(u, i).dependency
<1>1. PICK f : f = [i \in DOMAIN contract |->
                      IF i \in chosen THEN Reflagged(i, on(i), dependency(i)) ELSE contract[i]]
  OBVIOUS
<1>2. PICK t : t = [contract |-> f, owner |-> Store.owner, lastId |-> Store.lastId]  OBVIOUS
<1>3. PICK r : r = Idle  OBVIOUS
<1>4. Commit(t)
  <2>1. [Store EXCEPT !.contract = f] = t  BY <1>2 DEF Store
  <2> QED  BY <1>1, <2>1 DEF Restore, Reflagged
<1>5. Written(u, r)  BY <1>3 DEF Restore
<1>6. IsStore(Store) /\ RequestIsTyped(req[u])  BY DEF UniverseInv, UniverseTypes
<1>7. \A i : on(i) \in BOOLEAN /\ dependency(i) \in BOOLEAN
  <2>1. PICK q : q = req[u]  OBVIOUS
  <2>2. q.prior \in UNION {[D -> Flagged] : D \in SUBSET Nat}
    BY <1>6, <2>1 DEF RequestIsTyped, Requests
  <2>3. \A i \in DOMAIN q.prior : q.prior[i] \in Flagged  BY <2>2
  <2>4. \A i : RestoredFlags(u, i) \in Flagged  BY <2>1, <2>3 DEF RestoredFlags, Flagged
  <2> QED  BY <2>4 DEF Flagged
<1> HIDE DEF chosen, on, dependency
<1>8. /\ DOMAIN f = DOMAIN Store.contract
      /\ \A i \in DOMAIN f : f[i] \in Funds /\ f[i].rep = Store.contract[i].rep
      /\ \A i \in DOMAIN f : i \in chosen => f[i].selected = on(i)
      /\ \A i \in DOMAIN f : i \notin chosen => f[i] = Store.contract[i]
  BY <1>1, <1>6, <1>7, ReflaggedColumns, StoreColumns DEF IsStore
<1>9. IsStore(t) /\ (FirstNames(Store) => FirstNames(t))
  <2>1. PICK s : s = Store  OBVIOUS
  <2> QED  BY <1>2, <1>6, <1>8, <2>1, FlagsKeepStores, FlagsKeepNames
<1>10. UniverseInv' /\ Store' = t  BY <1>3, <1>4, <1>5, <1>9, IdleIsTyped, Writes
<1>11. contract' = f /\ owner' = owner  BY <1>2, <1>4, StoreColumns DEF Commit
<1> QED  BY <1>8, <1>9, <1>10, <1>11, StoreColumns DEF chosen, on

LEMMA ArchiveKeeps ==
  ASSUME UniverseInv, Archive
  PROVE  UniverseInv' /\ (FirstNames(Store) => FirstNames(Store'))
<1> DEFINE no == FALSE
<1>1. PICK i \in DOMAIN contract : Commit([Store EXCEPT !.contract[i].selected = no])
  BY DEF Archive
<1> HIDE DEF no
<1>2. PICK f : f = [contract EXCEPT ![i].selected = no]  OBVIOUS
<1>3. PICK t : t = [contract |-> f, owner |-> Store.owner, lastId |-> Store.lastId]  OBVIOUS
<1>4. PICK r : r = Idle  OBVIOUS
<1>5. PICK row : row = contract[i]  OBVIOUS
<1>6. IsStore(Store) /\ row \in Funds
  BY <1>5, StoreColumns DEF UniverseInv, UniverseTypes, IsStore
<1>7. [Store EXCEPT !.contract[i].selected = no] = t
  BY <1>2, <1>3 DEF Store
<1>8. Commit(t) /\ Written(Nobody, r)  BY <1>1, <1>4, <1>7 DEF Archive
<1>9. no \in BOOLEAN  BY DEF no
<1>10. [row EXCEPT !.selected = no] \in Funds /\ [row EXCEPT !.selected = no].rep = row.rep
  BY <1>6, <1>9 DEF Funds
<1>11. f[i] = [row EXCEPT !.selected = no] /\ DOMAIN f = DOMAIN contract
       /\ \A j \in DOMAIN contract : j # i => f[j] = contract[j]
  BY <1>2, <1>5
<1>12. /\ DOMAIN f = DOMAIN Store.contract
       /\ \A j \in DOMAIN f : f[j] \in Funds /\ f[j].rep = Store.contract[j].rep
  BY <1>5, <1>6, <1>10, <1>11, StoreColumns DEF IsStore
<1>13. IsStore(t) /\ (FirstNames(Store) => FirstNames(t))
  <2>1. PICK s : s = Store  OBVIOUS
  <2> QED  BY <1>3, <1>6, <1>12, <2>1, FlagsKeepStores, FlagsKeepNames
<1> QED  BY <1>8, <1>13, RequestsAreOfUsers, Writes

LEMMA FilesFit == \A rows \in Files : RowsFit(rows)
<1> SUFFICES ASSUME NEW rows \in Files  PROVE RowsFit(rows)  OBVIOUS
<1>1. /\ IsFiniteSet(rows)
      /\ \A r \in rows : /\ r.rep \in r.shares /\ r.shares \subseteq Codes /\ r.enabled \in BOOLEAN
                         /\ \A q \in rows \ {r} : r.shares \cap q.shares = {}
  BY FilesAreValid
<1>2. \A r \in rows : r.key \in Keys  BY DEF Keys
<1>3. ASSUME NEW q \in rows, NEW r \in rows, q # r  PROVE q.rep # r.rep /\ q.shares \cap r.shares = {}
  BY <1>1, <1>3
<1> QED  BY <1>1, <1>2, <1>3 DEF RowsFit

\* Every row of a file is named after the first of its shares.
FilesNameTheFirst == \A rows \in Files : \A row \in rows : \A c \in row.shares : Priority[row.rep] <= Priority[c]

LEMMA ImportFileKeeps ==
  ASSUME UniverseInv, ImportFile
  PROVE  UniverseInv' /\ (FilesNameTheFirst /\ FirstNames(Store) => FirstNames(Store'))
<1>1. PICK rows \in Files : /\ \A row \in rows : ~Conflicts(Store, row)
                            /\ \E id \in Assignments(Store, rows) : Commit(Upserted(Store, rows, id))
  BY DEF ImportFile
<1>2. PICK s : s = Store  OBVIOUS
<1>3. PICK id \in Assignments(s, rows) : Commit(Upserted(s, rows, id))  BY <1>1, <1>2
<1>4. PICK r : r = Idle  OBVIOUS
<1>5. Written(Nobody, r)  BY <1>4 DEF ImportFile
<1>6. IsStore(s) /\ RowsFit(rows)  BY <1>2, FilesFit DEF UniverseInv, UniverseTypes
<1>7. IsPlaced(s, rows, id)  BY <1>1, <1>2, <1>3, <1>6, RowsArePlaced
<1>8. \A row \in rows : id[row] \in 1..(s.lastId + Cardinality(NewRows(s, rows)))
  <2> DEFINE known == UNION {Holders(s, row.rep) : row \in rows}
             count == Cardinality(NewRows(s, rows))
  <2>1. id \in [rows -> known \cup (s.lastId + 1)..(s.lastId + count)]  BY <1>3 DEF Assignments
  <2>2. count \in Nat /\ s.lastId \in Nat  BY <1>6, NewIdsAreCounted DEF IsStore
  <2>3. \A i \in known : i \in 1..s.lastId  BY <1>6 DEF Holders, IsStore
  <2> HIDE DEF known, count
  <2>4. ASSUME NEW row \in rows  PROVE id[row] \in 1..(s.lastId + count)
    <3>1. id[row] \in known \/ id[row] \in (s.lastId + 1)..(s.lastId + count)  BY <2>1
    <3>2. id[row] \in known => id[row] \in 1..s.lastId  BY <2>3
    <3> QED  BY <2>2, <3>1, <3>2
  <2> QED  BY <2>4 DEF count
<1>9. PICK t : t = Upserted(s, rows, id)  OBVIOUS
<1>10. IsStore(t)  BY <1>6, <1>7, <1>8, <1>9, UpsertKeeps
<1>11. FilesNameTheFirst /\ FirstNames(s) => FirstNames(t)
  <2> SUFFICES ASSUME FilesNameTheFirst, FirstNames(s)  PROVE FirstNames(t)  OBVIOUS
  <2>1. \A row \in rows : /\ Holders(s, row.rep) = {} => row.rep \in row.shares
                          /\ \A c \in row.shares : Priority[row.rep] <= Priority[c]
    BY FilesAreValid DEF FilesNameTheFirst
  <2> QED  BY <1>6, <1>7, <1>9, <2>1, UpsertNames
<1> QED  BY <1>2, <1>3, <1>5, <1>9, <1>10, <1>11, RequestsAreOfUsers, Writes

LEMMA ReconcileKeeps ==
  ASSUME UniverseInv, Reconcile
  PROVE  UniverseInv' /\ (FirstNames(Store) => FirstNames(Store'))
<1>1. PICK s : s = Store  OBVIOUS
<1> DEFINE on == {i \in DOMAIN s.contract : s.contract[i].selected}
           like(i) == {j \in DOMAIN s.contract : s.contract[j].key = s.contract[i].key /\ j \in on}
<1>2. PICK into : into = [i \in on |-> Preferred(s, like(i))]  OBVIOUS
<1>3. Commit(Absorb(s, into))
  <2>1. \A i \in on : SelectedGroup(contract[i].key) = like(i)
    BY <1>1, StoreColumns DEF SelectedGroup, Matching
  <2>2. on = {i \in DOMAIN contract : contract[i].selected}  BY <1>1, StoreColumns
  <2> HIDE DEF on, like
  <2>3. [i \in {i \in DOMAIN contract : contract[i].selected} |->
            Preferred(Store, SelectedGroup(contract[i].key))] = into
    BY <1>1, <1>2, <2>1, <2>2
  <2> QED  BY <1>1, <2>3 DEF Reconcile
<1>4. PICK r : r = Idle  OBVIOUS
<1>5. Written(Nobody, r)  BY <1>4 DEF Reconcile
<1>6. IsStore(s)  BY <1>1 DEF UniverseInv, UniverseTypes
<1>7. ASSUME NEW i \in on
      PROVE  /\ Preferred(s, like(i)) \in like(i)
             /\ RepPriority(s, Preferred(s, like(i))) <= RepPriority(s, i)
  <2>1. like(i) \in SUBSET (DOMAIN s.contract) /\ i \in like(i)  OBVIOUS
  <2> HIDE DEF like
  <2>2. like(i) # {}  BY <2>1
  <2> QED  BY <1>6, <2>1, <2>2, OneIsPreferred
<1>8. DOMAIN into = on /\ on \subseteq DOMAIN s.contract  BY <1>2
<1>9. ASSUME NEW i \in DOMAIN into
      PROVE  /\ into[i] \in DOMAIN into /\ into[i] \in DOMAIN s.contract
             /\ into[into[i]] = into[i] /\ RepPriority(s, into[i]) <= RepPriority(s, i)
  <2>1. into[i] = Preferred(s, like(i)) /\ into[i] \in like(i)
        /\ RepPriority(s, into[i]) <= RepPriority(s, i)
    BY <1>2, <1>7, <1>8
  <2>2. into[i] \in on /\ like(into[i]) = like(i)  BY <2>1
  <2> HIDE DEF on, like
  <2>3. into[into[i]] = Preferred(s, like(i))  BY <1>2, <2>2
  <2> QED  BY <1>8, <2>1, <2>2, <2>3
<1>10. PICK t : t = Absorb(s, into)  OBVIOUS
<1> HIDE DEF on, like
<1>11. IsStore(t)  BY <1>6, <1>9, <1>10, AbsorbKeeps
<1>12. FirstNames(s) => FirstNames(t)  BY <1>6, <1>8, <1>9, <1>10, AbsorbNames
<1> QED  BY <1>1, <1>3, <1>5, <1>10, <1>11, <1>12, RequestsAreOfUsers, Writes

LEMMA AddDependencyKeeps ==
  ASSUME UniverseInv, AddDependency
  PROVE  UniverseInv' /\ (FirstNames(Store) => FirstNames(Store'))
<1> DEFINE id == lastId + 1
           yes == TRUE
           no == FALSE
           made(c) == [contract |-> [i \in DOMAIN contract \cup {id} |->
                                      IF i = id THEN Contract(c, c, no, yes) ELSE contract[i]],
                       owner    |-> [d \in DOMAIN owner \cup {c} |-> IF d = c THEN id ELSE owner[d]],
                       lastId   |-> id]
<1>1. PICK c \in Codes \ DOMAIN owner : Holders(Store, c) = {} /\ Commit(made(c))
  BY DEF AddDependency
<1>2. PICK t : t = made(c)  OBVIOUS
<1>3. PICK r : r = Idle  OBVIOUS
<1>4. Written(Nobody, r)  BY <1>3 DEF AddDependency
<1>5. IsStore(Store)  BY DEF UniverseInv, UniverseTypes
<1>6. /\ lastId \in Nat /\ id \in Nat
      /\ \A i \in DOMAIN contract : i \in 1..lastId /\ i \in 1..id /\ i # id
  BY <1>5, StoreColumns DEF IsStore
<1>7. yes \in BOOLEAN /\ no \in BOOLEAN /\ c \in Codes /\ c \in Keys  BY DEF Keys
<1>8. id \in 1..id  BY <1>6
<1> DEFINE new == Contract(c, c, no, yes)
<1>9. /\ t.contract = [i \in DOMAIN contract \cup {id} |-> IF i = id THEN new ELSE contract[i]]
      /\ t.owner = [d \in DOMAIN owner \cup {c} |-> IF d = c THEN id ELSE owner[d]]
      /\ t.lastId = id
      /\ t = [contract |-> t.contract, owner |-> t.owner, lastId |-> t.lastId]
  BY <1>2
<1> HIDE DEF yes, no, id, made
<1>10. new \in Funds /\ new.rep = c  BY <1>7, ContractColumns
<1> HIDE DEF new
<1>11. /\ DOMAIN t.contract = DOMAIN contract \cup {id} /\ t.contract[id] = new
       /\ \A i \in DOMAIN contract : t.contract[i] = contract[i]
       /\ DOMAIN t.owner = DOMAIN owner \cup {c} /\ t.owner[c] = id
       /\ \A d \in DOMAIN owner : t.owner[d] = owner[d]
  BY <1>1, <1>6, <1>9
<1>12. \A i \in DOMAIN contract : contract[i].rep # c  BY <1>1, StoreColumns DEF Holders
<1>13. IsStore(t)
  <2>1. \A i \in DOMAIN t.contract : i \in 1..t.lastId /\ t.contract[i] \in Funds
    BY <1>5, <1>6, <1>8, <1>9, <1>10, <1>11, StoreColumns DEF IsStore
  <2>2. \A i, j \in DOMAIN t.contract : t.contract[i].rep = t.contract[j].rep => i = j
    BY <1>5, <1>10, <1>11, <1>12, StoreColumns DEF IsStore
  <2>3. \A d \in DOMAIN t.owner : d \in Codes /\ t.owner[d] \in DOMAIN t.contract
    BY <1>5, <1>7, <1>11, StoreColumns DEF IsStore
  <2>4. \A i \in DOMAIN t.contract : \E d \in DOMAIN t.owner : t.owner[d] = i
    BY <1>5, <1>11, StoreColumns DEF IsStore
  <2> QED  BY <1>6, <1>9, <2>1, <2>2, <2>3, <2>4 DEF IsStore
<1>14. FirstNames(Store) => FirstNames(t)
  <2> SUFFICES ASSUME FirstNames(Store)  PROVE FirstNames(t)  OBVIOUS
  <2>1. Priority[c] <= Priority[c]
    <3>1. Priority[c] \in Nat  BY <1>7, PrioritiesAreNumbers
    <3> QED  BY <3>1
  <2>2. \A d \in DOMAIN owner : owner[d] # id  BY <1>5, <1>6, StoreColumns DEF IsStore
  <2>3. ASSUME NEW i \in DOMAIN contract
        PROVE  /\ Owns(t, i, t.contract[i].rep)
               /\ \A d \in DOMAIN t.owner : t.owner[d] = i => Priority[t.contract[i].rep] <= Priority[d]
    <3>1. /\ Owns(Store, i, contract[i].rep)
          /\ \A d \in DOMAIN owner : owner[d] = i => Priority[contract[i].rep] <= Priority[d]
      BY StoreColumns DEF FirstNames
    <3> QED  BY <1>6, <1>11, <3>1, StoreColumns DEF Owns
  <2>4. /\ Owns(t, id, t.contract[id].rep)
        /\ \A d \in DOMAIN t.owner : t.owner[d] = id => Priority[t.contract[id].rep] <= Priority[d]
    BY <1>10, <1>11, <2>1, <2>2 DEF Owns
  <2> QED  BY <1>11, <2>3, <2>4 DEF FirstNames
<1> QED  BY <1>1, <1>2, <1>4, <1>13, <1>14, RequestsAreOfUsers, Writes

-----------------------------------------------------------------------------
(* An import that runs alone.                                               *)

\* What it commits from is what it has matched: the contract it keeps is the
\* only one that still has the catalog's name.
LEMMA MatchTells ==
  ASSUME UniverseInv, NEW u \in Users, Importing(u), req[u].alone
  PROVE  LET m == MergedStore(u)
             primary == req[u].primary
         IN /\ req[u].matches = {} => RepOfMatch(u) = req[u].code
            /\ req[u].matches # {} => /\ primary \in DOMAIN m.contract
                                      /\ m.contract[primary].rep = RepOfMatch(u)
            /\ \A j \in DOMAIN m.contract :
                  m.contract[j].key = CatalogKey[req[u].code] => req[u].matches # {} /\ j = primary
            /\ FirstNames(Store) =>
                  /\ FirstNames(m)
                  /\ req[u].matches # {} => BestOfMatch(u) = Priority[RepOfMatch(u)]
<1> DEFINE m == MergedStore(u)
           q == req[u]
           primary == q.primary
           into == [i \in q.matches |-> primary]
<1>1. /\ IsStore(Store) /\ Store.contract = contract /\ Store.owner = owner
      /\ RequestIsTyped(q) /\ q.pc = "commit" /\ Informed(q, Store)
  BY StoreColumns DEF UniverseInv, UniverseTypes, Importing
<1>2. Matched(q, Store)  BY <1>1 DEF Informed
<1>3. /\ q.matches = {i \in DOMAIN contract : contract[i].key = CatalogKey[q.code]}
      /\ q.matches = {} => q.rep = q.code
      /\ q.matches # {} => /\ primary \in q.matches
                           /\ q.rep = contract[primary].rep /\ q.best = RepPriority(Store, primary)
                           /\ \A j \in q.matches : q.best <= RepPriority(Store, j)
  BY <1>1, <1>2 DEF Matched, Matching, RequestIsTyped
<1>4. q.matches # {} => primary \in DOMAIN contract  BY <1>3
<1>5. IsStore(m)  BY MergeKeeps DEF UniverseInv
<1>6. ASSUME FirstNames(m), NEW i \in DOMAIN m.contract
      PROVE  RepPriority(m, i) = Priority[m.contract[i].rep]
  BY <1>6 DEF FirstNames, RepPriority
<1>7. CASE ~Several(u)
  <2>1. m = Store /\ RepOfMatch(u) = q.rep /\ BestOfMatch(u) = q.best
    BY <1>7 DEF MergedStore, RepOfMatch, BestOfMatch, Several
  <2>2. ASSUME NEW j \in q.matches, j # primary  PROVE FALSE
    <3>1. q.matches \in SUBSET (DOMAIN Store.contract)  BY <1>1, <1>3
    <3>2. IsFiniteSet(q.matches)
      <4>1. PICK s : s = Store  OBVIOUS
      <4>2. PICK ids : ids = q.matches  OBVIOUS
      <4> QED  BY <1>1, <3>1, <4>1, <4>2, HoldersAreFinite
    <3>3. primary \in q.matches  BY <1>3
    <3>4. PICK ids : ids = q.matches  OBVIOUS
    <3>5. PICK k : k = primary  OBVIOUS
    <3>6. Cardinality(ids) > 1  BY <2>2, <3>2, <3>3, <3>4, <3>5, TwoAreMany
    <3> QED  BY <1>7, <3>4, <3>6 DEF Several
  <2> HIDE DEF m, q, primary, into
  <2>3. \A j \in DOMAIN m.contract :
           m.contract[j].key = CatalogKey[q.code] => q.matches # {} /\ j = primary
    BY <1>1, <1>3, <2>1, <2>2
  <2>4. q.matches # {} => primary \in DOMAIN m.contract /\ m.contract[primary].rep = RepOfMatch(u)
    BY <1>1, <1>3, <1>4, <2>1
  <2>5. FirstNames(m) /\ q.matches # {} => BestOfMatch(u) = Priority[RepOfMatch(u)]
    BY <1>3, <1>6, <2>1, <2>4
  <2> QED  BY <1>3, <2>1, <2>3, <2>4, <2>5 DEF m, q, primary
<1>8. CASE Several(u)
  <2>1. q.matches # {}  BY <1>8, SeveralAreSome
  <2>2. m = Absorb(Store, into)  BY <1>8 DEF MergedStore, Merge, Several
  <2>3. RepOfMatch(u) = m.contract[primary].rep /\ BestOfMatch(u) = RepPriority(m, primary)
    BY <1>8 DEF RepOfMatch, BestOfMatch, Several
  <2>4. DOMAIN into = q.matches /\ \A i \in q.matches : into[i] = primary  OBVIOUS
  <2>5. PICK s : s = Store  OBVIOUS
  <2>6. PICK f : f = into  OBVIOUS
  <2> HIDE DEF m, q, primary, into
  <2>7. \A i \in DOMAIN f : /\ f[i] \in DOMAIN f /\ f[i] \in DOMAIN s.contract
                            /\ f[f[i]] = f[i] /\ RepPriority(s, f[i]) <= RepPriority(s, i)
    BY <1>1, <1>3, <1>4, <2>1, <2>4, <2>5, <2>6
  <2>8. DOMAIN f \subseteq DOMAIN s.contract  BY <1>1, <1>3, <2>4, <2>5, <2>6
  <2>9. /\ DOMAIN m.contract = {i \in DOMAIN s.contract : i \in DOMAIN f => f[i] = i}
        /\ \A i \in DOMAIN m.contract :
              m.contract[i].rep = s.contract[i].rep /\ m.contract[i].key = s.contract[i].key
    BY <1>1, <2>2, <2>5, <2>6, <2>7, AbsorbKeeps
  <2>10. FirstNames(s) => FirstNames(m)
    BY <1>1, <2>2, <2>5, <2>6, <2>7, <2>8, AbsorbNames
  <2>11. primary \in DOMAIN m.contract  BY <1>1, <1>3, <1>4, <2>1, <2>4, <2>5, <2>6, <2>9
  <2>12. \A j \in DOMAIN m.contract :
            m.contract[j].key = CatalogKey[q.code] => q.matches # {} /\ j = primary
    BY <1>1, <1>3, <2>4, <2>5, <2>6, <2>9
  <2>13. FirstNames(m) => BestOfMatch(u) = Priority[RepOfMatch(u)]
    BY <1>6, <2>3, <2>11
  <2> QED  BY <2>1, <2>3, <2>5, <2>10, <2>11, <2>12, <2>13 DEF m, q, primary
<1> QED  BY <1>7, <1>8

LEMMA ImportLeavesOne ==
  ASSUME UniverseInv, NEW u \in Users, Importing(u), req[u].alone
  PROVE  LET x == Imported(u)
             code == req[u].code
         IN /\ {j \in DOMAIN x.contract : x.contract[j].key = CatalogKey[code]} = {x.owner[code]}
            /\ x.contract[x.owner[code]].selected /\ ~x.contract[x.owner[code]].dependency
<1> DEFINE m == MergedStore(u)
           x == Imported(u)
           code == req[u].code
           i == x.owner[code]
           primary == req[u].primary
<1>1. /\ DOMAIN x.contract = DOMAIN m.contract \cup {i}
      /\ \A j \in DOMAIN m.contract : j # i => x.contract[j] = m.contract[j]
      /\ \/ i \in Holders(m, RepOfMatch(u))
         \/ Holders(m, RepOfMatch(u)) = {} /\ i \notin DOMAIN m.contract
      /\ x.contract[i].key = CatalogKey[code]
      /\ x.contract[i].selected /\ ~x.contract[i].dependency
  BY ImportMakes DEF UniverseInv
<1>2. /\ req[u].matches # {} => primary \in DOMAIN m.contract /\ m.contract[primary].rep = RepOfMatch(u)
      /\ \A j \in DOMAIN m.contract :
            m.contract[j].key = CatalogKey[code] => req[u].matches # {} /\ j = primary
  BY MatchTells
<1>3. IsStore(m)  BY MergeKeeps DEF UniverseInv
<1> HIDE DEF m, x, code, i, primary
<1>4. ASSUME NEW j \in DOMAIN x.contract, x.contract[j].key = CatalogKey[code], j # i  PROVE FALSE
  <2>1. j \in DOMAIN m.contract /\ m.contract[j].key = CatalogKey[code]  BY <1>1, <1>4
  <2>2. req[u].matches # {} /\ j = primary /\ m.contract[j].rep = RepOfMatch(u)  BY <1>2, <2>1
  <2>3. j \in Holders(m, RepOfMatch(u))  BY <2>1, <2>2 DEF Holders
  <2>4. i \in Holders(m, RepOfMatch(u))  BY <1>1, <2>3
  <2> QED  BY <1>3, <1>4, <2>3, <2>4 DEF IsStore, Holders
<1>5. {j \in DOMAIN x.contract : x.contract[j].key = CatalogKey[code]} = {i}  BY <1>1, <1>4
<1> QED  BY <1>1, <1>5 DEF x, code, i

\* The contract is named after its first share again.
LEMMA ImportNames ==
  ASSUME UniverseInv, NEW u \in Users, Importing(u), req[u].alone, FirstNames(Store)
  PROVE  FirstNames(Imported(u))
<1> DEFINE m == MergedStore(u)
           x == Imported(u)
           code == req[u].code
           i == x.owner[code]
           primary == req[u].primary
           old == RepOfMatch(u)
           renamed == Priority[code] < BestOfMatch(u) \/ req[u].matches = {}
<1>1. /\ IsStore(x)
      /\ DOMAIN x.owner = DOMAIN owner \cup {code}
      /\ \A c \in DOMAIN owner : x.owner[c] = m.owner[c]
      /\ DOMAIN x.contract = DOMAIN m.contract \cup {i}
      /\ \A j \in DOMAIN m.contract : j # i => x.contract[j] = m.contract[j]
      /\ \/ i \in Holders(m, old)
         \/ Holders(m, old) = {} /\ i \notin DOMAIN m.contract
      /\ x.contract[i].rep = IF renamed THEN code ELSE old
  BY ImportMakes DEF UniverseInv
<1>2. /\ req[u].matches = {} => old = code
      /\ req[u].matches # {} => primary \in DOMAIN m.contract /\ m.contract[primary].rep = old
      /\ FirstNames(m)
      /\ req[u].matches # {} => BestOfMatch(u) = Priority[old]
  BY MatchTells
<1>3. IsStore(m) /\ DOMAIN m.owner = DOMAIN owner /\ old \in Codes  BY MergeKeeps DEF UniverseInv
<1>4. code \in Codes
  BY DEF Importing, UniverseInv, UniverseTypes, RequestIsTyped, Requests
<1>5. Priority[code] \in Nat /\ Priority[old] \in Nat  BY <1>3, <1>4, PrioritiesAreNumbers
<1> DEFINE some == req[u].matches # {}
           best == BestOfMatch(u)
<1>6. /\ ~some => old = code
      /\ some => primary \in DOMAIN m.contract /\ m.contract[primary].rep = old /\ best = Priority[old]
      /\ renamed <=> Priority[code] < best \/ ~some
  BY <1>2
<1> HIDE DEF m, x, code, i, primary, old, renamed, some, best
<1>7. i \in DOMAIN m.contract => m.contract[i].rep = old  BY <1>1 DEF Holders
<1>8. i \in DOMAIN m.contract =>
         /\ Owns(m, i, old)
         /\ \A c \in DOMAIN m.owner : m.owner[c] = i => Priority[old] <= Priority[c]
  BY <1>2, <1>7 DEF FirstNames
<1>9. renamed => Priority[code] <= Priority[old]  BY <1>5, <1>6
<1>10. ~renamed => Priority[old] <= Priority[code] /\ i \in DOMAIN m.contract
  <2> SUFFICES ASSUME ~renamed  PROVE Priority[old] <= Priority[code] /\ i \in DOMAIN m.contract
    OBVIOUS
  <2>1. some /\ ~(Priority[code] < Priority[old])  BY <1>6
  <2>2. primary \in Holders(m, old)  BY <1>6, <2>1 DEF Holders
  <2>3. i \in DOMAIN m.contract  BY <1>1, <2>2 DEF Holders
  <2> QED  BY <1>5, <2>1, <2>3
<1>11. \A c \in DOMAIN m.owner : c \in Codes /\ Priority[c] \in Nat /\ m.owner[c] \in DOMAIN m.contract
  BY <1>3, PrioritiesAreNumbers DEF IsStore
<1>12. /\ Owns(x, i, x.contract[i].rep)
       /\ \A c \in DOMAIN x.owner : x.owner[c] = i => Priority[x.contract[i].rep] <= Priority[c]
  <2>1. \A c \in DOMAIN x.owner : c = code \/ (c \in DOMAIN m.owner /\ x.owner[c] = m.owner[c])
    BY <1>1, <1>3
  <2>2. x.owner[code] = i /\ code \in DOMAIN x.owner  BY <1>1 DEF i
  <2>3. CASE renamed
    <3>1. x.contract[i].rep = code  BY <1>1, <2>3
    <3>2. \A c \in DOMAIN m.owner : m.owner[c] = i => Priority[code] <= Priority[c]
      BY <1>5, <1>8, <1>9, <1>11, <2>3
    <3> QED  BY <1>5, <2>1, <2>2, <3>1, <3>2 DEF Owns
  <2>4. CASE ~renamed
    <3>1. x.contract[i].rep = old  BY <1>1, <2>4
    <3>2. Owns(x, i, old)  BY <1>1, <1>3, <1>8, <1>10, <2>4 DEF Owns
    <3> QED  BY <1>8, <1>10, <2>1, <2>4, <3>1, <3>2
  <2> QED  BY <2>3, <2>4
<1>13. ASSUME NEW j \in DOMAIN m.contract, j # i
       PROVE  /\ Owns(x, j, x.contract[j].rep)
              /\ \A c \in DOMAIN x.owner : x.owner[c] = j => Priority[x.contract[j].rep] <= Priority[c]
  <2>1. x.contract[j] = m.contract[j]  BY <1>1, <1>13
  <2>2. /\ Owns(m, j, m.contract[j].rep)
        /\ \A c \in DOMAIN m.owner : m.owner[c] = j => Priority[m.contract[j].rep] <= Priority[c]
    BY <1>2 DEF FirstNames
  <2>3. \A c \in DOMAIN m.owner : c \in DOMAIN x.owner /\ x.owner[c] = m.owner[c]  BY <1>1, <1>3
  <2>4. \A c \in DOMAIN x.owner : x.owner[c] = j => c \in DOMAIN m.owner /\ m.owner[c] = j
    BY <1>1, <1>3, <1>13 DEF i
  <2> QED  BY <2>1, <2>2, <2>3, <2>4 DEF Owns
<1>14. FirstNames(x)  BY <1>1, <1>12, <1>13 DEF FirstNames
<1> QED  BY <1>14 DEF x

LEMMA CommitCodeKeeps ==
  ASSUME UniverseInv, NEW u \in Users, CommitCode(u)
  PROVE  /\ UniverseInv' /\ Store' = Imported(u)
         /\ req[u].alone /\ FirstNames(Store) => FirstNames(Store')
<1>1. Importing(u)  BY DEF CommitCode, Importing
<1>2. PICK t : t = Imported(u)  OBVIOUS
<1>3. PICK q : q = req[u]  OBVIOUS
<1>4. PICK merged : merged = (q.merged \/ Several(u))  OBVIOUS
<1>5. PICK n : n = [q EXCEPT !.merged = merged]  OBVIOUS
<1>6. PICK r : r = NextCode(u, n)  OBVIOUS
<1>7. Commit(t) /\ Written(u, r)  BY <1>2, <1>3, <1>4, <1>5, <1>6 DEF CommitCode, Several
<1>8. RequestIsTyped(q) /\ Informed(q, Store) /\ q.pc = "commit" /\ IsStore(Store)
  BY <1>1, <1>3 DEF UniverseInv, UniverseTypes, Importing
<1> DEFINE m == MergedStore(u)
           code == q.code
           i == t.owner[code]
<1>9. /\ IsStore(t)
      /\ DOMAIN t.owner = DOMAIN owner \cup {code}
      /\ \A c \in DOMAIN owner : t.owner[c] = m.owner[c]
      /\ DOMAIN t.contract = DOMAIN m.contract \cup {i}
      /\ \A j \in DOMAIN m.contract : j # i => t.contract[j] = m.contract[j]
  BY <1>1, <1>2, <1>3, ImportMakes DEF UniverseInv
<1>10. ~Several(u) => m = Store  BY <1>1, MergeKeeps DEF UniverseInv
<1>11. merged \in BOOLEAN
  <2>1. q.merged \in BOOLEAN  BY <1>8 DEF RequestIsTyped, Requests
  <2> QED  BY <1>4, <2>1, Zenon
<1> HIDE DEF m, code, i
<1>12. /\ n \in Requests /\ n.pc = q.pc /\ n.codes = q.codes /\ n.todo = q.todo /\ n.failed = q.failed
       /\ n.alone = q.alone /\ n.was = q.was /\ n.prior = q.prior /\ n.merged = merged
       /\ n.code = q.code /\ n.rep = q.rep /\ n.matches = q.matches /\ n.primary = q.primary
  BY <1>5, <1>8, <1>11 DEF RequestIsTyped, Requests
<1>13. RequestIsTyped(n)  BY <1>8, <1>12 DEF RequestIsTyped
<1>14. code \in q.codes  BY <1>8 DEF RequestIsTyped, code
<1>15. ASSUME n.alone  PROVE (n.failed \/ n.codes \ n.todo \subseteq DOMAIN t.owner) /\ Undoable(n, t)
  <2>1. Found(q, Store) /\ Undoable(q, Store)  BY <1>8, <1>12, <1>15 DEF Informed
  <2>2. q.failed \/ q.codes \ (q.todo \cup {code}) \subseteq DOMAIN owner
    BY <1>8, <2>1, StoreColumns DEF Found, Open, code
  <2>3. n.failed \/ n.codes \ n.todo \subseteq DOMAIN t.owner  BY <1>9, <1>12, <2>2
  <2>4. DOMAIN n.was \subseteq DOMAIN owner /\ DOMAIN owner \subseteq DOMAIN t.owner
    BY <1>9, <1>12, <2>1, StoreColumns DEF Undoable
  <2>5. ASSUME ~n.merged
        PROVE  /\ \A c \in DOMAIN n.was :
                     /\ t.owner[c] \in DOMAIN n.prior
                     /\ n.prior[t.owner[c]].selected = n.was[c]
                     /\ t.owner[c] \notin Holding(t, n.codes) =>
                           t.contract[t.owner[c]].selected = n.was[c]
               /\ \A j \in DOMAIN n.prior : \E d \in DOMAIN n.was : t.owner[d] = j
    <3>1. ~q.merged /\ m = Store  BY <1>4, <1>10, <1>12, <2>5
    <3>2. \A c \in DOMAIN owner : t.owner[c] = owner[c] /\ owner[c] \in DOMAIN contract
      BY <1>8, <1>9, <3>1, StoreColumns DEF IsStore
    <3>3. i \in Holding(t, n.codes)  BY <1>9, <1>12, <1>14 DEF Holding, i
    <3>4. Holding(Store, q.codes) \subseteq Holding(t, n.codes)
      BY <1>12, <2>4, <3>2, StoreColumns DEF Holding
    <3>5. \A j \in DOMAIN contract : j # i => t.contract[j] = contract[j]
      BY <1>9, <3>1, StoreColumns
    <3>6. /\ \A c \in DOMAIN q.was :
                /\ owner[c] \in DOMAIN q.prior
                /\ q.prior[owner[c]].selected = q.was[c]
                /\ owner[c] \notin Holding(Store, q.codes) => contract[owner[c]].selected = q.was[c]
          /\ \A j \in DOMAIN q.prior : \E d \in DOMAIN q.was : owner[d] = j
      BY <2>1, <3>1, StoreColumns DEF Undoable
    <3> QED  BY <1>12, <2>4, <3>2, <3>3, <3>4, <3>5, <3>6
  <2>6. Undoable(n, t)  BY <2>4, <2>5 DEF Undoable
  <2> QED  BY <2>3, <2>6
<1>16. RequestIsTyped(r) /\ Informed(r, t)  BY <1>6, <1>13, <1>15, NextCodeIsTyped
<1>17. UniverseInv' /\ Store' = t  BY <1>7, <1>9, <1>16, Writes
<1>18. req[u].alone /\ FirstNames(Store) => FirstNames(t)  BY <1>1, <1>2, ImportNames
<1> QED  BY <1>2, <1>17, <1>18

LEMMA UniverseStep == UniverseInv /\ [Next]_vars => UniverseInv'
<1> SUFFICES ASSUME UniverseInv, [Next]_vars  PROVE UniverseInv'  OBVIOUS
<1> USE DEF Users
<1>1. CASE \E u \in Importers : StartImport(u)  BY <1>1, StartImportKeeps
<1>2. CASE \E u \in Users : LookupFails(u) \/ MatchCode(u) \/ CommitCode(u) \/ CommitFails(u)
  BY <1>2, LookupFailsKeeps, MatchCodeKeeps, CommitCodeKeeps, CommitFailsKeeps
<1>3. CASE \E u \in Savers : \/ Preview(u) \/ ReadStates(u) \/ CodesAdded(u)
                             \/ SelectPositions(u) \/ WritePositions(u) \/ Restore(u)
  BY <1>3, PreviewKeeps, ReadStatesKeeps, CodesAddedKeeps, SelectPositionsKeeps,
     WritePositionsKeeps, RestoreMakes
<1>4. CASE Archive \/ ImportFile \/ Reconcile \/ AddDependency
  BY <1>4, ArchiveKeeps, ImportFileKeeps, ReconcileKeeps, AddDependencyKeeps
<1>5. CASE UNCHANGED vars
  BY <1>5 DEF vars, dbVars, UniverseInv, UniverseTypes, Store
<1> QED  BY <1>1, <1>2, <1>3, <1>4, <1>5 DEF Next

-----------------------------------------------------------------------------
(* The theorems.                                                            *)

\* Whatever the tables hold is well formed: ids that were handed out, one
\* contract per representative code, shares of contracts that exist
\* (fund_contract, fund_share).
THEOREM UniverseIsTyped == Spec => []TypeOK
<1>1. UniverseInv => TypeOK
  <2> SUFFICES ASSUME UniverseInv  PROVE TypeOK  OBVIOUS
  <2>1. IsStore(Store) /\ lastId <= MaxContracts /\ raced \in BOOLEAN
        /\ \A u \in Users : RequestIsTyped(req[u])
    BY DEF UniverseInv, UniverseTypes
  <2>2. DOMAIN contract \subseteq 1..lastId  BY <2>1, StoreColumns DEF IsStore
  <2>3. \A i \in DOMAIN contract :
           contract[i] \in [rep : Codes, key : Keys, selected : BOOLEAN, dependency : BOOLEAN]
    BY <2>1, StoreColumns DEF IsStore, Funds
  <2>4. \A i, j \in DOMAIN contract : contract[i].rep = contract[j].rep => i = j
    BY <2>1, StoreColumns DEF IsStore
  <2>5. DOMAIN owner \subseteq Codes /\ \A c \in DOMAIN owner : owner[c] \in DOMAIN contract
    BY <2>1, StoreColumns DEF IsStore
  <2>6. lastId \in 0..MaxContracts  BY <2>1, StoreColumns, RequestsAreOfUsers DEF IsStore
  <2>7. \A u \in Users :
           /\ req[u].pc \in {"idle", "states", "codes", "commit", "select", "write"}
           /\ req[u].todo \subseteq req[u].codes
           /\ req[u].codes \subseteq Codes
    BY <2>1 DEF RequestIsTyped, Requests
  <2> QED  BY <2>1, <2>2, <2>3, <2>4, <2>5, <2>6, <2>7 DEF TypeOK
<1> QED  BY <1>1, UniverseInit, UniverseStep, PTL DEF Spec

\* However imports, files, merges and dependencies came before, a catalog import
\* that runs alone leaves the fund with one contract, selected
\* (import_public_funds, merge_contract_group).
THEOREM ImportsUnify == Spec => ImportUnifies
<1>1. UniverseInv /\ [Next]_vars => [\A u \in Users : req[u].alone /\ CommitCode(u) => Unifies(u)]_vars
  <2> SUFFICES ASSUME UniverseInv, NEW u \in Users, req[u].alone, CommitCode(u)
               PROVE  Unifies(u)
    OBVIOUS
  <2>1. Importing(u) /\ contract' = Imported(u).contract /\ owner' = Imported(u).owner
    BY DEF CommitCode, Importing, Commit
  <2>2. /\ {j \in DOMAIN contract' : contract'[j].key = CatalogKey[req[u].code]}
             = {owner'[req[u].code]}
        /\ contract'[owner'[req[u].code]].selected /\ ~contract'[owner'[req[u].code]].dependency
    BY <2>1, ImportLeavesOne
  <2> QED  BY <2>2 DEF Unifies
<1> QED  BY <1>1, UniverseInit, UniverseStep, PTL DEF Spec, ImportUnifies

\* A portfolio import that runs alone has selected every fund of its file when it
\* writes the positions, or puts every flag back, whatever the file adds
\* (_commit_portfolio_workbook, _restore_portfolio_import_contract_states).
THEOREM ImportsAreAllOrNothing == Spec => ImportIsAllOrNothing
<1> DEFINE whole == \A u \in Savers : req[u].alone =>
                       /\ WritePositions(u) => AllSelected(u)
                       /\ Restore(u) /\ ~req[u].merged => Restored(u)
<1>1. UniverseInv /\ [Next]_vars => [whole]_vars
  <2> SUFFICES ASSUME UniverseInv, NEW u \in Savers, req[u].alone
               PROVE  /\ WritePositions(u) => AllSelected(u)
                      /\ Restore(u) /\ ~req[u].merged => Restored(u)
    OBVIOUS
  <2>1. u \in Users  BY DEF Users
  <2>2. Informed(req[u], Store) /\ IsStore(Store)  BY <2>1 DEF UniverseInv, UniverseTypes
  <2>3. ASSUME WritePositions(u)  PROVE AllSelected(u)
    <3>1. req[u].pc = "write"  BY <2>3 DEF WritePositions
    <3>2. Found(req[u], Store)  BY <2>2, <3>1 DEF Informed
    <3> QED  BY <3>1, <3>2, StoreColumns DEF Found, AllSelected, Selected
  <2>4. ASSUME Restore(u), ~req[u].merged  PROVE Restored(u)
    <3> DEFINE q == req[u]
               chosen == ContractsOf(q.codes)
    <3>1. /\ owner' = owner
          /\ \A i \in DOMAIN contract :
                contract'[i].selected = IF i \in chosen THEN RestoredFlags(u, i).selected
                                        ELSE contract[i].selected
      BY <2>1, <2>4, RestoreMakes
    <3>2. Undoable(q, Store)  BY <2>2, <2>4 DEF Informed, Restore
    <3>3. chosen = Holding(Store, q.codes)  BY StoreColumns DEF ContractsOf, Holding
    <3>4. \A i : RestoredFlags(u, i).selected = IF i \in DOMAIN q.prior THEN q.prior[i].selected ELSE FALSE
      BY DEF RestoredFlags
    <3>5. \A c \in DOMAIN owner : owner[c] \in DOMAIN contract  BY <2>2, StoreColumns DEF IsStore
    <3> HIDE DEF q, chosen
    <3>6. /\ DOMAIN q.was \subseteq DOMAIN owner
          /\ \A c \in DOMAIN q.was :
                /\ owner[c] \in DOMAIN q.prior
                /\ q.prior[owner[c]].selected = q.was[c]
                /\ owner[c] \notin chosen => contract[owner[c]].selected = q.was[c]
          /\ \A i \in DOMAIN q.prior : \E d \in DOMAIN q.was : owner[d] = i
      BY <2>4, <3>2, <3>3, StoreColumns DEF Undoable, q
    <3>7. \A c \in DOMAIN owner : contract'[owner[c]].selected =
             IF owner[c] \in chosen THEN RestoredFlags(u, owner[c]).selected
             ELSE contract[owner[c]].selected
      BY <3>1, <3>5
    <3>8. ASSUME NEW c \in DOMAIN q.was  PROVE Selected(c)' = q.was[c]
      <4>1. c \in DOMAIN owner' /\ owner'[c] = owner[c]  BY <3>1, <3>6
      <4>2. contract'[owner[c]].selected = q.was[c]  BY <3>4, <3>6, <3>7
      <4>3. q.was[c] \in BOOLEAN
        <5>1. q.was \in UNION {[D -> BOOLEAN] : D \in SUBSET Codes}
          BY <2>1 DEF q, UniverseInv, UniverseTypes, RequestIsTyped, Requests
        <5> QED  BY <5>1
      <4> QED  BY <4>1, <4>2, <4>3, Zenon DEF Selected
    <3>9. ASSUME NEW c \in q.codes \ DOMAIN q.was, Selected(c)'
          PROVE  \E d \in DOMAIN q.was : q.was[d] /\ owner'[d] = owner'[c]
      <4>1. c \in DOMAIN owner /\ contract'[owner[c]].selected  BY <3>1, <3>9 DEF Selected
      <4>2. owner[c] \in chosen  BY <3>3, <3>9, <4>1, StoreColumns DEF Holding
      <4>3. owner[c] \in DOMAIN q.prior /\ q.prior[owner[c]].selected
        BY <3>4, <3>7, <4>1, <4>2
      <4>4. PICK d \in DOMAIN q.was : owner[d] = owner[c]  BY <3>6, <4>3
      <4> QED  BY <3>1, <3>6, <4>3, <4>4
    <3> QED  BY <3>8, <3>9 DEF Restored, q
  <2> QED  BY <2>3, <2>4
<1> QED  BY <1>1, UniverseInit, UniverseStep, PTL DEF Spec, ImportIsAllOrNothing

LEMMA NamesStep ==
  ASSUME FilesNameTheFirst, UniverseInv, [Next]_vars, ~raced => FirstNames(Store)
  PROVE  ~raced' => FirstNames(Store')
<1> SUFFICES ASSUME ~raced'  PROVE FirstNames(Store')  OBVIOUS
<1> USE DEF Users
<1>1. ASSUME NEW u \in Users, NEW r, Read(u, r)  PROVE FirstNames(Store')
  <2>1. Store' = Store /\ raced' = raced  BY <1>1 DEF Read, dbVars, Store
  <2> QED  BY <2>1
<1>2. ASSUME NEW u, NEW r, Written(u, r)  PROVE ~raced /\ (u \in Users => req[u].alone)
  BY <1>2 DEF Written
<1>3. CASE \E u \in Importers : StartImport(u)  BY <1>1, <1>3 DEF StartImport
<1>4. ASSUME NEW u \in Users, LookupFails(u) \/ MatchCode(u) \/ CommitFails(u)
      PROVE  FirstNames(Store')
  BY <1>1, <1>4 DEF LookupFails, MatchCode, CommitFails
<1>5. ASSUME NEW u \in Users, CommitCode(u)  PROVE FirstNames(Store')
  <2>1. ~raced /\ req[u].alone  BY <1>2, <1>5 DEF CommitCode
  <2> QED  BY <1>5, <2>1, CommitCodeKeeps
<1>6. ASSUME NEW u \in Savers, Preview(u) \/ ReadStates(u) \/ CodesAdded(u) \/ WritePositions(u)
      PROVE  FirstNames(Store')
  BY <1>1, <1>6 DEF Preview, ReadStates, CodesAdded, WritePositions
<1>7. ASSUME NEW u \in Savers, SelectPositions(u) \/ Restore(u)  PROVE FirstNames(Store')
  <2>1. ~raced  BY <1>2, <1>7 DEF SelectPositions, Restore
  <2> QED  BY <1>7, <2>1, SelectPositionsKeeps, RestoreMakes
<1>8. CASE Archive \/ ImportFile \/ Reconcile \/ AddDependency
  <2>1. ~raced  BY <1>2, <1>8 DEF Archive, ImportFile, Reconcile, AddDependency
  <2> QED  BY <1>8, <2>1, ArchiveKeeps, ImportFileKeeps, ReconcileKeeps, AddDependencyKeeps
<1>9. CASE UNCHANGED vars
  <2>1. Store' = Store /\ raced' = raced  BY <1>9 DEF vars, dbVars, Store
  <2> QED  BY <2>1
<1> QED  BY <1>3, <1>4, <1>5, <1>6, <1>7, <1>8, <1>9 DEF Next

\* Where universe files name every fund after its first share, which load_universe
\* does not ask, the representative of a fund is its preferred share as long as no
\* request has written on what another had changed: imports in any order, merges
\* and files agree on the code that operations name the fund by.
THEOREM RepresentativesArePreferred ==
  ASSUME FilesNameTheFirst
  PROVE  Spec => []RepresentativeIsPreferred
<1> DEFINE NamesInv == UniverseInv /\ (~raced => FirstNames(Store))
<1>1. Init => NamesInv
  <2>1. Init => Store.contract = NoRows  BY StoreColumns DEF Init
  <2>2. Init => FirstNames(Store)  BY <2>1 DEF FirstNames, NoRows
  <2> QED  BY <2>2, UniverseInit
<1>2. NamesInv /\ [Next]_vars => NamesInv'
  <2> SUFFICES ASSUME NamesInv, [Next]_vars  PROVE NamesInv'  OBVIOUS
  <2>1. UniverseInv'  BY UniverseStep
  <2>2. ~raced' => FirstNames(Store')  BY NamesStep
  <2> QED  BY <2>1, <2>2
<1>3. NamesInv => RepresentativeIsPreferred
  BY StoreColumns DEF FirstNames, RepresentativeIsPreferred
<1> QED  BY <1>1, <1>2, <1>3, PTL DEF Spec
=============================================================================
