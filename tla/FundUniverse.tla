----------------------------- MODULE FundUniverse -----------------------------
(***************************************************************************)
(* The fund universe: fund contracts, the share codes they own, and who is *)
(* selected.  Requests of the API import shares from the public catalog    *)
(* (one transaction per code) or commit a portfolio file (select the funds *)
(* of the file, and put their flags back when a later step fails); an      *)
(* archive request deselects a fund; the command line imports universe     *)
(* files and merges contracts; the report parser adds dependencies.  None  *)
(* of the imports takes the slot of the operation queue.                   *)
(*                                                                          *)
(* The contracts that match a code are loaded, and later statements go by  *)
(* what was loaded: the match and the commit of a code are two actions.    *)
(* Rows that a session still holds from the code before may be older than  *)
(* that; they differ only where another request wrote in between.  The     *)
(* statements of one commit are not interleaved with others.               *)
(***************************************************************************)
EXTENDS Naturals, FiniteSets

CONSTANTS
    Codes,         \* share codes
    Importers,     \* catalog imports that may run at a time
    Savers,        \* portfolio imports that may run at a time
    CatalogKey,    \* public_contract_key of the catalog's record of a code
    Priority,      \* share_priority of a code: ends with the code, so injective
    Orders,        \* sets of codes an import request may name
    Portfolios,    \* sets of codes a portfolio file may hold
    Files,         \* universe files: sets of rows
    MaxContracts   \* bound: contract ids handed out

\* load_universe: codes and representatives of a file are unique, and a
\* representative is one of its row's shares.
ASSUME FilesAreValid ==
    \A f \in Files :
        /\ IsFiniteSet(f)
        /\ \A r \in f :
              /\ r.rep \in r.shares /\ r.shares \subseteq Codes /\ r.enabled \in BOOLEAN
              /\ \A q \in f \ {r} : r.shares \cap q.shares = {}

ASSUME PriorityIsStrict ==
    /\ IsFiniteSet(Codes)
    /\ Priority \in [Codes -> 1..Cardinality(Codes)]
    /\ \A c, d \in Codes : c # d => Priority[c] # Priority[d]

Users == Importers \cup Savers
Keys == {CatalogKey[c] : c \in Codes} \cup {r.key : r \in UNION Files} \cup Codes
Nobody == 0

ASSUME RequestsAreOfUsers ==
    /\ Nobody \notin Users
    /\ Orders \subseteq SUBSET Codes /\ Portfolios \subseteq SUBSET Codes
    /\ MaxContracts \in Nat

VARIABLES
    contract,  \* rows of fund_contract by id
    owner,     \* fund_share: the contract of each share code that has a row
    lastId,    \* ids handed out
    req,       \* per user, the request in progress
    raced      \* history: a request wrote after somebody else had written

dbVars == <<contract, owner, lastId>>
vars == <<dbVars, req, raced>>

NoRows == [x \in {} |-> Nobody]

Idle == [pc |-> "idle", codes |-> {}, todo |-> {}, failed |-> FALSE,
         prior |-> NoRows, was |-> NoRows,
         code |-> Nobody, matches |-> {}, primary |-> Nobody, rep |-> Nobody, best |-> 0,
         alone |-> TRUE, merged |-> FALSE]

Contract(rep, key, selected, dependency) ==
    [rep |-> rep, key |-> key, selected |-> selected, dependency |-> dependency]

----------------------------------------------------------------------------
(* Reading and writing the tables.  A store is [contract, owner, lastId].   *)

Store == [contract |-> contract, owner |-> owner, lastId |-> lastId]

Holders(s, code) == {i \in DOMAIN s.contract : s.contract[i].rep = code}

Owns(s, id, code) ==
    /\ code \in DOMAIN s.owner
    /\ s.owner[code] = id

\* A contract whose representative is not one of its shares comes last.
Worst == Cardinality(Codes) + 1
RepPriority(s, id) ==
    IF Owns(s, id, s.contract[id].rep) THEN Priority[s.contract[id].rep] ELSE Worst

Preferred(s, ids) ==
    CHOOSE i \in ids : \A j \in ids : RepPriority(s, i) <= RepPriority(s, j)

\* Mutant: a fund that has been archived is not found again.
Matching_Selected(s, key) ==
    {i \in DOMAIN s.contract : s.contract[i].key = key /\ s.contract[i].selected}

\* Selected or archived: the match does not ask.
Matching(s, key) == {i \in DOMAIN s.contract : s.contract[i].key = key}

\* merge_contract_group for one group of contracts or several: shares move to the
\* contract that absorbs theirs, into[i], and the others are deleted.
Absorb(s, into) ==
    LET kept == {i \in DOMAIN s.contract : i \in DOMAIN into => into[i] = i}
        group(i) == {s.contract[j] : j \in {k \in DOMAIN into \cap DOMAIN s.contract : into[k] = i}}
    IN [contract |-> [i \in kept |->
                        IF i \in DOMAIN into
                        THEN Contract(s.contract[i].rep, s.contract[i].key,
                                      \E r \in group(i) : r.selected,
                                      \A r \in group(i) : r.dependency)
                        ELSE s.contract[i]],
        owner    |-> [c \in DOMAIN s.owner |->
                        IF s.owner[c] \in DOMAIN into THEN into[s.owner[c]] ELSE s.owner[c]],
        lastId   |-> s.lastId]

Merge(s, primary, ids) == Absorb(s, [i \in ids |-> primary])

\* A share that belongs to a contract other than its row's is an error.
Conflicts(s, row) ==
    \E c \in row.shares \cap DOMAIN s.owner : Holders(s, row.rep) # {s.owner[c]}

\* The contracts the rows of a file may get: a row's is the one with its
\* representative, or a new one.
NewRows(s, rows) == {row \in rows : Holders(s, row.rep) = {}}

Assignments(s, rows) ==
    LET new == NewRows(s, rows)
        known == UNION {Holders(s, row.rep) : row \in rows}
    IN {id \in [rows -> known \cup (s.lastId + 1)..(s.lastId + Cardinality(new))] :
          \A row \in rows :
             /\ row \in new <=> id[row] > s.lastId
             /\ row \notin new => id[row] \in Holders(s, row.rep)
             /\ \A other \in rows \ {row} : id[other] # id[row]}

\* import_universe with these contracts: their columns and their shares.
Upserted(s, rows, id) ==
    LET ids == {id[row] : row \in rows}
        shares == UNION {row.shares : row \in rows}
    IN [contract |-> [i \in DOMAIN s.contract \cup ids |->
                        IF i \in ids
                        THEN LET row == CHOOSE row \in rows : id[row] = i
                             IN Contract(row.rep, row.key, row.enabled, FALSE)
                        ELSE s.contract[i]],
        owner    |-> [c \in DOMAIN s.owner \cup shares |->
                        IF c \in shares THEN id[CHOOSE row \in rows : c \in row.shares]
                        ELSE s.owner[c]],
        lastId   |-> s.lastId + Cardinality(NewRows(s, rows))]

Upsert(s, row) ==
    LET old == Holders(s, row.rep)
        id  == IF old = {} THEN s.lastId + 1 ELSE CHOOSE i \in old : TRUE
    IN Upserted(s, {row}, [r \in {row} |-> id])

Commit(s) ==
    /\ s.lastId <= MaxContracts
    /\ contract' = s.contract
    /\ owner' = s.owner
    /\ lastId' = s.lastId

----------------------------------------------------------------------------
TypeOK ==
    /\ DOMAIN contract \subseteq 1..lastId
    /\ \A i \in DOMAIN contract :
          contract[i] \in [rep : Codes, key : Keys, selected : BOOLEAN,
                           dependency : BOOLEAN]
    /\ \A i, j \in DOMAIN contract : contract[i].rep = contract[j].rep => i = j
    /\ DOMAIN owner \subseteq Codes
    /\ \A c \in DOMAIN owner : owner[c] \in DOMAIN contract
    /\ lastId \in 0..MaxContracts
    /\ raced \in BOOLEAN
    /\ \A u \in Users :
          /\ req[u].pc \in {"idle", "states", "codes", "commit", "select", "write"}
          /\ req[u].todo \subseteq req[u].codes
          /\ req[u].codes \subseteq Codes

Init ==
    /\ contract = NoRows
    /\ owner = NoRows
    /\ lastId = 0
    /\ req = [u \in Users |-> Idle]
    /\ raced = FALSE

\* A step of u that writes: the requests of the others are no longer alone.
Written(u, r) ==
    /\ req' = [w \in Users |->
                 IF w = u THEN r
                 ELSE IF req[w].pc = "idle" THEN req[w]
                 ELSE [req[w] EXCEPT !.alone = FALSE, !.was = NoRows]]
    /\ raced' = (raced \/ (u \in Users /\ ~req[u].alone))

\* A step of u that only reads.
Read(u, r) ==
    /\ req' = [req EXCEPT ![u] = r]
    /\ UNCHANGED <<dbVars, raced>>

----------------------------------------------------------------------------
(* POST /fund-catalog/import                                                *)

StartImport(u) ==
    /\ req[u].pc = "idle"
    /\ \E codes \in Orders :
          Read(u, [Idle EXCEPT !.pc = "codes", !.codes = codes, !.todo = codes])

\* The transaction of a code is over, and its session forgets what it has
\* loaded.  A catalog import ends with its last code.
NextCode(u, r) ==
    IF u \in Importers /\ r.todo = {} THEN Idle
    ELSE [r EXCEPT !.pc = "codes", !.code = Nobody, !.matches = {},
                   !.primary = Nobody, !.rep = Nobody, !.best = 0]

LookupFails(u) ==
    /\ req[u].pc = "codes"
    /\ \E c \in req[u].todo :
          Read(u, NextCode(u, [req[u] EXCEPT !.todo = @ \ {c}, !.failed = TRUE]))

MatchCode(u) ==
    /\ req[u].pc = "codes"
    /\ \E c \in req[u].todo :
          LET ids == Matching(Store, CatalogKey[c])
              one == Preferred(Store, ids)
              r == [req[u] EXCEPT !.pc = "commit", !.code = c, !.matches = ids,
                                  !.todo = @ \ {c}]
          IN Read(u, IF ids = {} THEN [r EXCEPT !.primary = Nobody, !.rep = c, !.best = Worst]
                     ELSE [r EXCEPT !.primary = one, !.rep = contract[one].rep,
                                    !.best = RepPriority(Store, one)])

\* With one match or none the transaction goes on with the row it loaded; a
\* merge ends by loading the primary contract again.
MergedStore(u) ==
    IF Cardinality(req[u].matches) > 1
    THEN Merge(Store, req[u].primary, req[u].matches)
    ELSE Store
RepOfMatch(u) ==
    IF Cardinality(req[u].matches) > 1
    THEN MergedStore(u).contract[req[u].primary].rep
    ELSE req[u].rep
BestOfMatch(u) ==
    IF Cardinality(req[u].matches) > 1
    THEN RepPriority(MergedStore(u), req[u].primary)
    ELSE req[u].best

CatalogRow(u) ==
    [rep |-> RepOfMatch(u), shares |-> {req[u].code},
     key |-> CatalogKey[req[u].code], enabled |-> TRUE]

\* Mutant: the representative never changes.
Represented_Never(u, s) == s

\* The representative changes when the new share comes before the old one.
Represented(u, s) ==
    LET code == req[u].code
        id == s.owner[code]
    IN IF Priority[code] < BestOfMatch(u) \/ req[u].matches = {}
       THEN [s EXCEPT !.contract[id].rep = code]
       ELSE s

PrimaryGone(u) ==
    Cardinality(req[u].matches) > 1 /\ req[u].primary \notin DOMAIN contract

Imported(u) == Represented(u, Upsert(MergedStore(u), CatalogRow(u)))

\* The primary contract of a merge is gone, a share has another owner, or
\* the new representative code is already one.
Refused(u) ==
    \/ PrimaryGone(u)
    \/ Conflicts(MergedStore(u), CatalogRow(u))
    \/ Cardinality(Holders(Imported(u), req[u].code)) > 1

CommitCode(u) ==
    /\ req[u].pc = "commit"
    /\ ~Refused(u)
    /\ Commit(Imported(u))
    /\ Written(u, NextCode(u, [req[u] EXCEPT !.merged = @ \/ Cardinality(req[u].matches) > 1]))

\* The database refuses the code, or anything else raises after the match.
CommitFails(u) ==
    /\ req[u].pc = "commit"
    /\ Read(u, NextCode(u, [req[u] EXCEPT !.failed = TRUE]))

----------------------------------------------------------------------------
(* POST /portfolio/import/confirm                                           *)

Flags(i) == [selected |-> contract[i].selected, dependency |-> contract[i].dependency]

\* The codes of the file without a share are to be added, in todo.  The
\* preview asks the catalog about each of them.
Preview(u) ==
    /\ req[u].pc = "idle"
    /\ \E codes \in Portfolios :
          Read(u, [Idle EXCEPT !.pc = "states", !.codes = codes,
                               !.todo = codes \ DOMAIN owner])

\* The states to go back to; was is history.
ReadStates(u) ==
    /\ req[u].pc = "states"
    /\ Read(u, [req[u] EXCEPT !.pc = "codes",
                  !.prior = [i \in DOMAIN contract |-> Flags(i)],
                  !.was = [c \in DOMAIN owner |-> contract[owner[c]].selected]])

CodesAdded(u) ==
    /\ req[u].pc = "codes"
    /\ req[u].todo = {}
    /\ ~req[u].failed
    /\ Read(u, [req[u] EXCEPT !.pc = "select"])

ContractsOf(codes) == {owner[c] : c \in codes \cap DOMAIN owner}

SelectPositions(u) ==
    /\ req[u].pc = "select"
    /\ Commit([Store EXCEPT !.contract = [i \in DOMAIN contract |->
          IF i \in ContractsOf(req[u].codes)
          THEN Contract(contract[i].rep, contract[i].key, TRUE, FALSE)
          ELSE contract[i]]])
    /\ Written(u, [req[u] EXCEPT !.pc = "write"])

\* The anchors' NAV is fetched if need be, and the positions are written.
WritePositions(u) ==
    /\ req[u].pc = "write"
    /\ Read(u, Idle)

\* Mutant: a fund that the request has added stays selected.
RestoredFlags_AddedKept(u, i) ==
    IF i \in DOMAIN req[u].prior THEN req[u].prior[i] ELSE Flags(i)

RestoredFlags(u, i) ==
    IF i \in DOMAIN req[u].prior THEN req[u].prior[i]
    ELSE [selected |-> FALSE, dependency |-> FALSE]

\* A code could not be imported, or a step after the selection raised: the
\* funds of the file get the flags they had.
Restore(u) ==
    /\ \/ req[u].pc = "codes" /\ req[u].todo = {} /\ req[u].failed
       \/ req[u].pc = "write"
    /\ Commit([Store EXCEPT !.contract = [i \in DOMAIN contract |->
          IF i \in ContractsOf(req[u].codes)
          THEN Contract(contract[i].rep, contract[i].key, RestoredFlags(u, i).selected,
                        RestoredFlags(u, i).dependency)
          ELSE contract[i]]])
    /\ Written(u, Idle)

----------------------------------------------------------------------------
(* The other writers of the tables, each one transaction.                   *)

\* The slot that archive_fund asks for first is in OperationQueue.
Archive ==
    /\ \E i \in DOMAIN contract :
          /\ contract[i].selected
          /\ Commit([Store EXCEPT !.contract[i].selected = FALSE])
    /\ Written(Nobody, Idle)

\* qdii import-universe
ImportFile ==
    /\ \E rows \in Files :
          /\ \A row \in rows : ~Conflicts(Store, row)
          /\ \E id \in Assignments(Store, rows) : Commit(Upserted(Store, rows, id))
    /\ Written(Nobody, Idle)

\* qdii reconcile-public-funds: only selected contracts are merged, each with
\* those that have its key.
SelectedGroup(key) == {i \in Matching(Store, key) : contract[i].selected}

Reconcile ==
    /\ \E key \in Keys : Cardinality(SelectedGroup(key)) > 1
    /\ Commit(Absorb(Store, [i \in {i \in DOMAIN contract : contract[i].selected} |->
                               Preferred(Store, SelectedGroup(contract[i].key))]))
    /\ Written(Nobody, Idle)

\* A report holds a fund nobody has imported.  Its manager is unknown, so no
\* catalog record has its key.
AddDependency ==
    /\ \E c \in Codes \ DOMAIN owner :
          /\ Holders(Store, c) = {}
          /\ Commit([contract |-> [i \in DOMAIN contract \cup {lastId + 1} |->
                                    IF i = lastId + 1 THEN Contract(c, c, FALSE, TRUE)
                                    ELSE contract[i]],
                     owner    |-> [d \in DOMAIN owner \cup {c} |->
                                    IF d = c THEN lastId + 1 ELSE owner[d]],
                     lastId   |-> lastId + 1])
    /\ Written(Nobody, Idle)

Next ==
    \/ \E u \in Importers :
          StartImport(u)
    \/ \E u \in Users :
          \/ LookupFails(u)
          \/ MatchCode(u)
          \/ CommitCode(u)
          \/ CommitFails(u)
    \/ \E u \in Savers :
          \/ Preview(u)
          \/ ReadStates(u)
          \/ CodesAdded(u)
          \/ SelectPositions(u)
          \/ WritePositions(u)
          \/ Restore(u)
    \/ Archive
    \/ ImportFile
    \/ Reconcile
    \/ AddDependency

Spec == Init /\ [][Next]_vars

----------------------------------------------------------------------------
(* What the universe promises.  A request is alone while nobody else has    *)
(* written since it began.                                                  *)

Selected(code) == code \in DOMAIN owner /\ contract[owner[code]].selected

\* As long as no request wrote on what another had changed, the representative
\* of a contract is the first of its own shares in share_priority: imports in
\* any order, merges and files lead to the code that operations name the fund
\* by (import_public_funds, merge_contract_group).
RepresentativeIsPreferred ==
    ~raced => \A i \in DOMAIN contract :
                 /\ Owns(Store, i, contract[i].rep)
                 /\ \A c \in DOMAIN owner :
                       owner[c] = i => Priority[contract[i].rep] <= Priority[c]

\* A catalog import that runs alone leaves the fund with one contract, the
\* code's, selected and no dependency: an archived fund is found again and
\* contracts that were apart are merged (docs/user-guide.md:30).
Unifies(u) ==
    LET ids == {i \in DOMAIN contract' : contract'[i].key = CatalogKey[req[u].code]}
    IN /\ ids = {owner'[req[u].code]}
       /\ \A i \in ids : contract'[i].selected /\ ~contract'[i].dependency

ImportUnifies ==
    [][\A u \in Users : req[u].alone /\ CommitCode(u) => Unifies(u)]_vars

\* A portfolio import that fails, ran alone and merged nothing gives every
\* share the selection it had, and selects none of those it added, except in
\* a fund that was selected before (_restore_portfolio_import_contract_states).
Restored(u) ==
    /\ \A c \in DOMAIN req[u].was : Selected(c)' = req[u].was[c]
    /\ \A c \in req[u].codes \ DOMAIN req[u].was :
          Selected(c)' => \E d \in DOMAIN req[u].was :
                             req[u].was[d] /\ owner'[d] = owner'[c]

\* When a portfolio import writes its positions, every fund of the file, new,
\* archived or known from a report, is selected for the jobs
\* (_commit_portfolio_workbook).
AllSelected(u) ==
    \A c \in req[u].codes : Selected(c) /\ ~contract[owner[c]].dependency

\* A portfolio import that ran alone selects every fund of its file or none.
ImportIsAllOrNothing ==
    [][\A u \in Savers : req[u].alone =>
          /\ WritePositions(u) => AllSelected(u)
          /\ Restore(u) /\ ~req[u].merged => Restored(u)]_vars

\* docs/user-guide.md:114: "when the same fund is added again from public
\* information, the system restores the original record from the archive".
\* The import of an archived fund's code is not refused when it runs alone.
ArchivedCanReturn ==
    \A u \in Importers :
        req[u].pc = "commit" /\ req[u].alone /\ req[u].code \in DOMAIN owner
            => Selected(req[u].code) \/ ~Refused(u)
=============================================================================
