---------------------------- MODULE TokenVaultProofs ----------------------------
(* Theorems about TokenVault, for every set of threads, tokens, values, requests *)
(* and times to live, every cap and every length of the run.                    *)
EXTENDS TokenVault, FiniteSetTheorems, TLAPS

--------------------------------------------------------------------------------
(* What each statement does to a table.                                        *)

\* A cleanup keeps the rows that are due after `now`, as they are, and no others.
LEMMA CleanupKeeps ==
    ASSUME NEW tab, IsTable(tab), NEW now
    PROVE  LET left == CleanupExpired(tab, now) IN
           /\ IsTable(left)
           /\ DOMAIN left = {tk \in DOMAIN tab : tab[tk].expires > now}
           /\ \A tk \in DOMAIN left : left[tk] = tab[tk]
  BY DEF CleanupExpired, Restrict, IsTable

\* Dropping a token keeps all other rows.
LEMMA DropTokenKeeps ==
    ASSUME NEW tab, IsTable(tab), NEW tk
    PROVE  LET left == DropToken(tab, tk) IN
           /\ IsTable(left)
           /\ DOMAIN left = DOMAIN tab \ {tk}
           /\ \A x \in DOMAIN left : left[x] = tab[x]
  BY DEF DropToken, Restrict, IsTable

\* Deleting a request keeps exactly the rows of the other requests.
LEMMA DropRequestKeeps ==
    ASSUME NEW tab, IsTable(tab), NEW r
    PROVE  LET left == DropRequest(tab, r) IN
           /\ IsTable(left)
           /\ DOMAIN left = {tk \in DOMAIN tab : tab[tk].rid # r}
           /\ \A x \in DOMAIN left : left[x] = tab[x]
  BY DEF DropRequest, Restrict, IsTable

\* A refresh changes one expiry and nothing else.
LEMMA RefreshChanges ==
    ASSUME NEW tab, IsTable(tab), NEW tk \in DOMAIN tab, NEW e \in Int
    PROVE  LET new == Refresh(tab, tk, e) IN
           /\ IsTable(new)
           /\ DOMAIN new = DOMAIN tab
           /\ \A x \in DOMAIN tab \ {tk} : new[x] = tab[x]
           /\ new[tk] \in Row
           /\ new[tk].value = tab[tk].value
           /\ new[tk].rid = tab[tk].rid
           /\ new[tk].expires = e
  BY DEF Refresh, IsTable, Row

\* An insertion adds one row and changes no other.
LEMMA InsertAdds ==
    ASSUME NEW tab, IsTable(tab), NEW r \in RequestIds, NEW v \in Values, NEW e \in Int,
           NEW tk \in Insertable(tab, r, v)
    PROVE  LET new == Insert(tab, tk, r, v, e) IN
           /\ IsTable(new)
           /\ DOMAIN new = DOMAIN tab \union {tk}
           /\ tk \in Tokens /\ tk \notin DOMAIN tab
           /\ \A x \in DOMAIN tab : new[x] = tab[x]
           /\ new[tk] \in Row
           /\ new[tk] = [value |-> v, rid |-> r, expires |-> e]
           /\ \A x \in DOMAIN tab : ~(tab[x].value = v /\ tab[x].rid = r)
  BY DEF Insert, Insertable, Holders, IsTable, Row

\* The time a mint announces is an integer.
LEMMA ExpiryIsInt ==
    ASSUME NEW now \in Int, NEW ttl \in Int
    PROVE  ExpiryOf(now, ttl) \in Int
  BY DEF ExpiryOf

--------------------------------------------------------------------------------
(* Types.                                                                      *)

\* Calls, answers and promises keep their types when they are made.
LEMMA CallIsTyped ==
    ASSUME TypeOK, NEW t \in Threads, call[t] \in MintCall
    PROVE  /\ call[t].value \in Values
           /\ call[t].rid \in RequestIds
           /\ call[t].now \in Int /\ call[t].now <= clock
           /\ call[t].expires \in Int
  BY DEF TypeOK, MintCall, NoCall

\* A call that returns leaves a well-typed state of calls and answers.
LEMMA ReturnIsTyped ==
    ASSUME TypeOK, NEW t \in Threads, clock' = clock,
           NEW answer \in MintAnswer \union GetAnswer \union Raised,
           Return(t, answer)
    PROVE  /\ call' \in [Threads -> {NoCall} \union MintCall \union GetCall]
           /\ \A u \in Threads : call'[u] # NoCall => call'[u].now <= clock'
           /\ last' \in {Nothing} \union MintAnswer \union GetAnswer \union Raised
  BY DEF TypeOK, Return

\* An announcement adds one promise, unless it is due at once.
LEMMA AnnounceAdds ==
    ASSUME clock \in Int, NEW p, DOMAIN p \subseteq Tokens,
           \A x \in DOMAIN p : p[x] \in Int,
           NEW tk \in Tokens, NEW e \in Int
    PROVE  LET new == Announce(p, tk, e) IN
           /\ DOMAIN new \subseteq DOMAIN p \union {tk}
           /\ \A x \in DOMAIN new : new[x] = IF x = tk THEN e ELSE p[x]
           /\ \A x \in DOMAIN new : new[x] > clock /\ new[x] \in Int
           /\ \A x \in DOMAIN p : p[x] > clock /\ x # tk => x \in DOMAIN new
           /\ e > clock => tk \in DOMAIN new
  BY DEF Announce, Undue, Restrict

\* Init gives every variable a value of its type.
LEMMA InitTyped == Init => TypeOK
  BY DEF Init, TypeOK, IsTable, EmptyTable, NoCall, Nothing

\* Every step keeps the types.
LEMMA StepTyped == TypeOK /\ [Next]_vars => TypeOK'
<1> SUFFICES ASSUME TypeOK, [Next]_vars
             PROVE  TypeOK'
  OBVIOUS
<1> USE ThreadAssumption, CapAssumption
<1>1. ASSUME NEW t \in Threads, NEW v \in Values, NEW r \in RequestIds,
             NEW ttl \in Ttls, StartMint(t, v, r, ttl)
      PROVE  TypeOK'
  <2> DEFINE c == [op |-> "mint", value |-> v, rid |-> r, now |-> clock,
                   expires |-> ExpiryOf(clock, ttl)]
  <2>1. c \in MintCall
    BY ExpiryIsInt DEF MintCall, TypeOK
  <2>2. call' = [call EXCEPT ![t] = c] /\ c.now = clock
    BY <1>1 DEF StartMint
  <2>3. clock' = clock /\ clock <= clock
    BY <1>1 DEF StartMint, TypeOK
  <2> HIDE DEF c
  <2> QED
    BY <1>1, <2>1, <2>2, <2>3 DEF StartMint, TypeOK
<1>2. ASSUME NEW t \in Threads, MintReuses(t)
      PROVE  TypeOK'
  <2>1. PICK tk \in OwnHolders(t) :
              /\ rows' = Refresh(Kept(t), tk, call[t].expires)
              /\ promised' = Announce(promised, tk, call[t].expires)
              /\ Return(t, Minted(t, tk))
    BY <1>2 DEF MintReuses
  <2>2. clock' = clock /\ open' = open /\ call[t] \in MintCall
    BY <1>2 DEF MintReuses, Minting
  <2>3. IsTable(Kept(t)) /\ tk \in DOMAIN Kept(t) /\ tk \in Tokens
    BY CleanupKeeps DEF TypeOK, Kept, OwnHolders, Holders, IsTable
  <2>4. Minted(t, tk) \in MintAnswer
    BY <2>2, <2>3, CallIsTyped DEF Minted, MintAnswer
  <2>5. IsTable(rows')
    BY <2>1, <2>2, <2>3, CallIsTyped, RefreshChanges
  <2>6. DOMAIN promised' \subseteq Tokens /\ \A x \in DOMAIN promised' : promised'[x] \in Int
    BY <2>1, <2>2, <2>3, CallIsTyped, AnnounceAdds DEF TypeOK
  <2> QED
    BY <2>1, <2>2, <2>4, <2>5, <2>6, ReturnIsTyped DEF TypeOK
<1>3. ASSUME NEW t \in Threads, MintInserts(t)
      PROVE  TypeOK'
  <2>1. PICK tk \in Insertable(Kept(t), call[t].rid, call[t].value) :
              /\ rows' = Insert(Kept(t), tk, call[t].rid, call[t].value, call[t].expires)
              /\ promised' = Announce(promised, tk, call[t].expires)
              /\ Return(t, Minted(t, tk))
    BY <1>3 DEF MintInserts
  <2>2. clock' = clock /\ open' = open /\ call[t] \in MintCall
    BY <1>3 DEF MintInserts, Minting
  <2>3. IsTable(Kept(t)) /\ tk \in Tokens
    BY CleanupKeeps DEF TypeOK, Kept, Insertable
  <2>4. Minted(t, tk) \in MintAnswer
    BY <2>2, <2>3, CallIsTyped DEF Minted, MintAnswer
  <2>5. IsTable(rows')
    BY <2>1, <2>2, <2>3, CallIsTyped, InsertAdds
  <2>6. DOMAIN promised' \subseteq Tokens /\ \A x \in DOMAIN promised' : promised'[x] \in Int
    BY <2>1, <2>2, <2>3, CallIsTyped, AnnounceAdds DEF TypeOK
  <2> QED
    BY <2>1, <2>2, <2>4, <2>5, <2>6, ReturnIsTyped DEF TypeOK
<1>4. ASSUME NEW t \in Threads, MintOverCap(t) \/ MintCollides(t)
      PROVE  TypeOK'
  <2>1. PICK name \in {"VaultCapacityError", "RuntimeError"} :
              Return(t, [kind |-> name])
    BY <1>4 DEF MintOverCap, MintCollides
  <2>2. [kind |-> name] \in Raised
    BY DEF Raised
  <2>3. clock' = clock /\ open' = open /\ promised' = promised /\ rows' = Kept(t)
    BY <1>4 DEF MintOverCap, MintCollides
  <2>4. IsTable(rows')
    BY <2>3, CleanupKeeps DEF TypeOK, Kept
  <2> QED
    BY <2>1, <2>2, <2>3, <2>4, ReturnIsTyped DEF TypeOK
<1>5. ASSUME NEW t \in Threads, NEW tk \in Tokens, StartGet(t, tk)
      PROVE  TypeOK'
  <2> DEFINE c == [op |-> "get", token |-> tk, now |-> clock]
  <2>1. c \in GetCall
    BY DEF GetCall, TypeOK
  <2>2. call' = [call EXCEPT ![t] = c] /\ c.now = clock
    BY <1>5 DEF StartGet
  <2>3. clock' = clock /\ clock <= clock
    BY <1>5 DEF StartGet, TypeOK
  <2> HIDE DEF c
  <2> QED
    BY <1>5, <2>1, <2>2, <2>3 DEF StartGet, TypeOK
<1>6. ASSUME NEW t \in Threads, GetFinds(t)
      PROVE  TypeOK'
  <2> DEFINE tk == call[t].token
  <2>1. tk \in DOMAIN rows /\ Return(t, [kind |-> "found", token |-> tk, value |-> rows[tk].value])
    BY <1>6 DEF GetFinds
  <2>2. [kind |-> "found", token |-> tk, value |-> rows[tk].value] \in GetAnswer
    BY <2>1 DEF GetAnswer, TypeOK, IsTable, Row
  <2> QED
    BY <1>6, <2>1, <2>2, ReturnIsTyped DEF GetFinds, TypeOK
<1>7. ASSUME NEW t \in Threads, GetMisses(t)
      PROVE  TypeOK'
  <2> DEFINE tk == call[t].token
  <2>1. Return(t, [kind |-> "missing", token |-> tk]) /\ rows' = DropToken(rows, tk)
    BY <1>7 DEF GetMisses
  <2>2. [kind |-> "missing", token |-> tk] \in GetAnswer
    BY <1>7 DEF GetMisses, Getting, GetAnswer, GetCall
  <2>3. IsTable(rows')
    BY <2>1, DropTokenKeeps DEF TypeOK
  <2> QED
    BY <1>7, <2>1, <2>2, <2>3, ReturnIsTyped DEF GetMisses, TypeOK
<1>8. ASSUME NEW t \in Threads, CallOnClosed(t)
      PROVE  TypeOK'
  <2>1. [kind |-> "ProgrammingError"] \in Raised
    BY DEF Raised
  <2> QED
    BY <1>8, <2>1, ReturnIsTyped DEF CallOnClosed, TypeOK
<1>9. ASSUME NEW r \in RequestIds, DeleteRequest(r)
      PROVE  TypeOK'
  <2>1. IsTable(rows')
    BY <1>9, DropRequestKeeps DEF DeleteRequest, TypeOK
  <2>2. DOMAIN promised' \subseteq Tokens /\ \A x \in DOMAIN promised' : promised'[x] \in Int
    BY <1>9 DEF DeleteRequest, TypeOK, Surviving, Restrict
  <2> QED
    BY <1>9, <2>1, <2>2 DEF DeleteRequest, TypeOK
<1>10. CASE Tick
  <2>1. clock' \in Nat /\ clock' = clock + 1
    BY <1>10 DEF Tick, TypeOK
  <2>2. DOMAIN promised' \subseteq Tokens /\ \A x \in DOMAIN promised' : promised'[x] \in Int
    BY <1>10, <2>1 DEF Tick, TypeOK, Undue, Restrict
  <2>3. \A t \in Threads : call[t] # NoCall => call[t].now \in Int
    BY DEF TypeOK, MintCall, GetCall
  <2> QED
    BY <1>10, <2>1, <2>2, <2>3 DEF Tick, TypeOK
<1>11. CASE Cleanup
  BY <1>11, CleanupKeeps DEF Cleanup, TypeOK
<1>12. CASE Close
  BY <1>12 DEF Close, TypeOK, IsTable, EmptyTable
<1>13. CASE UNCHANGED vars
  BY <1>13 DEF vars, TypeOK
<1> QED
  BY <1>1, <1>2, <1>3, <1>4, <1>5, <1>6, <1>7, <1>8, <1>9, <1>10, <1>11, <1>12, <1>13
     DEF Next, Step

\* Every variable of the vault keeps its type.
THEOREM TypeCorrect == Spec => []TypeOK
  BY InitTyped, StepTyped, PTL DEF Spec

--------------------------------------------------------------------------------
(* The inductive invariant.  PromiseKept is not inductive alone: a cleanup with  *)
(* the clock a caller read long ago keeps a promised row only because promises   *)
(* are not due at the present clock, which is at least as late (TypeOK).  The    *)
(* same token comes again only because a request has one token per value.       *)

\* The unique index on (request_id, value).
Unique(tab) == \A x, y \in DOMAIN tab :
                  tab[x].rid = tab[y].rid /\ tab[x].value = tab[y].value => x = y

\* The caps on entries and on bytes.
Small(tab) == /\ IsFiniteSet(DOMAIN tab) /\ Cardinality(DOMAIN tab) <= MaxEntries
              /\ IsFiniteSet(Bytes(tab)) /\ TotalBytes(tab) <= MaxBytes

PromisesUndue == \A tk \in DOMAIN promised : promised[tk] > clock

IInv == TypeOK /\ Unique(rows) /\ Small(rows) /\ PromisesUndue /\ PromiseKept

\* A table with fewer rows, unchanged, has one token per value and is small too.
LEMMA FewerRows ==
    ASSUME NEW tab, NEW sub, Unique(tab), Small(tab), DOMAIN sub \subseteq DOMAIN tab,
           \A x \in DOMAIN sub : sub[x] = tab[x]
    PROVE  Unique(sub) /\ Small(sub)
<1>1. Unique(sub)
  BY DEF Unique
<1>2. IsFiniteSet(DOMAIN sub) /\ Cardinality(DOMAIN sub) <= Cardinality(DOMAIN tab)
  BY FS_Subset DEF Small
<1>3. Cardinality(DOMAIN sub) \in Nat /\ Cardinality(DOMAIN tab) \in Nat
  BY <1>2, FS_CardinalityType DEF Small
<1>4. Bytes(sub) \subseteq Bytes(tab)
  BY DEF Bytes
<1>5. IsFiniteSet(Bytes(sub)) /\ TotalBytes(sub) <= TotalBytes(tab)
  BY <1>4, FS_Subset DEF Small, TotalBytes
<1>6. TotalBytes(sub) \in Nat /\ TotalBytes(tab) \in Nat
  BY <1>5, FS_CardinalityType DEF Small, TotalBytes
<1> QED
  BY <1>1, <1>2, <1>3, <1>5, <1>6, CapAssumption DEF Small

\* A row more takes as many bytes more as its value has.
LEMMA BytesOfOneMore ==
    ASSUME NEW tab, NEW more, NEW tk, tk \notin DOMAIN tab,
           DOMAIN more = DOMAIN tab \union {tk},
           \A x \in DOMAIN tab : more[x] = tab[x],
           NEW v \in Values, more[tk].value = v, IsFiniteSet(Bytes(tab))
    PROVE  /\ IsFiniteSet(Bytes(more))
           /\ TotalBytes(more) = TotalBytes(tab) + ValueBytes[v]
<1> DEFINE new == {tk} \X (1..ValueBytes[v])
<1>1. ValueBytes[v] \in Nat
  BY CapAssumption
<1>2. Bytes(more) = Bytes(tab) \union new
  BY DEF Bytes
<1>3. Bytes(tab) \intersect new = {}
  BY DEF Bytes
<1>4. IsFiniteSet(1..ValueBytes[v]) /\ Cardinality(1..ValueBytes[v]) = ValueBytes[v]
  <2> DEFINE n == ValueBytes[v]
  <2>1. n \in Int /\ 1 \in Int
    BY <1>1
  <2> HIDE DEF n
  <2>2. /\ IsFiniteSet(1..n)
        /\ Cardinality(1..n) = IF 1 > n THEN 0 ELSE n - 1 + 1
    BY <2>1, FS_Interval
  <2>3. n \in Nat
    BY <1>1 DEF n
  <2>4. Cardinality(1..n) = n
    BY <2>2, <2>3
  <2> QED
    BY <2>2, <2>4 DEF n
<1>5. IsFiniteSet({tk}) /\ Cardinality({tk}) = 1
  BY FS_Singleton
<1>6. IsFiniteSet(new) /\ Cardinality(new) = ValueBytes[v]
  <2>1. /\ IsFiniteSet(new)
        /\ Cardinality(new) = Cardinality({tk}) * Cardinality(1..ValueBytes[v])
    BY <1>4, <1>5, FS_Product
  <2> QED
    BY <1>1, <1>4, <1>5, <2>1
<1>7. Cardinality({}) = 0 /\ Cardinality(Bytes(tab)) \in Nat
  BY FS_EmptySet, FS_CardinalityType
<1> HIDE DEF new
<1>8. /\ IsFiniteSet(Bytes(tab) \union new)
      /\ Cardinality(Bytes(tab) \union new)
            = Cardinality(Bytes(tab)) + Cardinality(new) - Cardinality(Bytes(tab) \intersect new)
  BY <1>6, FS_Union
<1>9. Cardinality(Bytes(tab) \intersect new) = 0
  BY <1>3, <1>7
<1>10. Cardinality(Bytes(more)) = Cardinality(Bytes(tab)) + ValueBytes[v]
  BY <1>1, <1>2, <1>6, <1>7, <1>8, <1>9
<1> QED
  BY <1>2, <1>8, <1>10 DEF TotalBytes

\* A cleanup with the clock of the present or of the past keeps promised rows.
LEMMA PromisedSurviveCleanup ==
    ASSUME IInv, NEW now \in Int, now <= clock
    PROVE  \A tk \in DOMAIN promised :
              /\ tk \in DOMAIN CleanupExpired(rows, now)
              /\ CleanupExpired(rows, now)[tk].expires >= promised[tk]
<1> SUFFICES ASSUME NEW tk \in DOMAIN promised
             PROVE  /\ tk \in DOMAIN CleanupExpired(rows, now)
                    /\ CleanupExpired(rows, now)[tk].expires >= promised[tk]
  OBVIOUS
<1>1. tk \in DOMAIN rows /\ rows[tk].expires >= promised[tk] /\ promised[tk] > clock
  BY DEF IInv, PromiseKept, PromisesUndue
<1>2. rows[tk].expires \in Int /\ promised[tk] \in Int /\ clock \in Int
  BY <1>1 DEF IInv, TypeOK, IsTable, Row
<1>3. rows[tk].expires > now
  BY <1>1, <1>2
<1> QED
  BY <1>1, <1>3, CleanupKeeps DEF IInv, TypeOK

\* What a mint finds under the lock, after its cleanup.
LEMMA KeptFacts ==
    ASSUME IInv, NEW t \in Threads, call[t] \in MintCall
    PROVE  /\ IsTable(Kept(t)) /\ Unique(Kept(t)) /\ Small(Kept(t))
           /\ DOMAIN Kept(t) = {tk \in DOMAIN rows : rows[tk].expires > call[t].now}
           /\ \A tk \in DOMAIN Kept(t) : Kept(t)[tk] = rows[tk]
           /\ \A tk \in DOMAIN promised : /\ tk \in DOMAIN Kept(t)
                                         /\ Kept(t)[tk].expires >= promised[tk]
<1>1. call[t].now \in Int /\ call[t].now <= clock
  BY CallIsTyped DEF IInv
<1>2. /\ IsTable(Kept(t))
      /\ DOMAIN Kept(t) = {tk \in DOMAIN rows : rows[tk].expires > call[t].now}
      /\ \A tk \in DOMAIN Kept(t) : Kept(t)[tk] = rows[tk]
  BY CleanupKeeps DEF Kept, IInv, TypeOK
<1>3. Unique(Kept(t)) /\ Small(Kept(t))
  BY <1>2, FewerRows DEF IInv
<1> QED
  BY <1>1, <1>2, <1>3, PromisedSurviveCleanup DEF Kept

\* A vault starts with no rows and no promises.
LEMMA InitInv == Init => IInv
<1> SUFFICES ASSUME Init PROVE IInv
  OBVIOUS
<1>1. DOMAIN rows = {} /\ DOMAIN promised = {}
  BY DEF Init, EmptyTable
<1>2. Small(rows)
  <2>1. Bytes(rows) = {}
    BY <1>1 DEF Bytes
  <2> QED
    BY <1>1, <2>1, FS_EmptySet, CapAssumption DEF Small, TotalBytes
<1> QED
  BY <1>1, <1>2, InitTyped DEF IInv, Unique, PromisesUndue, PromiseKept

\* Every step keeps the invariant.
LEMMA StepInv == IInv /\ [Next]_vars => IInv'
<1> SUFFICES ASSUME IInv, [Next]_vars
             PROVE  IInv'
  OBVIOUS
<1>0. TypeOK /\ TypeOK'
  BY StepTyped DEF IInv
<1>1. ASSUME NEW t \in Threads, MintReuses(t)
      PROVE  IInv'
  <2>1. PICK tk \in OwnHolders(t) :
              /\ rows' = Refresh(Kept(t), tk, call[t].expires)
              /\ promised' = Announce(promised, tk, call[t].expires)
    BY <1>1 DEF MintReuses
  <2>2. clock' = clock /\ call[t] \in MintCall
    BY <1>1 DEF MintReuses, Minting
  <2>3. tk \in DOMAIN Kept(t) /\ tk \in Tokens
    BY <2>2, KeptFacts DEF OwnHolders, Holders, IsTable
  <2>4. call[t].expires \in Int
    BY <1>0, <2>2, CallIsTyped
  <2>5. /\ DOMAIN rows' = DOMAIN Kept(t)
        /\ \A x \in DOMAIN Kept(t) \ {tk} : rows'[x] = Kept(t)[x]
        /\ rows'[tk].value = Kept(t)[tk].value
        /\ rows'[tk].rid = Kept(t)[tk].rid
        /\ rows'[tk].expires = call[t].expires
    <3>1. IsTable(Kept(t))
      BY <2>2, KeptFacts
    <3>2. Kept(t)[tk] \in Row
      BY <2>3, <3>1 DEF IsTable
    <3> QED
      BY <2>1, <2>3, <3>2 DEF Refresh, Row
  <2>6. /\ DOMAIN promised' \subseteq DOMAIN promised \union {tk}
        /\ \A x \in DOMAIN promised' : promised'[x] = IF x = tk THEN call[t].expires
                                                            ELSE promised[x]
        /\ \A x \in DOMAIN promised' : promised'[x] > clock
    BY <1>0, <2>1, <2>3, <2>4, AnnounceAdds DEF TypeOK
  <2>7. /\ Unique(Kept(t)) /\ Small(Kept(t))
        /\ \A x \in DOMAIN promised : /\ x \in DOMAIN Kept(t)
                                     /\ Kept(t)[x].expires >= promised[x]
    BY <2>2, KeptFacts
  <2>8. Unique(rows')
    <3>1. \A x \in DOMAIN rows' : /\ rows'[x].value = Kept(t)[x].value
                                 /\ rows'[x].rid = Kept(t)[x].rid
      BY <2>5
    <3> QED
      BY <2>5, <2>7, <3>1 DEF Unique
  <2>9. Small(rows')
    <3>1. Bytes(rows') = Bytes(Kept(t))
      <4>1. \A x \in DOMAIN rows' : rows'[x].value = Kept(t)[x].value
        BY <2>5
      <4> QED
        BY <2>5, <4>1 DEF Bytes
    <3> QED
      BY <2>5, <2>7, <3>1 DEF Small, TotalBytes
  <2>10. PromiseKept'
    <3> SUFFICES ASSUME NEW x \in DOMAIN promised'
                 PROVE  x \in DOMAIN rows' /\ rows'[x].expires >= promised'[x]
      BY DEF PromiseKept
    <3>1. CASE x = tk
      BY <2>3, <2>4, <2>5, <2>6, <3>1
    <3>2. CASE x # tk
      BY <2>5, <2>6, <2>7, <3>2
    <3> QED
      BY <3>1, <3>2
  <2>11. PromisesUndue'
    BY <2>2, <2>6 DEF PromisesUndue
  <2> QED
    BY <1>0, <2>8, <2>9, <2>10, <2>11 DEF IInv
<1>2. ASSUME NEW t \in Threads, MintInserts(t)
      PROVE  IInv'
  <2>1. PICK tk \in Insertable(Kept(t), call[t].rid, call[t].value) :
              /\ rows' = Insert(Kept(t), tk, call[t].rid, call[t].value, call[t].expires)
              /\ promised' = Announce(promised, tk, call[t].expires)
    BY <1>2 DEF MintInserts
  <2>2. /\ clock' = clock /\ call[t] \in MintCall
        /\ Cardinality(DOMAIN Kept(t)) + 1 <= MaxEntries
        /\ TotalBytes(Kept(t)) + ValueBytes[call[t].value] <= MaxBytes
    BY <1>2 DEF MintInserts, Minting, HasRoom
  <2>3. /\ call[t].expires \in Int /\ call[t].rid \in RequestIds /\ call[t].value \in Values
    BY <1>0, <2>2, CallIsTyped
  <2>4. /\ DOMAIN rows' = DOMAIN Kept(t) \union {tk}
        /\ tk \in Tokens /\ tk \notin DOMAIN Kept(t)
        /\ \A x \in DOMAIN Kept(t) : rows'[x] = Kept(t)[x]
        /\ rows'[tk] = [value |-> call[t].value, rid |-> call[t].rid,
                        expires |-> call[t].expires]
        /\ \A x \in DOMAIN Kept(t) : ~(/\ Kept(t)[x].value = call[t].value
                                       /\ Kept(t)[x].rid = call[t].rid)
    BY <2>1, <2>2, <2>3, KeptFacts DEF Insert, Insertable, Holders
  <2>5. /\ DOMAIN promised' \subseteq DOMAIN promised \union {tk}
        /\ \A x \in DOMAIN promised' : promised'[x] = IF x = tk THEN call[t].expires
                                                            ELSE promised[x]
        /\ \A x \in DOMAIN promised' : promised'[x] > clock
    BY <1>0, <2>1, <2>3, <2>4, AnnounceAdds DEF TypeOK
  <2>6. /\ Unique(Kept(t)) /\ Small(Kept(t))
        /\ \A x \in DOMAIN promised : /\ x \in DOMAIN Kept(t)
                                     /\ Kept(t)[x].expires >= promised[x]
    BY <2>2, KeptFacts
  <2>7. Unique(rows')
    <3> SUFFICES ASSUME NEW x \in DOMAIN rows', NEW y \in DOMAIN rows',
                        rows'[x].rid = rows'[y].rid, rows'[x].value = rows'[y].value
                 PROVE  x = y
      BY DEF Unique
    <3>1. CASE x \in DOMAIN Kept(t) /\ y \in DOMAIN Kept(t)
      BY <2>4, <2>6, <3>1 DEF Unique
    <3>2. CASE x = tk /\ y = tk
      BY <3>2
    <3>3. CASE (x = tk /\ y \in DOMAIN Kept(t)) \/ (y = tk /\ x \in DOMAIN Kept(t))
      BY <2>4, <3>3
    <3> QED
      BY <2>4, <3>1, <3>2, <3>3
  <2>8. Small(rows')
    <3>1. IsFiniteSet(DOMAIN Kept(t))
      BY <2>6 DEF Small
    <3>2. /\ IsFiniteSet(DOMAIN rows')
          /\ Cardinality(DOMAIN rows') = Cardinality(DOMAIN Kept(t)) + 1
      BY <2>4, <3>1, FS_AddElement
    <3>3. /\ IsFiniteSet(Bytes(rows'))
          /\ TotalBytes(rows') = TotalBytes(Kept(t)) + ValueBytes[call[t].value]
      BY <2>3, <2>4, <2>6, BytesOfOneMore DEF Small
    <3> QED
      BY <2>2, <3>2, <3>3 DEF Small
  <2>9. PromiseKept'
    <3> SUFFICES ASSUME NEW x \in DOMAIN promised'
                 PROVE  x \in DOMAIN rows' /\ rows'[x].expires >= promised'[x]
      BY DEF PromiseKept
    <3>1. CASE x = tk
      BY <2>3, <2>4, <2>5, <3>1
    <3>2. CASE x # tk
      BY <2>4, <2>5, <2>6, <3>2
    <3> QED
      BY <3>1, <3>2
  <2>10. PromisesUndue'
    BY <2>2, <2>5 DEF PromisesUndue
  <2> QED
    BY <1>0, <2>7, <2>8, <2>9, <2>10 DEF IInv
<1>3. ASSUME NEW t \in Threads, MintOverCap(t) \/ MintCollides(t)
      PROVE  IInv'
  <2>1. /\ call[t] \in MintCall /\ rows' = Kept(t)
        /\ UNCHANGED <<clock, promised>>
    BY <1>3 DEF MintOverCap, MintCollides, Minting
  <2> QED
    BY <1>0, <2>1, KeptFacts DEF IInv, PromisesUndue, PromiseKept
<1>4. ASSUME NEW t \in Threads, GetMisses(t)
      PROVE  IInv'
  <2> DEFINE tk == call[t].token
  <2>1. /\ rows' = DropToken(rows, tk) /\ UNCHANGED <<clock, promised>>
        /\ tk \in DOMAIN rows => rows[tk].expires <= call[t].now
        /\ call[t] \in GetCall
    BY <1>4 DEF GetMisses, Getting
  <2>2. /\ DOMAIN rows' = DOMAIN rows \ {tk}
        /\ \A x \in DOMAIN rows' : rows'[x] = rows[x]
    BY <2>1 DEF DropToken, Restrict
  <2>3. Unique(rows') /\ Small(rows')
    BY <2>2, FewerRows DEF IInv
  <2>4. tk \notin DOMAIN promised
    <3>1. call[t].now \in Int /\ call[t].now <= clock /\ clock \in Int
      BY <1>0, <2>1 DEF TypeOK, GetCall, NoCall
    <3>2. SUFFICES ASSUME tk \in DOMAIN promised PROVE FALSE
      OBVIOUS
    <3>3. /\ tk \in DOMAIN rows /\ rows[tk].expires >= promised[tk]
          /\ promised[tk] > clock
      BY <3>2 DEF IInv, PromiseKept, PromisesUndue
    <3>4. rows[tk].expires \in Int /\ promised[tk] \in Int
      BY <1>0, <3>2, <3>3 DEF TypeOK, IsTable, Row
    <3> QED
      BY <2>1, <3>1, <3>3, <3>4
  <2>5. PromisesUndue' /\ PromiseKept'
    BY <2>1, <2>2, <2>4 DEF IInv, PromisesUndue, PromiseKept
  <2> QED
    BY <1>0, <2>3, <2>5 DEF IInv
<1>5. ASSUME NEW r \in RequestIds, DeleteRequest(r)
      PROVE  IInv'
  <2>1. /\ rows' = DropRequest(rows, r) /\ promised' = Surviving(promised, rows')
        /\ clock' = clock
    BY <1>5 DEF DeleteRequest
  <2>2. /\ DOMAIN rows' \subseteq DOMAIN rows
        /\ \A x \in DOMAIN rows' : rows'[x] = rows[x]
    BY <2>1 DEF DropRequest, Restrict
  <2>3. Unique(rows') /\ Small(rows')
    BY <2>2, FewerRows DEF IInv
  <2>4. PromisesUndue' /\ PromiseKept'
    BY <2>1, <2>2 DEF IInv, PromisesUndue, PromiseKept, Surviving, Restrict
  <2> QED
    BY <1>0, <2>3, <2>4 DEF IInv
<1>6. CASE Tick
  <2>1. UNCHANGED rows /\ promised' = Undue(promised, clock')
    BY <1>6 DEF Tick
  <2>2. PromisesUndue' /\ PromiseKept'
    BY <2>1 DEF IInv, PromisesUndue, PromiseKept, Undue, Restrict
  <2> QED
    BY <1>0, <2>1, <2>2 DEF IInv, Unique, Small, TotalBytes, Bytes
<1>7. CASE Cleanup
  <2>1. rows' = CleanupExpired(rows, clock) /\ UNCHANGED <<clock, promised>>
    BY <1>7 DEF Cleanup
  <2>2. /\ DOMAIN rows' \subseteq DOMAIN rows
        /\ \A x \in DOMAIN rows' : rows'[x] = rows[x]
    BY <2>1 DEF CleanupExpired, Restrict
  <2>3. Unique(rows') /\ Small(rows')
    BY <2>2, FewerRows DEF IInv
  <2>4. clock \in Int /\ clock <= clock
    BY <1>0 DEF TypeOK
  <2>5. PromisesUndue' /\ PromiseKept'
    BY <2>1, <2>4, PromisedSurviveCleanup DEF IInv, PromisesUndue, PromiseKept
  <2> QED
    BY <1>0, <2>3, <2>5 DEF IInv
<1>8. CASE Close
  <2>1. DOMAIN rows' = {} /\ DOMAIN promised' = {}
    BY <1>8 DEF Close, EmptyTable
  <2>2. Unique(rows') /\ Small(rows')
    BY <2>1, FewerRows DEF IInv
  <2> QED
    BY <1>0, <2>1, <2>2 DEF IInv, PromisesUndue, PromiseKept
<1>9. ASSUME UNCHANGED <<rows, clock, promised>>
      PROVE  IInv'
  BY <1>0, <1>9 DEF IInv, PromisesUndue, PromiseKept
<1>10. ASSUME NEW t \in Threads, Step(t)
       PROVE  IInv'
  BY <1>1, <1>2, <1>3, <1>4, <1>9, <1>10
     DEF Step, StartMint, StartGet, GetFinds, CallOnClosed
<1>11. CASE UNCHANGED vars
  BY <1>9, <1>11 DEF vars
<1> QED
  BY <1>5, <1>6, <1>7, <1>8, <1>10, <1>11 DEF Next

\* The invariant holds in every state.
THEOREM Invariant == Spec => []IInv
  BY InitInv, StepInv, PTL DEF Spec

\* A token stays restorable until the expiry mint announced, whatever the other
\* threads do and however old the clocks are that they have read.
THEOREM PromisesHold == Spec => []PromiseKept
<1>1. IInv => PromiseKept
  BY DEF IInv
<1> QED
  BY <1>1, Invariant, PTL

\* The table never holds more than max_entries rows, nor more than max_bytes bytes of
\* raw values, whatever mints wait for the lock with whatever clocks.
THEOREM CapsHold == Spec => []WithinCap
<1>1. IInv => WithinCap
  BY DEF IInv, Small, WithinCap
<1> QED
  BY <1>1, Invariant, PTL

--------------------------------------------------------------------------------
(* What a call answers.                                                        *)

\* A call ends in one of the seven ways a call can end.
LEMMA CallEnds ==
    ASSUME TypeOK, Next, NEW t \in Threads, call[t] # NoCall, call'[t] = NoCall
    PROVE  \/ MintReuses(t) \/ MintInserts(t) \/ MintOverCap(t) \/ MintCollides(t)
           \/ GetFinds(t) \/ GetMisses(t) \/ CallOnClosed(t)
<1>1. ASSUME NEW u \in Threads, Step(u), u # t
      PROVE  call'[t] = call[t]
  BY <1>1 DEF Step, StartMint, StartGet, MintReuses, MintInserts, MintOverCap,
              MintCollides, GetFinds, GetMisses, CallOnClosed, Return, TypeOK
<1>2. ASSUME \/ \E r \in RequestIds : DeleteRequest(r)
             \/ Tick \/ Cleanup \/ Close
      PROVE  call'[t] = call[t]
  BY <1>2 DEF DeleteRequest, Tick, Cleanup, Close
<1>3. Step(t)
  BY <1>1, <1>2 DEF Next
<1> QED
  BY <1>3 DEF Step, StartMint, StartGet

\* Mints and gets are different calls.
LEMMA CallsDiffer ==
    ASSUME NEW c
    PROVE  /\ c \in MintCall => c # NoCall /\ c \notin GetCall
           /\ c \in GetCall => c # NoCall /\ c \notin MintCall
<1>1. c \in MintCall => c.op = "mint"
  BY DEF MintCall
<1>2. c \in GetCall => c.op = "get"
  BY DEF GetCall
<1>3. NoCall.op = "none"
  BY DEF NoCall
<1> QED
  BY <1>1, <1>2, <1>3

\* A value whose token is promised is answered with that token: mint neither takes
\* another one nor refuses.
LEMMA StepSameToken == IInv /\ [Next]_vars => [SameTokenStep]_vars
<1> SUFFICES ASSUME IInv, Next,
                    NEW t \in Threads, NEW tk \in DOMAIN promised,
                    call[t] \in MintCall, call'[t] = NoCall, open,
                    rows[tk].rid = call[t].rid, rows[tk].value = call[t].value
             PROVE  last' = Minted(t, tk)
  BY DEF SameTokenStep
<1>1. /\ Unique(Kept(t)) /\ tk \in DOMAIN Kept(t) /\ Kept(t)[tk] = rows[tk]
  BY KeptFacts
<1>2. tk \in OwnHolders(t)
  BY <1>1 DEF OwnHolders, Holders
<1>3. \A x \in OwnHolders(t) : x = tk
  BY <1>1, <1>2 DEF OwnHolders, Holders, Unique
<1>4. CASE MintReuses(t)
  <2>1. PICK x \in OwnHolders(t) : Return(t, Minted(t, x))
    BY <1>4 DEF MintReuses
  <2> QED
    BY <2>1, <1>3 DEF Return
<1>5. ~MintInserts(t) /\ ~MintOverCap(t) /\ ~MintCollides(t)
  BY <1>2 DEF MintInserts, MintOverCap, MintCollides
<1>6. ~GetFinds(t) /\ ~GetMisses(t) /\ ~CallOnClosed(t)
  BY CallsDiffer DEF GetFinds, GetMisses, Getting, CallOnClosed
<1> QED
  BY <1>4, <1>5, <1>6, CallEnds, CallsDiffer DEF IInv

\* mint is idempotent per request and value for as long as it has promised.
THEOREM SameToken == Spec => SameTokenAgain
  BY Invariant, StepSameToken, PTL DEF Spec, SameTokenAgain

\* What is answered was asked for, and is what the table says.
LEMMA StepOwnAnswer == IInv /\ [Next]_vars => [OwnAnswerStep]_vars
<1> SUFFICES ASSUME IInv, Next, NEW t \in Threads,
                    call[t] # NoCall, call'[t] = NoCall
             PROVE  /\ last'.kind = "minted" =>
                          /\ last'.token \in DOMAIN rows'
                          /\ rows'[last'.token].value = call[t].value
                          /\ rows'[last'.token].rid = call[t].rid
                    /\ last'.kind = "found" =>
                          /\ last'.token = call[t].token
                          /\ rows[call[t].token].value = last'.value
  BY DEF OwnAnswerStep
<1>0. TypeOK
  BY DEF IInv
<1>1. CASE MintReuses(t)
  <2>1. PICK tk \in OwnHolders(t) :
              /\ rows' = Refresh(Kept(t), tk, call[t].expires)
              /\ last' = Minted(t, tk)
    BY <1>1 DEF MintReuses, Return
  <2>2. /\ tk \in DOMAIN Kept(t)
        /\ Kept(t)[tk].rid = call[t].rid /\ Kept(t)[tk].value = call[t].value
    BY DEF OwnHolders, Holders
  <2>3. call[t] \in MintCall
    BY <1>1 DEF MintReuses, Minting
  <2>4. Kept(t)[tk] \in Row
    BY <2>2, <2>3, KeptFacts DEF IsTable
  <2>5. /\ tk \in DOMAIN rows'
        /\ rows'[tk].value = Kept(t)[tk].value /\ rows'[tk].rid = Kept(t)[tk].rid
    BY <2>1, <2>2, <2>4 DEF Refresh, Row
  <2>6. last'.kind = "minted" /\ last'.token = tk
    BY <2>1 DEF Minted
  <2> QED
    BY <2>2, <2>5, <2>6
<1>2. CASE MintInserts(t)
  <2>1. PICK tk \in Insertable(Kept(t), call[t].rid, call[t].value) :
              /\ rows' = Insert(Kept(t), tk, call[t].rid, call[t].value, call[t].expires)
              /\ last' = Minted(t, tk)
    BY <1>2 DEF MintInserts, Return
  <2>2. /\ tk \in DOMAIN rows'
        /\ rows'[tk] = [value |-> call[t].value, rid |-> call[t].rid,
                        expires |-> call[t].expires]
    BY <2>1 DEF Insert
  <2>3. last'.kind = "minted" /\ last'.token = tk
    BY <2>1 DEF Minted
  <2> QED
    BY <2>2, <2>3
<1>3. CASE MintOverCap(t) \/ MintCollides(t) \/ CallOnClosed(t) \/ GetMisses(t)
  <2>1. last'.kind \in {"VaultCapacityError", "RuntimeError", "ProgrammingError", "missing"}
    BY <1>3 DEF MintOverCap, MintCollides, CallOnClosed, GetMisses, Return
  <2> QED
    BY <2>1
<1>4. CASE GetFinds(t)
  <2>1. last' = [kind |-> "found", token |-> call[t].token,
                 value |-> rows[call[t].token].value]
    BY <1>4 DEF GetFinds, Return
  <2> QED
    BY <2>1
<1> QED
  BY <1>0, <1>1, <1>2, <1>3, <1>4, CallEnds

\* No answer of the vault belongs to another request or another token.
THEOREM OwnAnswers == Spec => AnswersOwn
  BY Invariant, StepOwnAnswer, PTL DEF Spec, AnswersOwn

--------------------------------------------------------------------------------
(* The vault implements TokenMap.                                              *)

\* The map counts its entries as the vault counts its rows.
LEMMA SameCardinality == \A S : Map!Cardinality(S) = Cardinality(S)
  BY DEF Map!Cardinality, Cardinality

\* The rows a cleanup drops are entries whose time is over.
LEMMA CleanupForgets ==
    ASSUME TypeOK, NEW now \in Int, now <= clock
    PROVE  LET gone == DOMAIN rows \ DOMAIN CleanupExpired(rows, now) IN
           /\ gone \in SUBSET DOMAIN rows
           /\ gone \subseteq Map!Expired
           /\ CleanupExpired(rows, now) = Map!Only(rows, DOMAIN rows \ gone)
<1> DEFINE gone == DOMAIN rows \ DOMAIN CleanupExpired(rows, now)
<1>1. /\ DOMAIN CleanupExpired(rows, now) = {tk \in DOMAIN rows : rows[tk].expires > now}
      /\ CleanupExpired(rows, now) = [tk \in DOMAIN CleanupExpired(rows, now) |-> rows[tk]]
  BY DEF CleanupExpired, Restrict
<1>2. gone \subseteq Map!Expired
  <2>1. \A tk \in DOMAIN rows : rows[tk].expires \in Int
    BY DEF TypeOK, IsTable, Row
  <2> QED
    BY <1>1, <2>1 DEF Map!Expired, TypeOK
<1>3. DOMAIN rows \intersect (DOMAIN rows \ gone) = DOMAIN CleanupExpired(rows, now)
  BY <1>1
<1> QED
  BY <1>1, <1>2, <1>3 DEF Map!Only

\* The vault starts as the map does.
LEMMA InitMaps == Init => Map!Init
  BY DEF Init, Map!Init, EmptyTable

\* Every step of the vault is a step of the map or leaves it alone.
LEMMA StepMaps == IInv /\ [Next]_vars => [Map!Next]_(Map!vars)
<1> SUFFICES ASSUME IInv, [Next]_vars
             PROVE  [Map!Next]_(Map!vars)
  OBVIOUS
<1>0. TypeOK
  BY DEF IInv
<1>1. ASSUME NEW t \in Threads, MintReuses(t)
      PROVE  Map!Next
  <2> DEFINE gone == DOMAIN rows \ DOMAIN Kept(t)
  <2>1. PICK tk \in OwnHolders(t) : rows' = Refresh(Kept(t), tk, call[t].expires)
    BY <1>1 DEF MintReuses
  <2>2. call[t] \in MintCall /\ open /\ UNCHANGED <<open, clock>>
    BY <1>1 DEF MintReuses, Minting
  <2>3. /\ call[t].expires \in Int /\ call[t].now \in Int /\ call[t].now <= clock
    BY <1>0, <2>2, CallIsTyped
  <2>4. gone \in SUBSET DOMAIN rows /\ gone \subseteq Map!Expired
    BY <1>0, <2>3, CleanupForgets DEF Kept
  <2>5. /\ IsTable(Kept(t)) /\ DOMAIN Kept(t) = DOMAIN rows \ gone
        /\ \A x \in DOMAIN Kept(t) : Kept(t)[x] = rows[x]
    BY <2>2, KeptFacts
  <2>6. tk \in DOMAIN Kept(t) /\ tk \in Tokens /\ Kept(t)[tk] \in Row
    BY <2>5 DEF OwnHolders, Holders, IsTable
  <2>7. /\ DOMAIN rows' = DOMAIN Kept(t)
        /\ \A x \in DOMAIN Kept(t) \ {tk} : rows'[x] = Kept(t)[x]
        /\ rows'[tk] \in Map!Entry
        /\ rows'[tk].value = Kept(t)[tk].value
        /\ rows'[tk].rid = Kept(t)[tk].rid
    BY <2>1, <2>3, <2>6 DEF Refresh, Row, Map!Entry
  <2> HIDE DEF gone
  <2>8. Map!Reuse(gone, tk)
    BY <2>2, <2>4, <2>5, <2>6, <2>7 DEF Map!Reuse
  <2> QED
    BY <2>4, <2>6, <2>8 DEF Map!Next
<1>2. ASSUME NEW t \in Threads, MintInserts(t)
      PROVE  Map!Next
  <2> DEFINE gone == DOMAIN rows \ DOMAIN Kept(t)
  <2>1. PICK tk \in Insertable(Kept(t), call[t].rid, call[t].value) :
              rows' = Insert(Kept(t), tk, call[t].rid, call[t].value, call[t].expires)
    BY <1>2 DEF MintInserts
  <2>2. /\ call[t] \in MintCall /\ open /\ UNCHANGED <<open, clock>>
        /\ Cardinality(DOMAIN Kept(t)) + 1 <= MaxEntries
    BY <1>2 DEF MintInserts, Minting, HasRoom
  <2>3. /\ call[t].expires \in Int /\ call[t].now \in Int /\ call[t].now <= clock
        /\ call[t].rid \in RequestIds /\ call[t].value \in Values
    BY <1>0, <2>2, CallIsTyped
  <2>4. gone \in SUBSET DOMAIN rows /\ gone \subseteq Map!Expired
    BY <1>0, <2>3, CleanupForgets DEF Kept
  <2>5. /\ DOMAIN Kept(t) = DOMAIN rows \ gone
        /\ \A x \in DOMAIN Kept(t) : Kept(t)[x] = rows[x]
        /\ Small(Kept(t))
    BY <2>2, KeptFacts
  <2>6. tk \in Tokens /\ tk \notin DOMAIN Kept(t)
    BY DEF Insertable
  <2>7. /\ DOMAIN rows' = DOMAIN Kept(t) \union {tk}
        /\ \A x \in DOMAIN Kept(t) : rows'[x] = Kept(t)[x]
        /\ rows'[tk] = [value |-> call[t].value, rid |-> call[t].rid,
                        expires |-> call[t].expires]
    BY <2>1, <2>6 DEF Insert
  <2>8. rows'[tk] \in Map!Entry
    BY <2>3, <2>7 DEF Map!Entry
  <2>9. \A x \in DOMAIN Kept(t) : ~(/\ Kept(t)[x].value = rows'[tk].value
                                   /\ Kept(t)[x].rid = rows'[tk].rid)
    BY <2>7 DEF Insertable, Holders
  <2>10. Map!Cardinality(DOMAIN rows \ gone) < MaxEntries
    <3>1. Cardinality(DOMAIN rows \ gone) < MaxEntries
      BY <2>2, <2>5, FS_CardinalityType, CapAssumption DEF Small
    <3> QED
      BY <3>1, SameCardinality
  <2> HIDE DEF gone
  <2>11. Map!Fresh(gone, tk)
    BY <2>2, <2>4, <2>5, <2>6, <2>7, <2>8, <2>9, <2>10 DEF Map!Fresh
  <2> QED
    BY <2>4, <2>6, <2>11 DEF Map!Next
<1>3. ASSUME NEW now \in Int, now <= clock, rows' = CleanupExpired(rows, now),
             UNCHANGED <<open, clock>>
      PROVE  Map!Next
  <2> DEFINE gone == DOMAIN rows \ DOMAIN CleanupExpired(rows, now)
  <2>1. Map!Forget(gone) /\ gone \in SUBSET DOMAIN rows
    BY <1>0, <1>3, CleanupForgets DEF Map!Forget
  <2> QED
    BY <2>1 DEF Map!Next
<1>4. ASSUME NEW t \in Threads, MintOverCap(t) \/ MintCollides(t)
      PROVE  Map!Next
  <2>1. /\ call[t] \in MintCall /\ UNCHANGED <<open, clock>>
        /\ rows' = CleanupExpired(rows, call[t].now)
    BY <1>4 DEF MintOverCap, MintCollides, Minting, Kept
  <2> QED
    BY <1>0, <1>3, <2>1, CallIsTyped
<1>5. ASSUME NEW t \in Threads, GetMisses(t)
      PROVE  Map!Next
  <2> DEFINE tk == call[t].token
             gone == DOMAIN rows \intersect {tk}
  <2>1. /\ rows' = DropToken(rows, tk) /\ UNCHANGED <<open, clock>>
        /\ tk \in DOMAIN rows => rows[tk].expires <= call[t].now
        /\ call[t] \in GetCall
    BY <1>5 DEF GetMisses, Getting
  <2>2. call[t].now \in Int /\ call[t].now <= clock /\ clock \in Int
    BY <1>0, <2>1, CallsDiffer DEF TypeOK, GetCall
  <2>3. \A x \in DOMAIN rows : rows[x].expires \in Int
    BY <1>0 DEF TypeOK, IsTable, Row
  <2>4. gone \subseteq Map!Expired
    BY <2>1, <2>2, <2>3 DEF Map!Expired
  <2>5. DOMAIN rows \ {tk} = DOMAIN rows \intersect (DOMAIN rows \ gone)
    OBVIOUS
  <2>6. rows' = Map!Only(rows, DOMAIN rows \ gone)
    BY <2>1, <2>5 DEF DropToken, Restrict, Map!Only
  <2>7. Map!Forget(gone)
    BY <2>1, <2>4, <2>6 DEF Map!Forget
  <2> QED
    BY <2>7 DEF Map!Next
<1>6. ASSUME NEW r \in RequestIds, DeleteRequest(r)
      PROVE  Map!Next
  <2>1. {tk \in DOMAIN rows : rows[tk].rid # r}
           = DOMAIN rows \intersect {tk \in DOMAIN rows : rows[tk].rid # r}
    OBVIOUS
  <2>2. Map!DeleteOwner(r)
    BY <1>6, <2>1 DEF DeleteRequest, DropRequest, Restrict, Map!DeleteOwner, Map!Only
  <2> QED
    BY <2>2 DEF Map!Next
<1>7. CASE Tick
  BY <1>7 DEF Tick, Map!Next, Map!Pass
<1>8. CASE Cleanup
  <2>1. clock \in Int /\ clock <= clock
    BY <1>0 DEF TypeOK
  <2> QED
    BY <1>3, <1>8, <2>1 DEF Cleanup
<1>9. CASE Close
  BY <1>9 DEF Close, EmptyTable, Map!Next, Map!Wipe
<1>10. ASSUME NEW t \in Threads,
              \/ \E v \in Values, r \in RequestIds, ttl \in Ttls : StartMint(t, v, r, ttl)
              \/ \E tk \in Tokens : StartGet(t, tk)
              \/ GetFinds(t)
              \/ CallOnClosed(t)
       PROVE  UNCHANGED Map!vars
  BY <1>10 DEF StartMint, StartGet, GetFinds, CallOnClosed, Map!vars
<1>11. CASE UNCHANGED vars
  BY <1>11 DEF vars, Map!vars
<1> QED
  BY <1>1, <1>2, <1>4, <1>5, <1>6, <1>7, <1>8, <1>9, <1>10, <1>11 DEF Next, Step

\* TokenVault, with its two-step calls and old clocks, implements the bounded map
\* that TokenVaultPort promises.
THEOREM VaultIsMap == Spec => ImplementsMap
  BY Invariant, InitMaps, StepMaps, PTL DEF Spec, ImplementsMap, Map!Spec
=============================================================================
