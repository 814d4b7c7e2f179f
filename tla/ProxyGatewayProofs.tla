--------------------------- MODULE ProxyGatewayProofs ---------------------------
(* Theorems about ProxyGateway, for every number of requests, tool calls and     *)
(* workers, all payloads, tokens and values, every time to live, every cap of the *)
(* vault and every number of cancellations.                                      *)
EXTENDS ProxyGateway, TLAPS

--------------------------------------------------------------------------------
(* The inductive invariant.  The properties speak of what has left the gateway or *)
(* come back; they hold because of what the walk, the lookup and the vault have   *)
(* established before, which is what the parts of the invariant say.             *)

\* A row stands for the value and the request its token was generated for.
RowsAreBorn ==
    \A tk \in DOMAIN rows :
        tk \in DOMAIN born /\ born[tk] = [value |-> rows[tk].value, rid |-> rows[tk].rid]

\* Token tk was generated for value v of request r.
Names(tk, v, r) == tk \in DOMAIN born /\ born[tk] = [value |-> v, rid |-> r]
Owned(tk, r) == tk \in DOMAIN born /\ born[tk].rid = r

\* Part p of request r may leave, as `text` shows it.
Complete(r, p, text) ==
    p.kind \notin PassedBy =>
        /\ p.kind \in {"clean", "redact"}
        /\ p.kind = "redact" => \A v \in SpanSet(p) : \E tk \in text : Names(tk, v, r)

\* The walk: the parts behind it are complete, unless one blocked, and so are the
\* spans of its part that are no longer left.
WalkInv(r) ==
    job[r].st = "walking" =>
        /\ job[r].part >= 1
        /\ ~job[r].blocked =>
              \A i \in DOMAIN payload[r] :
                  i < job[r].part => Complete(r, payload[r][i], job[r].out)
        /\ job[r].part \in DOMAIN payload[r] =>
              /\ job[r].left <= Len(PartOf(r).spans)
              /\ PartOf(r).kind = "redact" =>
                    \A i \in DOMAIN PartOf(r).spans :
                        i > job[r].left =>
                            \E tk \in job[r].hits : Names(tk, PartOf(r).spans[i], r)

\* After the walk every part is complete, or the request is blocked.
ReadyInv(r) ==
    /\ job[r].st = "looking" => ~job[r].blocked
    /\ job[r].st \in {"looking", "done"} /\ ~job[r].blocked =>
          \A i \in DOMAIN payload[r] : Complete(r, payload[r][i], job[r].out)

UnwalkedValues(r) == UNION {SpanSet(p) : p \in {q \in Parts(r) : q.kind \in PassedBy}}

\* The values in the sanitized text are those of the parts that are passed by.
TextInv(r) == /\ job[r].out \intersect Values \subseteq UnwalkedValues(r)
              /\ seen[r] \intersect Values \subseteq UnwalkedValues(r)

\* The tokens of a request are its own, or its client wrote them.
TokensInv(r) ==
    /\ \A tk \in job[r].hits \union job[r].minted : Owned(tk, r)
    /\ \A tk \in (job[r].out \intersect Tokens) \union job[r].look :
          Owned(tk, r) \/ tk \in Quoted(r)

\* The restore mapping tells what the tokens were generated for.
MapInv(r) ==
    \A p \in job[r].map : /\ p[1] \in DOMAIN born
                          /\ p[2] = born[p[1]].value
                          /\ born[p[1]].rid = r \/ p[1] \in Quoted(r)

\* A client reads values of the mapping only, and nothing before the job has ended.
GotInv(r) == /\ got[r] \intersect Values \subseteq {p[2] : p \in job[r].map}
             /\ got[r] # {} => job[r].st = "done"

\* What is sent is the text of a job that has ended and did not block.
TaskInv(r) ==
    /\ task[r] = "new" => /\ job[r] = NoJob /\ got[r] = {} /\ verdict[r] = "none"
                          /\ seen[r] = {}
    /\ verdict[r] = "answered" => task[r] \in {"closing", "cleanup"}
    /\ Sent(r) => /\ job[r].st = "done" /\ ~job[r].blocked
                  /\ seen[r] = job[r].out

\* Has the time to live of what is minted for r not passed since r came in?
Young(r) == clock < arrived[r] + Ttl

\* Until its request has been answered, a token that was minted for it is in the
\* vault, to be looked up or in the mapping, unless the time to live has passed.
FreshInv(r) ==
    /\ arrived[r] <= clock
    /\ task[r] = "prepare" /\ job[r].st \in {"walking", "looking"} /\ Young(r) =>
          \A tk \in job[r].hits \union job[r].minted :
              /\ tk \in DOMAIN rows /\ rows[tk].rid = r
              /\ rows[tk].expires >= arrived[r] + Ttl
    /\ task[r] \in {"prepare", "call", "stream"} /\ Young(r) /\ ~job[r].blocked
          /\ job[r].st \in {"looking", "done"} =>
          \A tk \in job[r].minted : \/ \E p \in job[r].map : p[1] = tk
                                    \/ job[r].st = "looking" /\ tk \in job[r].look

ReqInv(r) == /\ WalkInv(r) /\ ReadyInv(r)
             /\ TextInv(r) /\ TokensInv(r)
             /\ MapInv(r) /\ GotInv(r)
             /\ TaskInv(r) /\ FreshInv(r)

IInv == TypeOK /\ RowsAreBorn /\ \A r \in Requests : ReqInv(r)

--------------------------------------------------------------------------------
(* What each statement does to the table.                                      *)

\* A cleanup keeps the rows that are due after `now`, as they are, and no others.
LEMMA CleanupKeeps ==
    ASSUME NEW tab, IsTable(tab), NEW now
    PROVE  LET left == CleanupExpired(tab, now) IN
           /\ IsTable(left)
           /\ DOMAIN left = {tk \in DOMAIN tab : tab[tk].expires > now}
           /\ \A tk \in DOMAIN left : left[tk] = tab[tk]
  BY DEF CleanupExpired, Restrict, IsTable

\* Dropping a token keeps all other rows.
LEMMA DropTokenKeeps ==
    ASSUME NEW tab, IsTable(tab), NEW tk
    PROVE  LET left == DropToken(tab, tk) IN
           /\ IsTable(left)
           /\ DOMAIN left = DOMAIN tab \ {tk}
           /\ \A x \in DOMAIN left : left[x] = tab[x]
  BY DEF DropToken, Restrict, IsTable

\* The time to live is added to the time of the call.
LEMMA ExpiryIsLater ==
    ASSUME TypeOK
    PROVE  ExpiryOf(clock, Ttl) \in Int /\ ExpiryOf(clock, Ttl) = clock + Ttl
  BY ProxyAssumption DEF ExpiryOf, TypeOK

\* The generated tokens are never forgotten ...
BornGrows == /\ DOMAIN born \subseteq DOMAIN born'
             /\ \A x \in DOMAIN born : born'[x] = born[x]

\* ... and the unexpired rows of request r stay, as they are or renewed.
RowsStay(r) ==
    \A tk \in DOMAIN rows : rows[tk].rid = r /\ rows[tk].expires > clock =>
        /\ tk \in DOMAIN rows' /\ rows'[tk].rid = r
        /\ rows'[tk].expires \in {rows[tk].expires, clock + Ttl}

VaultTyped == /\ IsTable(rows)
              /\ DOMAIN born \subseteq Tokens
              /\ \A tk \in DOMAIN born : born[tk] \in [value : Values, rid : RequestIds]

\* Whatever keeps a part of the rows as they are keeps the vault in order.
LEMMA FewerRows ==
    ASSUME TypeOK, RowsAreBorn, IsTable(rows'), born' = born,
           DOMAIN rows' \subseteq DOMAIN rows, \A x \in DOMAIN rows' : rows'[x] = rows[x]
    PROVE  VaultTyped' /\ RowsAreBorn' /\ BornGrows
  BY DEF TypeOK, VaultTyped, RowsAreBorn, BornGrows

\* A mint gives the value a row of the request that lives as long as it can, and
\* disturbs no unexpired row.
LEMMA MintOkDoes ==
    ASSUME TypeOK, RowsAreBorn, NEW r \in RequestIds, NEW v \in Values, NEW tk \in Tokens,
           MintOk(r, v, tk)
    PROVE  /\ VaultTyped' /\ RowsAreBorn' /\ BornGrows
           /\ \A q \in RequestIds : RowsStay(q)
           /\ tk \in DOMAIN rows' /\ rows'[tk].rid = r
           /\ rows'[tk].expires = clock + Ttl
           /\ Names(tk, v, r)'
<1> DEFINE kept == CleanupExpired(rows, clock)
           e == ExpiryOf(clock, Ttl)
<1>1. /\ IsTable(kept)
      /\ DOMAIN kept = {x \in DOMAIN rows : rows[x].expires > clock}
      /\ \A x \in DOMAIN kept : kept[x] = rows[x]
  BY CleanupKeeps DEF TypeOK
<1>2. e \in Int /\ e = clock + Ttl
  BY ExpiryIsLater
<1>3. \A x \in DOMAIN rows : rows[x] \in Row /\ rows[x].expires \in Int
  BY DEF TypeOK, IsTable, Row
<1>4. CASE Holders(kept, r, v) # {}
  <2>1. tk \in Holders(kept, r, v) /\ rows' = Refresh(kept, tk, e) /\ born' = born
    BY <1>4 DEF MintOk
  <2>2. tk \in DOMAIN kept /\ kept[tk].rid = r /\ kept[tk].value = v
    BY <2>1 DEF Holders
  <2> HIDE DEF kept, e
  <2>3. /\ IsTable(rows') /\ DOMAIN rows' = DOMAIN kept
        /\ \A x \in DOMAIN kept \ {tk} : rows'[x] = kept[x]
        /\ rows'[tk].rid = r /\ rows'[tk].value = v /\ rows'[tk].expires = e
    BY <2>1, <2>2, <1>1, <1>2 DEF Refresh, IsTable, Row
  <2>4. VaultTyped' /\ BornGrows
    BY <2>1, <2>3 DEF TypeOK, VaultTyped, BornGrows
  <2>5. RowsAreBorn'
    BY <2>1, <2>2, <2>3, <1>1 DEF RowsAreBorn
  <2> QED
    BY <2>1, <2>2, <2>3, <2>4, <2>5, <1>1, <1>2, <1>3 DEF RowsAreBorn, RowsStay, Names
<1>5. CASE Holders(kept, r, v) = {}
  <2>1. /\ tk \in Insertable(kept, r, v) \ DOMAIN born
        /\ rows' = Insert(kept, tk, r, v, e)
        /\ born' = [x \in DOMAIN born \union {tk} |->
                       IF x = tk THEN [value |-> v, rid |-> r] ELSE born[x]]
    BY <1>5 DEF MintOk
  <2> HIDE DEF kept, e
  <2>2. tk \notin DOMAIN kept /\ tk \notin DOMAIN born
    BY <2>1 DEF Insertable
  <2>3. /\ IsTable(rows') /\ DOMAIN rows' = DOMAIN kept \union {tk}
        /\ \A x \in DOMAIN kept : rows'[x] = kept[x]
        /\ rows'[tk] = [value |-> v, rid |-> r, expires |-> e]
    BY <2>1, <2>2, <1>1, <1>2 DEF Insert, IsTable, Row
  <2>4. VaultTyped' /\ BornGrows
    BY <2>1, <2>2, <2>3 DEF TypeOK, VaultTyped, BornGrows
  <2>5. RowsAreBorn'
    BY <2>1, <2>2, <2>3, <1>1 DEF RowsAreBorn
  <2> QED
    BY <2>1, <2>2, <2>3, <2>4, <2>5, <1>1, <1>2, <1>3 DEF RowsStay, Names
<1> QED
  BY <1>4, <1>5

\* A refused mint only cleans up.
LEMMA MintFailsDoes ==
    ASSUME TypeOK, RowsAreBorn, NEW r, NEW v, MintFails(r, v)
    PROVE  /\ VaultTyped' /\ RowsAreBorn' /\ BornGrows
           /\ \A q \in RequestIds : RowsStay(q)
<1> DEFINE kept == CleanupExpired(rows, clock)
<1>0. /\ IsTable(kept)
      /\ DOMAIN kept = {x \in DOMAIN rows : rows[x].expires > clock}
      /\ \A x \in DOMAIN kept : kept[x] = rows[x]
  BY CleanupKeeps DEF TypeOK
<1>1. rows' = kept /\ born' = born
  BY DEF MintFails
<1>2. /\ IsTable(rows')
      /\ DOMAIN rows' = {x \in DOMAIN rows : rows[x].expires > clock}
      /\ \A x \in DOMAIN rows' : rows'[x] = rows[x]
  BY <1>0, <1>1
<1>3. \A x \in DOMAIN rows : rows[x].expires \in Int
  BY DEF TypeOK, IsTable, Row
<1> QED
  BY <1>1, <1>2, <1>3, FewerRows DEF RowsStay

\* A job that has looked up token tk, and found it or not.
Found(r, tk) == [job[r] EXCEPT !.look = job[r].look \ {tk},
                               !.map = job[r].map \union {<<tk, rows[tk].value>>}]
Missed(r, tk) == [job[r] EXCEPT !.look = job[r].look \ {tk}]

\* A lookup finds the value of an unexpired token, or removes one that is expired.
LEMMA LookUpDoes ==
    ASSUME TypeOK, RowsAreBorn, NEW r \in Requests, LookUp(r)
    PROVE  /\ VaultTyped' /\ RowsAreBorn' /\ BornGrows
           /\ \A q \in RequestIds : RowsStay(q)
           /\ \E tk \in job[r].look :
                 \/ /\ tk \in DOMAIN rows
                    /\ job' = [job EXCEPT ![r] = Found(r, tk)]
                 \/ /\ tk \in DOMAIN rows => rows[tk].expires <= clock
                    /\ job' = [job EXCEPT ![r] = Missed(r, tk)]
<1>1. born' = born
  BY DEF LookUp
<1>2. \A x \in DOMAIN rows : rows[x].expires \in Int /\ clock \in Int
  BY DEF TypeOK, IsTable, Row
<1>3. PICK tk \in job[r].look :
          IF tk \in DOMAIN rows /\ rows[tk].expires > clock
          THEN /\ job' = [job EXCEPT ![r].look = @ \ {tk},
                                     ![r].map = @ \union {<<tk, rows[tk].value>>}]
               /\ UNCHANGED rows
          ELSE /\ job' = [job EXCEPT ![r].look = @ \ {tk}]
               /\ rows' = DropToken(rows, tk)
  BY DEF LookUp
<1>4. CASE tk \in DOMAIN rows /\ rows[tk].expires > clock
  <2>1. /\ rows' = rows
        /\ job' = [job EXCEPT ![r] = Found(r, tk)]
    BY <1>3, <1>4 DEF TypeOK, Found
  <2>2. VaultTyped' /\ RowsAreBorn' /\ BornGrows
    BY <2>1, <1>1, FewerRows DEF TypeOK
  <2> QED
    BY <1>4, <2>1, <2>2 DEF RowsStay
<1>5. CASE ~(tk \in DOMAIN rows /\ rows[tk].expires > clock)
  <2> DEFINE left == DropToken(rows, tk)
  <2>1. /\ rows' = left
        /\ job' = [job EXCEPT ![r] = Missed(r, tk)]
    BY <1>3, <1>5 DEF TypeOK, Missed
  <2>2. IsTable(left) /\ DOMAIN left = DOMAIN rows \ {tk} /\ \A x \in DOMAIN left : left[x] = rows[x]
    BY DropTokenKeeps DEF TypeOK
  <2> HIDE DEF left
  <2>3. VaultTyped' /\ RowsAreBorn' /\ BornGrows
    BY <2>1, <2>2, <1>1, FewerRows
  <2>4. \A q \in RequestIds : RowsStay(q)
    BY <2>1, <2>2, <1>5 DEF RowsStay
  <2>5. tk \in DOMAIN rows => rows[tk].expires <= clock
    BY <1>2, <1>5
  <2> QED
    BY <2>1, <2>3, <2>4, <2>5
<1> QED
  BY <1>4, <1>5

--------------------------------------------------------------------------------
(* Types.                                                                      *)

\* The parts of a payload and the job at one of them.
LEMMA PartTyped ==
    ASSUME TypeOK, NEW r \in Requests
    PROVE  /\ payload[r] \in Seq(Part)
           /\ job[r] \in Job
           /\ \A i \in DOMAIN payload[r] :
                 /\ payload[r][i] \in Parts(r)
                 /\ payload[r][i].kind \in Kinds
                 /\ payload[r][i].spans \in Seq(Values)
                 /\ payload[r][i].quotes \subseteq Tokens
                 /\ SpanSet(payload[r][i]) \subseteq Values
                 /\ payload[r][i].kind = "clean" => SpanSet(payload[r][i]) = {}
           /\ \A n \in Nat : SpansLeft(r, n) \in Nat
<1>1. payload[r] \in Payloads[r] /\ Payloads[r] \subseteq Seq(Part)
  BY ProxyAssumption DEF TypeOK
<1>2. payload[r] \in Seq(Part) /\ job[r] \in Job
  BY <1>1 DEF TypeOK
<1>3. ASSUME NEW i \in DOMAIN payload[r]
      PROVE  /\ payload[r][i] \in Part /\ payload[r][i] \in Parts(r)
             /\ payload[r][i].kind = "clean" => payload[r][i].spans = <<>>
  BY <1>1, <1>2, <1>3, ProxyAssumption DEF Parts
<1>4. ASSUME NEW i \in DOMAIN payload[r]
      PROVE  /\ payload[r][i].spans \in Seq(Values)
             /\ payload[r][i].kind \in Kinds
             /\ payload[r][i].quotes \subseteq Tokens
             /\ SpanSet(payload[r][i]) \subseteq Values
  BY <1>3 DEF Part, SpanSet
<1>5. \A n \in Nat : SpansLeft(r, n) \in Nat
  BY <1>4 DEF SpansLeft
<1>6. \A i \in DOMAIN payload[r] : payload[r][i].kind = "clean" => SpanSet(payload[r][i]) = {}
  BY <1>3 DEF SpanSet
<1> QED
  BY <1>2, <1>3, <1>4, <1>5, <1>6

\* The job of r changes to j, and no other job.
Becomes(r, j) == /\ job' = [job EXCEPT ![r] = j]
                 /\ job' \in [Requests -> Job]

\* An update of one job.
LEMMA JobBecomes ==
    ASSUME TypeOK, NEW r \in Requests, NEW j \in Job, job' = [job EXCEPT ![r] = j]
    PROVE  /\ Becomes(r, j)
           /\ job'[r] = j
           /\ \A q \in Requests : q # r => job'[q] = job[q]
  BY DEF TypeOK, Becomes

\* What the steps of a walk do to the job.
LEMMA NextPartTyped ==
    ASSUME TypeOK, NEW r \in Requests, NEW j \in Job
    PROVE  /\ NextPart(r, j) \in Job
           /\ NextPart(r, j) = [j EXCEPT !.part = j.part + 1, !.hits = {},
                                         !.left = SpansLeft(r, job[r].part + 1)]
<1>0. job[r] \in Job
  BY PartTyped
<1>1. job[r].part + 1 \in Nat /\ j.part + 1 \in Nat
  BY <1>0 DEF Job
<1>2. SpansLeft(r, job[r].part + 1) \in Nat
  BY <1>1, PartTyped
<1> QED
  BY <1>1, <1>2 DEF NextPart, Job

Kept(r) == [job[r] EXCEPT !.out = job[r].out \union PartOf(r).quotes \union SpanSet(PartOf(r))]
Blocking(r) == [job[r] EXCEPT !.blocked = TRUE]
Redacted(r) == [job[r] EXCEPT !.out = job[r].out \union PartOf(r).quotes \union job[r].hits,
                              !.minted = job[r].minted \union job[r].hits]
Given(r, tk) == [job[r] EXCEPT !.left = job[r].left - 1, !.hits = job[r].hits \union {tk}]
Walked(r) == IF job[r].blocked
             THEN [job[r] EXCEPT !.st = "done"]
             ELSE [job[r] EXCEPT !.st = "looking",
                                 !.look = (job[r].look \union job[r].out \union job[r].minted)
                                          \intersect Tokens]
Started(r) == [NoJob EXCEPT !.st = "walking", !.part = 1, !.left = SpansLeft(r, 1)]

\* The jobs a step of the walk may lead to are jobs.
LEMMA WalkTyped ==
    ASSUME TypeOK, NEW r \in Requests
    PROVE  /\ Started(r) \in Job
           /\ Blocking(r) \in Job
           /\ Walked(r) \in Job
           /\ [Blocking(r) EXCEPT !.st = "done"] \in Job
           /\ [job[r] EXCEPT !.st = "done"] \in Job
           /\ AtPart(r) => Kept(r) \in Job /\ Redacted(r) \in Job
           /\ job[r].left > 0 => \A tk \in Tokens : Given(r, tk) \in Job
<1>1. job[r] \in Job /\ SpansLeft(r, 1) \in Nat
  BY PartTyped
<1>2. AtPart(r) => PartOf(r).quotes \subseteq Tokens /\ SpanSet(PartOf(r)) \subseteq Values
  BY PartTyped DEF AtPart, PartOf
<1>3. Started(r) \in Job
  BY <1>1 DEF Started, NoJob, Job, JobStates
<1>4. Walked(r) \in Job
  BY <1>1 DEF Walked, Job, JobStates
<1>5. /\ Blocking(r) \in Job
      /\ [Blocking(r) EXCEPT !.st = "done"] \in Job
      /\ [job[r] EXCEPT !.st = "done"] \in Job
  BY <1>1 DEF Blocking, Job, JobStates
<1>6. AtPart(r) => Kept(r) \in Job /\ Redacted(r) \in Job
  BY <1>1, <1>2 DEF Kept, Redacted, Job
<1>7. ASSUME job[r].left > 0, NEW tk \in Tokens
      PROVE  Given(r, tk) \in Job
  <2>1. job[r].left - 1 \in Nat /\ job[r].hits \union {tk} \subseteq Tokens
    BY <1>1, <1>7 DEF Job
  <2> QED
    BY <1>1, <2>1 DEF Given, Job
<1> QED
  BY <1>3, <1>4, <1>5, <1>6, <1>7

\* The ways a job may change.
Starts(r) == job[r].st = "queued" /\ job'[r] = Started(r)
Keeps(r) == /\ AtPart(r) /\ PartOf(r).kind \in {"clean"} \union PassedBy
            /\ job'[r] = NextPart(r, Kept(r))
Blocks(r) == AtPart(r) /\ job'[r] = NextPart(r, Blocking(r))
Refuses(r) == AtPart(r) /\ job'[r] = [Blocking(r) EXCEPT !.st = "done"]
Mints(r) == /\ AtPart(r) /\ PartOf(r).kind = "redact"
            /\ job[r].left \in DOMAIN PartOf(r).spans
            /\ \E tk \in Tokens, v \in Values :
                  /\ v = PartOf(r).spans[job[r].left] /\ Names(tk, v, r)'
                  /\ job'[r] = Given(r, tk)
                  /\ tk \in DOMAIN rows' /\ rows'[tk].rid = r
                  /\ rows'[tk].expires = clock + Ttl
Redacts(r) == /\ AtPart(r) /\ PartOf(r).kind = "redact" /\ job[r].left = 0
              /\ job'[r] = NextPart(r, Redacted(r))
Walks(r) == /\ job[r].st = "walking" /\ job[r].part \notin DOMAIN payload[r]
            /\ job'[r] = Walked(r)
Looks(r) ==
    /\ job[r].st = "looking"
    /\ \E tk \in job[r].look :
          \/ /\ tk \in DOMAIN rows
             /\ job'[r] = Found(r, tk)
          \/ /\ tk \in DOMAIN rows => rows[tk].expires <= clock
             /\ job'[r] = Missed(r, tk)
Ends(r) == /\ job[r].st = "looking" /\ job[r].look = {}
           /\ job'[r] = [job[r] EXCEPT !.st = "done"]

\* The vault after a step.
VaultKept == /\ VaultTyped' /\ RowsAreBorn' /\ BornGrows
             /\ \A q \in RequestIds : RowsStay(q)

Others(r) == \A q \in Requests : q # r => job'[q] = job[q]

\* A step of a thread changes its own job, in one of these ways, and keeps the vault
\* in order for everybody.
LEMMA PrepareDoes ==
    ASSUME TypeOK, RowsAreBorn, NEW r \in Requests, WalkInv(r), Prepare(r)
    PROVE  /\ JobStep(r) /\ VaultKept /\ Others(r)
           /\ job' \in [Requests -> Job]
           /\ \/ Starts(r) \/ Keeps(r) \/ Blocks(r) \/ Refuses(r) \/ Mints(r)
              \/ Redacts(r) \/ Walks(r) \/ Looks(r) \/ Ends(r)
<1>0. JobStep(r) /\ r \in RequestIds
  BY ProxyAssumption DEF Prepare, Start, KeepPart, BlockPart, RefusePart, MintSpan, MintRefused,
         RedactPart, EndWalk, LookUp, Finish
<1>1. UNCHANGED vaultVars => VaultKept
  BY FewerRows DEF VaultKept, vaultVars, TypeOK, RowsStay
<1>2. CASE Start(r)
  <2>1. job' = [job EXCEPT ![r] = Started(r)] /\ job[r].st = "queued" /\ UNCHANGED vaultVars
    BY <1>2 DEF Start, Started
  <2> QED
    BY <2>1, <1>0, <1>1, JobBecomes, WalkTyped DEF Becomes, Others, Starts
<1>3. CASE KeepPart(r)
  <2>1. job' = [job EXCEPT ![r] = NextPart(r, Kept(r))] /\ UNCHANGED vaultVars
    BY <1>3 DEF KeepPart, Kept, TypeOK
  <2>2. AtPart(r) /\ PartOf(r).kind \in {"clean"} \union PassedBy
    BY <1>3 DEF KeepPart
  <2>3. NextPart(r, Kept(r)) \in Job
    BY <2>2, WalkTyped, NextPartTyped
  <2> QED
    BY <2>1, <2>2, <2>3, <1>0, <1>1, JobBecomes DEF Becomes, Others, Keeps
<1>4. CASE BlockPart(r)
  <2>1. job' = [job EXCEPT ![r] = NextPart(r, Blocking(r))] /\ UNCHANGED vaultVars /\ AtPart(r)
    BY <1>4 DEF BlockPart, Blocking, TypeOK
  <2>2. NextPart(r, Blocking(r)) \in Job
    BY WalkTyped, NextPartTyped
  <2> QED
    BY <2>1, <2>2, <1>0, <1>1, JobBecomes DEF Becomes, Others, Blocks
<1>5. CASE RefusePart(r)
  <2>1. job' = [job EXCEPT ![r] = [Blocking(r) EXCEPT !.st = "done"]]
    BY <1>5, PartTyped DEF RefusePart, Blocking, TypeOK, Job
  <2>2. UNCHANGED vaultVars /\ AtPart(r)
    BY <1>5 DEF RefusePart
  <2> QED
    BY <2>1, <2>2, <1>0, <1>1, JobBecomes, WalkTyped DEF Becomes, Others, Refuses
<1>6. CASE MintSpan(r)
  <2>1. AtPart(r) /\ PartOf(r).kind = "redact" /\ job[r].left > 0
    BY <1>6 DEF MintSpan
  <2>2. PICK tk \in Tokens :
           /\ MintOk(r, PartOf(r).spans[job[r].left], tk)
           /\ job' = [job EXCEPT ![r].left = @ - 1, ![r].hits = @ \union {tk}]
    BY <1>6 DEF MintSpan
  <2>3. PartOf(r).spans \in Seq(Values)
    BY <2>1, PartTyped DEF AtPart, PartOf
  <2>4. job[r].left \in DOMAIN PartOf(r).spans
    <3>1. job[r].left \in Nat /\ job[r].left <= Len(PartOf(r).spans)
      BY <2>1, PartTyped DEF WalkInv, AtPart, Job
    <3> QED
      BY <2>1, <2>3, <3>1
  <2>5. PICK v \in Values : v = PartOf(r).spans[job[r].left]
    BY <2>3, <2>4
  <2>6. job' = [job EXCEPT ![r] = Given(r, tk)] /\ Given(r, tk) \in Job
    BY <2>1, <2>2, WalkTyped DEF Given, TypeOK
  <2>7. MintOk(r, v, tk)
    BY <2>2, <2>5
  <2>8. /\ VaultKept
        /\ tk \in DOMAIN rows' /\ rows'[tk].rid = r
        /\ rows'[tk].expires = clock + Ttl
        /\ Names(tk, v, r)'
    BY <2>7, <1>0, MintOkDoes DEF VaultKept
  <2> QED
    BY <2>1, <2>4, <2>5, <2>6, <2>8, <1>0, JobBecomes DEF Becomes, Others, Mints
<1>7. CASE MintRefused(r)
  <2>1. job' = [job EXCEPT ![r] = NextPart(r, Blocking(r))] /\ AtPart(r)
    BY <1>7 DEF MintRefused, Blocking, TypeOK
  <2>2. NextPart(r, Blocking(r)) \in Job
    BY WalkTyped, NextPartTyped
  <2>3. VaultKept
    BY <1>7, MintFailsDoes DEF MintRefused, VaultKept
  <2> QED
    BY <2>1, <2>2, <2>3, <1>0, JobBecomes DEF Becomes, Others, Blocks
<1>8. CASE RedactPart(r)
  <2>1. job' = [job EXCEPT ![r] = NextPart(r, Redacted(r))] /\ UNCHANGED vaultVars
    BY <1>8 DEF RedactPart, Redacted, TypeOK
  <2>2. AtPart(r) /\ PartOf(r).kind = "redact" /\ job[r].left = 0
    BY <1>8 DEF RedactPart
  <2>3. NextPart(r, Redacted(r)) \in Job
    BY <2>2, WalkTyped, NextPartTyped
  <2> QED
    BY <2>1, <2>2, <2>3, <1>0, <1>1, JobBecomes DEF Becomes, Others, Redacts
<1>9. CASE EndWalk(r)
  <2>1. job' = [job EXCEPT ![r] = Walked(r)] /\ UNCHANGED vaultVars
    BY <1>9 DEF EndWalk, Walked, TypeOK
  <2>2. job[r].st = "walking" /\ job[r].part \notin DOMAIN payload[r]
    BY <1>9 DEF EndWalk
  <2> QED
    BY <2>1, <2>2, <1>0, <1>1, JobBecomes, WalkTyped DEF Becomes, Others, Walks
<1>10. CASE LookUp(r)
  <2>1. job[r].st = "looking"
    BY <1>10 DEF LookUp
  <2>2. VaultKept
    BY <1>10, LookUpDoes DEF VaultKept
  <2>3. PICK tk \in job[r].look :
           \/ /\ tk \in DOMAIN rows
              /\ job' = [job EXCEPT ![r] = Found(r, tk)]
           \/ /\ tk \in DOMAIN rows => rows[tk].expires <= clock
              /\ job' = [job EXCEPT ![r] = Missed(r, tk)]
    BY <1>10, LookUpDoes
  <2>4. /\ tk \in DOMAIN rows => Found(r, tk) \in Job
        /\ Missed(r, tk) \in Job
    <3>1. job[r] \in Job
      BY PartTyped
    <3>2. tk \in DOMAIN rows => rows[tk].value \in Values /\ tk \in Tokens
      BY DEF TypeOK, IsTable, Row
    <3>3. tk \in DOMAIN rows =>
             job[r].map \union {<<tk, rows[tk].value>>} \in SUBSET (Tokens \X Values)
      BY <3>1, <3>2 DEF Job
    <3> QED
      BY <3>1, <3>3 DEF Job, Found, Missed
  <2> QED
    BY <2>1, <2>2, <2>3, <2>4, <1>0, JobBecomes DEF Becomes, Others, Looks
<1>11. CASE Finish(r)
  <2>1. job' = [job EXCEPT ![r] = [job[r] EXCEPT !.st = "done"]] /\ UNCHANGED vaultVars
    BY <1>11 DEF Finish, TypeOK
  <2>2. job[r].st = "looking" /\ job[r].look = {}
    BY <1>11 DEF Finish
  <2> QED
    BY <2>1, <2>2, <1>0, <1>1, JobBecomes, WalkTyped DEF Becomes, Others, Ends
<1> QED
  BY <1>2, <1>3, <1>4, <1>5, <1>6, <1>7, <1>8, <1>9, <1>10, <1>11 DEF Prepare

\* What the coroutine does to its request: nothing to the vault but at its cleanup,
\* nothing to other requests.
Handling(r) == Arrive(r) \/ Handle(r) \/ StreamDelta(r) \/ CloseFails(r) \/ Cancel(r)

Apart(r) == \A q \in Requests : q # r =>
               /\ task'[q] = task[q] /\ job'[q] = job[q] /\ seen'[q] = seen[q]
               /\ got'[q] = got[q] /\ verdict'[q] = verdict[q]
               /\ cancels'[q] = cancels[q] /\ arrived'[q] = arrived[q]

TasksTyped == /\ task \in [Requests -> TaskStates]
              /\ job \in [Requests -> Job]
              /\ seen \in [Requests -> SUBSET (Values \union Tokens)]
              /\ got \in [Requests -> SUBSET (Values \union Tokens)]
              /\ verdict \in [Requests -> Verdicts]
              /\ cancels \in [Requests -> Nat]
              /\ arrived \in [Requests -> Nat]

\* A coroutine that is over leaves nothing but a job that still runs.
LEMMA LeaveDoes ==
    ASSUME TasksTyped, NEW r \in Requests, NEW s \in TaskStates, Leave(r, s)
    PROVE  /\ TasksTyped' /\ Apart(r) /\ task'[r] = s
           /\ job'[r] = IF Running(r) THEN job[r] ELSE NoJob
           /\ seen'[r] = {} /\ got'[r] = {} /\ verdict'[r] = "none"
<1>1. NoJob \in Job
  BY DEF NoJob, Job, JobStates
<1> QED
  BY <1>1 DEF Leave, GoTo, TasksTyped, Apart, Verdicts

\* What a client reads is a value of the mapping or a token.
LEMMA RestoredTyped ==
    ASSUME NEW r \in Requests, job[r] \in Job, NEW reply \in SUBSET Tokens
    PROVE  /\ Restored(r, reply) \subseteq {p[2] : p \in job[r].map} \union Tokens
           /\ Restored(r, reply) \subseteq Values \union Tokens
<1>1. \A p \in job[r].map : p \in Tokens \X Values
  BY DEF Job
<1>2. Restored(r, reply) \subseteq {p[2] : p \in job[r].map} \union Tokens
  BY DEF Restored
<1> QED
  BY <1>1, <1>2

\* The coroutine keeps the types, and touches no other request.
LEMMA HandlingTyped ==
    ASSUME TypeOK, NEW r \in Requests, Handling(r)
    PROVE  TasksTyped' /\ Apart(r) /\ UNCHANGED <<clock, upstream, payload, tools>>
<1> USE DEF TaskStates, Verdicts, GoTo, Answer, TaskStep, Apart
<1>0. TasksTyped /\ job[r] \in Job /\ clock \in Nat
  BY DEF TypeOK, TasksTyped
<1>1. CASE Arrive(r)
  <2>1. [job[r] EXCEPT !.st = "queued"] \in Job
    BY <1>0 DEF Job, JobStates
  <2>2. job' = [job EXCEPT ![r] = [job[r] EXCEPT !.st = "queued"]]
    BY <1>1, <1>0 DEF Arrive, TasksTyped
  <2> QED
    BY <1>0, <1>1, <2>1, <2>2 DEF Arrive, TasksTyped
<1>2. CASE Refuse(r) \/ CallFails(r) \/ BadAnswer(r) \/ StreamOpens(r) \/ StreamEnds(r)
           \/ CloseResponse(r) \/ Drained(r)
  BY <1>0, <1>2 DEF Refuse, CallFails, BadAnswer, StreamOpens, StreamEnds, CloseResponse,
                    Drained, TasksTyped
<1>3. CASE Send(r)
  <2>1. job[r].out \subseteq Values \union Tokens
    BY <1>0 DEF Job
  <2> QED
    BY <1>0, <1>3, <2>1 DEF Send, TasksTyped
<1>4. CASE WholeAnswer(r) \/ StreamDelta(r)
  <2>1. PICK reply \in SUBSET Tokens : got' = [got EXCEPT ![r] = Restored(r, reply)]
    BY <1>4, ProxyAssumption DEF WholeAnswer, StreamDelta
  <2>2. Restored(r, reply) \subseteq Values \union Tokens
    BY <1>0, RestoredTyped
  <2>3. got' \in [Requests -> SUBSET (Values \union Tokens)]
    BY <1>0, <2>1, <2>2 DEF TasksTyped
  <2>4. \A q \in Requests : q # r => got'[q] = got[q]
    BY <1>0, <2>1 DEF TasksTyped
  <2> QED
    BY <1>0, <1>4, <2>3, <2>4 DEF WholeAnswer, StreamDelta, TasksTyped
<1>5. CASE CloseFails(r) \/ Cleanup(r)
  BY <1>0, <1>5, LeaveDoes DEF CloseFails, Cleanup
<1>6. CASE Cancel(r)
  <2>1. task[r] \in {"prepare", "drain", "call", "stream"} /\ AfterCancel[task[r]] \in TaskStates
    BY <1>6 DEF Cancel, AfterCancel
  <2> DEFINE j == [job[r] EXCEPT !.st = IF task[r] = "drain" /\ job[r].st = "queued"
                                        THEN "dropped" ELSE job[r].st]
  <2>2. j \in Job
    BY <1>0 DEF Job, JobStates
  <2>3. job' = [job EXCEPT ![r] = j]
    BY <1>0, <1>6 DEF Cancel, TasksTyped
  <2>4. cancels' = [cancels EXCEPT ![r] = cancels[r] + 1] /\ cancels[r] + 1 \in Nat
    BY <1>0, <1>6 DEF Cancel, TasksTyped
  <2> HIDE DEF j
  <2> QED
    BY <1>0, <1>6, <2>1, <2>2, <2>3, <2>4 DEF Cancel, TasksTyped
<1> QED
  BY <1>1, <1>2, <1>3, <1>4, <1>5, <1>6 DEF Handling, Handle

\* The coroutine keeps the vault in order: it only ever deletes its own rows.
LEMMA HandlingVault ==
    ASSUME TypeOK, RowsAreBorn, NEW r \in Requests, Handling(r)
    PROVE  /\ VaultTyped' /\ RowsAreBorn' /\ BornGrows
           /\ \A q \in Requests : q # r => RowsStay(q)
           /\ ~Cleanup(r) => UNCHANGED vaultVars
<1>1. CASE Cleanup(r)
  <2>1. rows' = DropRequest(rows, r) /\ born' = born /\ IsTable(rows)
    BY <1>1 DEF Cleanup, TypeOK
  <2>2. /\ IsTable(rows') /\ DOMAIN rows' = {tk \in DOMAIN rows : rows[tk].rid # r}
        /\ \A x \in DOMAIN rows' : rows'[x] = rows[x]
    BY <2>1 DEF DropRequest, Restrict, IsTable
  <2> QED
    BY <1>1, <2>1, <2>2, FewerRows DEF RowsStay
<1>2. CASE ~Cleanup(r)
  <2>1. UNCHANGED vaultVars
    BY <1>2 DEF Handling, Handle, Arrive, Refuse, Send, CallFails, BadAnswer, WholeAnswer,
                StreamOpens, StreamEnds, CloseResponse, Drained, StreamDelta, CloseFails,
                Cancel, TaskStep, vaultVars
  <2> QED
    BY <2>1, FewerRows DEF vaultVars, TypeOK, RowsStay
<1> QED
  BY <1>1, <1>2

\* Tool calls mint under ids of their own.
LEMMA SanitizeDoes ==
    ASSUME TypeOK, RowsAreBorn, NEW i \in ToolIds, SanitizeTool(i)
    PROVE  VaultKept
<1>1. i \in RequestIds
  BY ProxyAssumption
<1>2. PICK v \in Values : (\E tk \in Tokens : MintOk(i, v, tk)) \/ MintFails(i, v)
  BY DEF SanitizeTool
<1> QED
  BY <1>1, <1>2, MintOkDoes, MintFailsDoes DEF VaultKept

\* Init gives every variable a value of its type.
LEMMA InitTyped == Init => TypeOK
<1> SUFFICES ASSUME Init PROVE TypeOK
  OBVIOUS
<1>1. NoJob \in Job
  BY DEF NoJob, Job, JobStates
<1>2. IsTable(rows) /\ DOMAIN born = {}
  BY DEF Init, EmptyTable, IsTable
<1>3. DOMAIN payload = Requests /\ \A r \in Requests : payload[r] \in Payloads[r]
  BY DEF Init
<1>4. upstream \in BOOLEAN
  BY ProxyAssumption DEF Init
<1> QED
  BY <1>1, <1>2, <1>3, <1>4 DEF Init, TypeOK, TaskStates, Verdicts

\* Every step keeps the types and the table in order.
LEMMA StepTyped ==
    ASSUME TypeOK, RowsAreBorn, \A r \in Requests : WalkInv(r), [Next]_vars
    PROVE  TypeOK' /\ RowsAreBorn' /\ BornGrows
<1>1. ASSUME NEW r \in Requests, Prepare(r)
      PROVE  TypeOK' /\ RowsAreBorn' /\ BornGrows
  BY <1>1, PrepareDoes DEF JobStep, VaultKept, VaultTyped, TypeOK
<1>2. ASSUME NEW r \in Requests, Handling(r)
      PROVE  TypeOK' /\ RowsAreBorn' /\ BornGrows
  BY <1>2, HandlingTyped, HandlingVault DEF TasksTyped, VaultTyped, TypeOK
<1>3. ASSUME NEW i \in ToolIds, SanitizeTool(i)
      PROVE  TypeOK' /\ RowsAreBorn' /\ BornGrows
  <2>1. tools' = tools + 1 /\ tools' \in Nat
    BY <1>3 DEF SanitizeTool, TypeOK
  <2> QED
    BY <1>3, <2>1, SanitizeDoes DEF SanitizeTool, VaultKept, VaultTyped, TypeOK
<1>4. CASE Tick
  BY <1>4 DEF Tick, TypeOK, RowsAreBorn, BornGrows
<1>5. CASE UNCHANGED vars
  BY <1>5 DEF vars, TypeOK, RowsAreBorn, BornGrows
<1> QED
  BY <1>1, <1>2, <1>3, <1>4, <1>5 DEF Next, Handling

--------------------------------------------------------------------------------
(* The invariant is kept by the thread that prepares a request.                *)

\* The fields of a job after each of its steps.
LEMMA JobFields ==
    ASSUME TypeOK, NEW r \in Requests
    PROVE  LET j == job[r]
               k == job'[r]
               Same == k.map = j.map /\ k.look = j.look
               Next1 == /\ k.st = j.st /\ k.part = j.part + 1 /\ k.hits = {}
                        /\ k.left = SpansLeft(r, j.part + 1)
           IN
           /\ Starts(r) => /\ k.st = "walking" /\ k.part = 1 /\ k.left = SpansLeft(r, 1)
                           /\ k.hits = {} /\ k.minted = {} /\ k.out = {}
                           /\ k.look = {} /\ k.map = {} /\ ~k.blocked
           /\ Keeps(r) => /\ Next1 /\ Same /\ k.minted = j.minted /\ k.blocked = j.blocked
                          /\ k.out = j.out \union PartOf(r).quotes \union SpanSet(PartOf(r))
           /\ Blocks(r) => /\ Next1 /\ Same /\ k.minted = j.minted /\ k.blocked
                           /\ k.out = j.out
           /\ Refuses(r) => /\ k.st = "done" /\ k.hits = j.hits /\ Same
                            /\ k.minted = j.minted /\ k.blocked /\ k.out = j.out
           /\ Redacts(r) => /\ Next1 /\ Same /\ k.blocked = j.blocked
                            /\ k.minted = j.minted \union j.hits
                            /\ k.out = j.out \union PartOf(r).quotes \union j.hits
           /\ Walks(r) => /\ k.hits = j.hits /\ k.minted = j.minted /\ k.out = j.out
                          /\ k.map = j.map /\ k.blocked = j.blocked
                          /\ \/ j.blocked /\ k.st = "done" /\ k.look = j.look
                             \/ /\ ~j.blocked /\ k.st = "looking"
                                /\ k.look = (j.look \union j.out \union j.minted)
                                            \intersect Tokens
           /\ Ends(r) => /\ k.st = "done" /\ k.hits = j.hits /\ Same
                         /\ k.minted = j.minted /\ k.blocked = j.blocked /\ k.out = j.out
<1>1. job[r] \in Job
  BY PartTyped
<1>2. Starts(r) => /\ job'[r].st = "walking" /\ job'[r].part = 1
                   /\ job'[r].left = SpansLeft(r, 1) /\ job'[r].hits = {}
                   /\ job'[r].minted = {} /\ job'[r].out = {}
                   /\ job'[r].look = {} /\ job'[r].map = {} /\ ~job'[r].blocked
  BY DEF Starts, Started, NoJob
<1>3. /\ Kept(r) \in Job \/ ~AtPart(r)
      /\ Redacted(r) \in Job \/ ~AtPart(r)
      /\ Blocking(r) \in Job
  BY WalkTyped
<1>4. ASSUME Keeps(r)
      PROVE  job'[r] = [Kept(r) EXCEPT !.part = Kept(r).part + 1, !.hits = {},
                                       !.left = SpansLeft(r, job[r].part + 1)]
  BY <1>3, <1>4, NextPartTyped DEF Keeps
<1>5. ASSUME Blocks(r)
      PROVE  job'[r] = [Blocking(r) EXCEPT !.part = Blocking(r).part + 1, !.hits = {},
                                           !.left = SpansLeft(r, job[r].part + 1)]
  BY <1>3, <1>5, NextPartTyped DEF Blocks
<1>6. ASSUME Redacts(r)
      PROVE  job'[r] = [Redacted(r) EXCEPT !.part = Redacted(r).part + 1, !.hits = {},
                                           !.left = SpansLeft(r, job[r].part + 1)]
  BY <1>3, <1>6, NextPartTyped DEF Redacts
<1>7. Keeps(r) => /\ job'[r].st = job[r].st /\ job'[r].part = job[r].part + 1
                  /\ job'[r].hits = {} /\ job'[r].left = SpansLeft(r, job[r].part + 1)
                  /\ job'[r].map = job[r].map /\ job'[r].look = job[r].look
                  /\ job'[r].minted = job[r].minted /\ job'[r].blocked = job[r].blocked
                  /\ job'[r].out = job[r].out \union PartOf(r).quotes \union SpanSet(PartOf(r))
  BY <1>1, <1>4 DEF Kept, Job
<1>8. Blocks(r) => /\ job'[r].st = job[r].st /\ job'[r].part = job[r].part + 1
                   /\ job'[r].hits = {} /\ job'[r].left = SpansLeft(r, job[r].part + 1)
                   /\ job'[r].map = job[r].map /\ job'[r].look = job[r].look
                   /\ job'[r].minted = job[r].minted /\ job'[r].blocked
                   /\ job'[r].out = job[r].out
  BY <1>1, <1>5 DEF Blocking, Job
<1>9. Redacts(r) => /\ job'[r].st = job[r].st /\ job'[r].part = job[r].part + 1
                    /\ job'[r].hits = {} /\ job'[r].left = SpansLeft(r, job[r].part + 1)
                    /\ job'[r].map = job[r].map /\ job'[r].look = job[r].look
                    /\ job'[r].minted = job[r].minted \union job[r].hits
                    /\ job'[r].blocked = job[r].blocked
                    /\ job'[r].out = job[r].out \union PartOf(r).quotes \union job[r].hits
  BY <1>1, <1>6 DEF Redacted, Job
<1>10. Refuses(r) => /\ job'[r].st = "done" /\ job'[r].hits = job[r].hits
                     /\ job'[r].map = job[r].map /\ job'[r].look = job[r].look
                     /\ job'[r].minted = job[r].minted /\ job'[r].blocked
                     /\ job'[r].out = job[r].out
  BY <1>1 DEF Refuses, Blocking, Job
<1>11. Walks(r) => /\ job'[r].hits = job[r].hits /\ job'[r].minted = job[r].minted
                   /\ job'[r].out = job[r].out /\ job'[r].map = job[r].map
                   /\ job'[r].blocked = job[r].blocked
                   /\ \/ job[r].blocked /\ job'[r].st = "done" /\ job'[r].look = job[r].look
                      \/ /\ ~job[r].blocked /\ job'[r].st = "looking"
                         /\ job'[r].look = (job[r].look \union job[r].out \union job[r].minted)
                                           \intersect Tokens
  BY <1>1 DEF Walks, Walked, Job
<1>12. Ends(r) => /\ job'[r].st = "done" /\ job'[r].hits = job[r].hits
                  /\ job'[r].map = job[r].map /\ job'[r].look = job[r].look
                  /\ job'[r].minted = job[r].minted /\ job'[r].blocked = job[r].blocked
                  /\ job'[r].out = job[r].out
  BY <1>1 DEF Ends, Job
<1> QED
  BY <1>2, <1>7, <1>8, <1>9, <1>10, <1>11, <1>12

\* What was generated for a value and a request stays so.
LEMMA NamesStay ==
    ASSUME BornGrows
    PROVE  /\ \A tk, v, q : Names(tk, v, q) => Names(tk, v, q)'
           /\ \A tk, q : Owned(tk, q) => Owned(tk, q)'
  BY DEF BornGrows, Names, Owned

\* A part that may leave may leave with more tokens around it.
LEMMA CompleteStays ==
    ASSUME BornGrows
    PROVE  \A r, p, text, more : text \subseteq more /\ Complete(r, p, text)
                                    => Complete(r, p, more)'
  BY NamesStay DEF Complete

\* What the client wrote does not change.
LEMMA SamePayload ==
    ASSUME payload' = payload, NEW r
    PROVE  /\ Parts(r)' = Parts(r) /\ Quoted(r)' = Quoted(r)
           /\ UnwalkedValues(r)' = UnwalkedValues(r)
  BY DEF Parts, Quoted, UnwalkedValues

\* A request at which nothing changes keeps its invariant, whatever others do to the
\* vault and however the clock goes on.
LEMMA Frame ==
    ASSUME TypeOK, NEW r \in Requests, ReqInv(r), BornGrows, RowsStay(r),
           payload' = payload, job'[r] = job[r], task'[r] = task[r],
           seen'[r] = seen[r], got'[r] = got[r], verdict'[r] = verdict[r],
           arrived'[r] = arrived[r], clock' \in Nat, clock' >= clock
    PROVE  ReqInv(r)'
<1>1. WalkInv(r)'
  <2>1. PartOf(r)' = PartOf(r)
    BY DEF PartOf
  <2> QED
    BY <2>1, CompleteStays, NamesStay DEF ReqInv, WalkInv
<1>2. ReadyInv(r)'
  BY CompleteStays DEF ReqInv, ReadyInv
<1>3. TextInv(r)'
  BY SamePayload DEF ReqInv, TextInv
<1>4. TokensInv(r)'
  BY SamePayload, NamesStay DEF ReqInv, TokensInv
<1>5. MapInv(r)'
  BY SamePayload DEF ReqInv, MapInv, BornGrows
<1>6. GotInv(r)'
  BY DEF ReqInv, GotInv
<1>7. TaskInv(r)'
  BY DEF ReqInv, TaskInv, Sent
<1>8. FreshInv(r)'
  <2>1. arrived[r] \in Nat /\ clock \in Nat /\ Ttl \in Nat
    BY ProxyAssumption DEF TypeOK
  <2>2. \A tk \in DOMAIN rows : rows[tk].expires \in Int
    BY DEF TypeOK, IsTable, Row
  <2>3. Young(r)' => Young(r)
    BY <2>1 DEF Young
  <2> QED
    BY <2>1, <2>2, <2>3 DEF ReqInv, FreshInv, RowsStay, Young
<1> QED
  BY <1>1, <1>2, <1>3, <1>4, <1>5, <1>6, <1>7, <1>8 DEF ReqInv

\* A step of the thread of r, as PrepareDoes describes it.
Prepared(r) == /\ JobStep(r) /\ VaultKept
               /\ \/ Starts(r) \/ Keeps(r) \/ Blocks(r) \/ Refuses(r) \/ Mints(r)
                  \/ Redacts(r) \/ Walks(r) \/ Looks(r) \/ Ends(r)

\* The fields of a job that has minted or looked up a token.
LEMMA TokenFields ==
    ASSUME TypeOK, NEW r \in Requests, Mints(r) \/ Looks(r)
    PROVE  /\ job'[r].st = job[r].st /\ job'[r].part = job[r].part
           /\ job'[r].minted = job[r].minted /\ job'[r].out = job[r].out
           /\ job'[r].blocked = job[r].blocked
           /\ Mints(r) => /\ job[r].st = "walking" /\ job'[r].left = job[r].left - 1
                          /\ job'[r].look = job[r].look /\ job'[r].map = job[r].map
           /\ Looks(r) => job[r].st = "looking" /\ job'[r].hits = job[r].hits
<1>1. job[r] \in Job
  BY PartTyped
<1>2. Mints(r) => \E tk \in Tokens : job'[r] = Given(r, tk)
  BY DEF Mints
<1>3. ~(Mints(r) /\ Looks(r))
  BY DEF Mints, Looks, AtPart
<1>4. CASE Mints(r)
  <2>1. PICK tk \in Tokens : job'[r] = Given(r, tk)
    BY <1>2, <1>4
  <2>2. job[r].st = "walking"
    BY <1>4 DEF Mints, AtPart
  <2> QED
    BY <1>1, <1>3, <1>4, <2>1, <2>2 DEF Given, Job
<1>5. CASE Looks(r)
  <2>1. job[r].st = "looking"
    BY <1>5 DEF Looks
  <2>2. PICK tk \in job[r].look : job'[r] \in {Found(r, tk), Missed(r, tk)}
    BY <1>5 DEF Looks
  <2> QED
    BY <1>1, <1>3, <1>5, <2>1, <2>2 DEF Found, Missed, Job
<1> QED
  BY <1>4, <1>5

\* The part that a walk is about to leave behind is complete.
LEMMA PartDone ==
    ASSUME TypeOK, NEW r \in Requests, WalkInv(r), BornGrows, Keeps(r) \/ Redacts(r)
    PROVE  Complete(r, PartOf(r), job'[r].out)
<1>1. CASE Keeps(r)
  BY <1>1 DEF Keeps, Complete, PassedBy
<1>2. CASE Redacts(r)
  <2>1. AtPart(r) /\ PartOf(r).kind = "redact" /\ job[r].left = 0
    BY <1>2 DEF Redacts
  <2>2. job[r].hits \subseteq job'[r].out
    BY <1>2, JobFields
  <2>3. PartOf(r).spans \in Seq(Values)
    BY <2>1, PartTyped DEF AtPart, PartOf
  <2>4. ASSUME NEW i \in DOMAIN PartOf(r).spans
        PROVE  \E tk \in job[r].hits : Names(tk, PartOf(r).spans[i], r)
    BY <2>1, <2>3, <2>4 DEF WalkInv, AtPart
  <2> QED
    BY <2>1, <2>2, <2>4 DEF Complete, SpanSet
<1> QED
  BY <1>1, <1>2

\* The thread keeps what is known of the walk.
LEMMA PrepareWalk ==
    ASSUME TypeOK, NEW r \in Requests, WalkInv(r), Prepared(r)
    PROVE  WalkInv(r)'
<1>0. /\ payload' = payload /\ BornGrows /\ job[r] \in Job /\ payload[r] \in Seq(Part)
      /\ \A i \in DOMAIN payload[r] : payload[r][i].spans \in Seq(Values)
  BY PartTyped DEF Prepared, JobStep, VaultKept
<1>1. SUFFICES ASSUME job'[r].st = "walking"
               PROVE  WalkInv(r)'
  BY DEF WalkInv
<1>2. CASE Starts(r)
  <2>1. /\ job'[r].part = 1 /\ job'[r].left = SpansLeft(r, 1)
    BY <1>2, JobFields
  <2> QED
    BY <1>0, <2>1 DEF WalkInv, PartOf, SpansLeft
<1>3. ASSUME Keeps(r) \/ Blocks(r) \/ Redacts(r)
      PROVE  WalkInv(r)'
  <2>1. /\ job'[r].part = job[r].part + 1 /\ job'[r].left = SpansLeft(r, job[r].part + 1)
        /\ job[r].out \subseteq job'[r].out
        /\ ~job'[r].blocked => ~job[r].blocked /\ ~Blocks(r)
    BY <1>3, JobFields
  <2>2. /\ job[r].st = "walking" /\ job[r].part \in DOMAIN payload[r] /\ job[r].part \in Nat
    BY <1>0, <1>3 DEF Keeps, Blocks, Redacts, AtPart, Job
  <2>3. ASSUME ~job'[r].blocked, NEW i \in DOMAIN payload[r], i < job[r].part + 1
        PROVE  Complete(r, payload[r][i], job'[r].out)
    <3>1. CASE i = job[r].part
      <4>1. Complete(r, PartOf(r), job'[r].out)
        BY <1>0, <1>3, <2>1, <2>3, PartDone
      <4> QED
        BY <3>1, <4>1 DEF PartOf
    <3>2. CASE i < job[r].part
      <4>1. Complete(r, payload[r][i], job[r].out)
        BY <3>2, <2>1, <2>2, <2>3 DEF WalkInv
      <4> QED
        BY <4>1, <2>1 DEF Complete
    <3> QED
      BY <3>1, <3>2, <2>2, <2>3, <1>0
  <2>4. ASSUME ~job'[r].blocked, NEW i \in DOMAIN payload[r], i < job[r].part + 1
        PROVE  Complete(r, payload[r][i], job[r].out)' 
    BY <2>3, <2>4, <1>0, NamesStay DEF Complete
  <2>5. /\ job'[r].part >= 1
        /\ job'[r].part \in DOMAIN payload'[r] => job'[r].left = Len(PartOf(r).spans)'
    BY <1>0, <2>1, <2>2 DEF PartOf, SpansLeft
  <2> QED
    BY <1>0, <2>1, <2>4, <2>5 DEF WalkInv, PartOf
<1>4. CASE Mints(r)
  <2>1. /\ job'[r].st = job[r].st /\ job'[r].part = job[r].part
        /\ job'[r].left = job[r].left - 1 /\ job'[r].out = job[r].out
        /\ job'[r].blocked = job[r].blocked /\ PartOf(r)' = PartOf(r)
    BY <1>0, <1>4, TokenFields DEF PartOf
  <2>2. /\ AtPart(r) /\ PartOf(r).spans \in Seq(Values)
        /\ job[r].left \in DOMAIN PartOf(r).spans
    BY <1>0, <1>4 DEF Mints, AtPart, PartOf
  <2>3. /\ job[r].hits \subseteq job'[r].hits
        /\ \E tk \in job'[r].hits, v \in Values :
              v = PartOf(r).spans[job[r].left] /\ Names(tk, v, r)'
    BY <1>0, <1>4 DEF Mints, Given, Job
  <2>4. ASSUME NEW i \in DOMAIN PartOf(r).spans, i > job[r].left - 1
        PROVE  \E tk \in job'[r].hits, v \in Values :
                  v = PartOf(r).spans[i] /\ Names(tk, v, r)'
    <3>1. CASE i = job[r].left
      BY <3>1, <2>3
    <3>2. CASE i > job[r].left
      <4>1. PartOf(r).kind = "redact" /\ PartOf(r).spans[i] \in Values
        BY <1>4, <2>2, <2>4 DEF Mints
      <4>2. PICK tk \in job[r].hits : Names(tk, PartOf(r).spans[i], r)
        BY <3>2, <2>2, <2>4, <4>1 DEF WalkInv, AtPart
      <4> QED
        BY <4>1, <4>2, <2>3, <1>0, NamesStay
    <3> QED
      BY <3>1, <3>2, <2>2, <2>4
  <2>5. ~job'[r].blocked =>
           \A i \in DOMAIN payload[r] :
               i < job'[r].part => Complete(r, payload[r][i], job[r].out)'
    BY <1>0, <1>1, <2>1, NamesStay DEF WalkInv, Complete
  <2>6. job'[r].left <= Len(PartOf(r).spans)
    BY <2>1, <2>2
  <2> QED
    BY <1>0, <1>1, <2>1, <2>2, <2>4, <2>5, <2>6 DEF WalkInv, AtPart
<1>5. CASE Refuses(r) \/ Walks(r) \/ Looks(r) \/ Ends(r)
  BY <1>1, <1>5, JobFields, TokenFields
<1> QED
  BY <1>2, <1>3, <1>4, <1>5 DEF Prepared

\* The thread hands over a text whose parts are all complete, or a block.
LEMMA PrepareReady ==
    ASSUME TypeOK, NEW r \in Requests, WalkInv(r), ReadyInv(r), Prepared(r)
    PROVE  ReadyInv(r)'
<1>0. /\ payload' = payload /\ BornGrows /\ job[r] \in Job /\ payload[r] \in Seq(Part)
  BY PartTyped DEF Prepared, JobStep, VaultKept
<1>1. CASE Starts(r) \/ Keeps(r) \/ Blocks(r) \/ Redacts(r) \/ Mints(r)
  <2>1. job'[r].st = "walking"
    BY <1>1, JobFields, TokenFields DEF Keeps, Blocks, Redacts, AtPart
  <2> QED
    BY <2>1 DEF ReadyInv
<1>2. CASE Refuses(r)
  <2>1. job'[r].st = "done" /\ job'[r].blocked
    BY <1>2, JobFields
  <2> QED
    BY <2>1 DEF ReadyInv
<1>3. CASE Walks(r)
  <2>1. /\ job'[r].out = job[r].out /\ job'[r].blocked = job[r].blocked
        /\ job'[r].st = "looking" => ~job[r].blocked
    BY <1>3, JobFields
  <2>2. /\ job[r].st = "walking" /\ job[r].part \notin DOMAIN payload[r]
        /\ job[r].part \in Nat
    BY <1>0, <1>3 DEF Walks, Job
  <2>3. \A i \in DOMAIN payload[r] : i < job[r].part
    BY <1>0, <2>2 DEF WalkInv
  <2>4. ~job[r].blocked => \A i \in DOMAIN payload[r] : Complete(r, payload[r][i], job[r].out)
    BY <2>2, <2>3 DEF WalkInv
  <2> QED
    BY <1>0, <2>1, <2>4, NamesStay DEF ReadyInv, Complete
<1>4. CASE Looks(r) \/ Ends(r)
  <2>1. /\ job'[r].out = job[r].out /\ job'[r].blocked = job[r].blocked
        /\ job[r].st = "looking"
    BY <1>4, JobFields, TokenFields DEF Ends
  <2> QED
    BY <1>0, <2>1, NamesStay DEF ReadyInv, Complete
<1> QED
  BY <1>1, <1>2, <1>3, <1>4 DEF Prepared

\* The thread puts values of unwalked parts into the text and no others.
LEMMA PrepareText ==
    ASSUME TypeOK, NEW r \in Requests, TextInv(r), Prepared(r)
    PROVE  TextInv(r)'
<1>0. /\ payload' = payload /\ seen' = seen /\ job[r] \in Job
      /\ Tokens \intersect Values = {}
  BY PartTyped, ProxyAssumption DEF Prepared, JobStep
<1>1. job'[r].out \intersect Values \subseteq UnwalkedValues(r)
  <2>1. CASE Starts(r) \/ Blocks(r) \/ Refuses(r) \/ Walks(r) \/ Looks(r) \/ Ends(r) \/ Mints(r)
    BY <2>1, JobFields, TokenFields DEF TextInv
  <2>2. CASE Keeps(r)
    <3>1. job'[r].out = job[r].out \union PartOf(r).quotes \union SpanSet(PartOf(r))
      BY <2>2, JobFields
    <3>2. /\ PartOf(r).quotes \subseteq Tokens /\ PartOf(r) \in Parts(r)
          /\ PartOf(r).kind = "clean" => SpanSet(PartOf(r)) = {}
          /\ PartOf(r).kind \in {"clean"} \union PassedBy
      BY <2>2, PartTyped DEF Keeps, AtPart, PartOf
    <3>3. SpanSet(PartOf(r)) \subseteq UnwalkedValues(r)
      BY <3>2 DEF UnwalkedValues
    <3> QED
      BY <1>0, <3>1, <3>2, <3>3 DEF TextInv
  <2>3. CASE Redacts(r)
    <3>1. job'[r].out = job[r].out \union PartOf(r).quotes \union job[r].hits
      BY <2>3, JobFields
    <3>2. PartOf(r).quotes \subseteq Tokens /\ job[r].hits \subseteq Tokens
      BY <1>0, <2>3, PartTyped DEF Redacts, AtPart, PartOf, Job
    <3> QED
      BY <1>0, <3>1, <3>2 DEF TextInv
  <2> QED
    BY <2>1, <2>2, <2>3 DEF Prepared
<1> QED
  BY <1>0, <1>1, SamePayload DEF TextInv

\* The thread mints for its own request, and looks up tokens of its own text only.
LEMMA PrepareTokens ==
    ASSUME TypeOK, NEW r \in Requests, TokensInv(r), Prepared(r)
    PROVE  TokensInv(r)'
<1>0. /\ payload' = payload /\ BornGrows /\ job[r] \in Job
      /\ Tokens \intersect Values = {} /\ Quoted(r)' = Quoted(r)
  BY PartTyped, ProxyAssumption, SamePayload DEF Prepared, JobStep, VaultKept
<1>1. \A tk : Owned(tk, r) => Owned(tk, r)'
  BY <1>0, NamesStay
<1>2. CASE Starts(r) \/ Blocks(r) \/ Refuses(r) \/ Walks(r) \/ Ends(r)
  BY <1>0, <1>1, <1>2, JobFields DEF TokensInv
<1>3. CASE Looks(r)
  <2>0. PICK tk : job'[r] \in {Found(r, tk), Missed(r, tk)}
    BY <1>3 DEF Looks
  <2>1. job'[r].look \subseteq job[r].look
    BY <1>0, <2>0 DEF Found, Missed, Job
  <2> QED
    BY <1>0, <1>1, <1>3, <2>1, TokenFields DEF TokensInv
<1>4. CASE Mints(r)
  <2>1. PICK tk \in Tokens : Owned(tk, r)' /\ job'[r] = Given(r, tk)
    BY <1>4 DEF Mints, Names, Owned
  <2>2. job'[r].hits = job[r].hits \union {tk}
    BY <1>0, <2>1 DEF Given, Job
  <2> QED
    BY <1>0, <1>1, <1>4, <2>1, <2>2, TokenFields DEF TokensInv
<1>5. CASE Keeps(r)
  <2>1. /\ job'[r].out = job[r].out \union PartOf(r).quotes \union SpanSet(PartOf(r))
        /\ job'[r].hits = {} /\ job'[r].minted = job[r].minted
        /\ job'[r].look = job[r].look
    BY <1>5, JobFields
  <2>2. /\ PartOf(r).quotes \subseteq Quoted(r)
        /\ SpanSet(PartOf(r)) \subseteq Values
    BY <1>5, PartTyped DEF Keeps, AtPart, PartOf, Quoted
  <2> QED
    BY <1>0, <1>1, <2>1, <2>2 DEF TokensInv
<1>6. CASE Redacts(r)
  <2>1. /\ job'[r].out = job[r].out \union PartOf(r).quotes \union job[r].hits
        /\ job'[r].hits = {} /\ job'[r].minted = job[r].minted \union job[r].hits
        /\ job'[r].look = job[r].look
    BY <1>6, JobFields
  <2>2. PartOf(r).quotes \subseteq Quoted(r)
    BY <1>6, PartTyped DEF Redacts, AtPart, PartOf, Quoted
  <2> QED
    BY <1>0, <1>1, <2>1, <2>2 DEF TokensInv
<1> QED
  BY <1>2, <1>3, <1>4, <1>5, <1>6 DEF Prepared

\* The thread enters what the vault holds for a token, which is its value.
LEMMA PrepareMap ==
    ASSUME TypeOK, RowsAreBorn, NEW r \in Requests, TokensInv(r), MapInv(r), Prepared(r)
    PROVE  MapInv(r)'
<1>0. BornGrows /\ job[r] \in Job /\ Quoted(r)' = Quoted(r)
  BY PartTyped, SamePayload DEF Prepared, JobStep, VaultKept
<1>1. \A p \in job[r].map : /\ p[1] \in DOMAIN born' /\ p[2] = born'[p[1]].value
                            /\ born'[p[1]].rid = r \/ p[1] \in Quoted(r)
  BY <1>0 DEF MapInv, BornGrows
<1>2. CASE ~Looks(r)
  <2>1. job'[r].map \subseteq job[r].map
    BY <1>2, JobFields, TokenFields DEF Prepared
  <2> QED
    BY <1>0, <1>1, <2>1 DEF MapInv
<1>3. CASE Looks(r)
  <2>1. PICK tk \in job[r].look :
           \/ tk \in DOMAIN rows /\ job'[r] = Found(r, tk)
           \/ job'[r] = Missed(r, tk)
    BY <1>3 DEF Looks
  <2>2. CASE job'[r] = Missed(r, tk)
    <3>1. job'[r].map = job[r].map
      BY <1>0, <2>2 DEF Missed, Job
    <3> QED
      BY <1>0, <1>1, <3>1 DEF MapInv
  <2>3. CASE tk \in DOMAIN rows /\ job'[r] = Found(r, tk)
    <3>1. job'[r].map = job[r].map \union {<<tk, rows[tk].value>>}
      BY <1>0, <2>3 DEF Found, Job
    <3>2. tk \in DOMAIN born /\ rows[tk].value = born[tk].value
      <4>1. /\ tk \in DOMAIN born
            /\ born[tk] = [value |-> rows[tk].value, rid |-> rows[tk].rid]
        BY <2>3 DEF RowsAreBorn
      <4> QED
        BY <4>1
    <3>3. born[tk].rid = r \/ tk \in Quoted(r)
      BY <2>1 DEF TokensInv, Owned
    <3>4. /\ tk \in DOMAIN born' /\ rows[tk].value = born'[tk].value
          /\ born'[tk].rid = r \/ tk \in Quoted(r)
      BY <1>0, <3>2, <3>3 DEF BornGrows
    <3> QED
      BY <1>0, <1>1, <3>1, <3>4 DEF MapInv
  <2> QED
    BY <2>1, <2>2, <2>3
<1> QED
  BY <1>2, <1>3

\* While the thread is at work, nothing has been sent and nothing has come back.
LEMMA PrepareGotTask ==
    ASSUME TypeOK, NEW r \in Requests, GotInv(r), TaskInv(r), Prepared(r)
    PROVE  GotInv(r)' /\ TaskInv(r)'
<1>1. job[r].st \in {"queued", "walking", "looking"}
  BY DEF Prepared, Starts, Keeps, Blocks, Refuses, Mints, Redacts, Walks, Looks, Ends, AtPart
<1>2. task' = task /\ got' = got /\ verdict' = verdict /\ seen' = seen
  BY DEF Prepared, JobStep
<1>3. got[r] = {} /\ task[r] # "new" /\ ~Sent(r)
  BY <1>1 DEF GotInv, TaskInv, NoJob
<1> QED
  BY <1>2, <1>3 DEF GotInv, TaskInv, Sent

\* The thread loses no token that was minted for its request: the rows stay until the
\* lookup, and the lookup finds them.
LEMMA PrepareFresh ==
    ASSUME TypeOK, NEW r \in Requests, TaskInv(r), FreshInv(r), Prepared(r)
    PROVE  FreshInv(r)'
<1>0. /\ clock' = clock /\ task' = task /\ arrived' = arrived
      /\ job[r] \in Job /\ RowsStay(r) /\ r \in RequestIds
  BY PartTyped, ProxyAssumption DEF Prepared, JobStep, VaultKept
<1>1. /\ clock \in Nat /\ arrived[r] \in Nat /\ Ttl \in Nat
      /\ \A tk \in DOMAIN rows : rows[tk].expires \in Int
  BY ProxyAssumption DEF TypeOK, IsTable, Row
<1>2. (arrived[r] <= clock)' /\ (Young(r)' <=> Young(r))
  BY <1>0 DEF FreshInv, Young
<1>3. ASSUME task[r] = "prepare", job'[r].st \in {"walking", "looking"}, Young(r),
             NEW tk \in job'[r].hits \union job'[r].minted
      PROVE  /\ tk \in DOMAIN rows' /\ rows'[tk].rid = r
             /\ rows'[tk].expires >= arrived[r] + Ttl
  <2>1. ASSUME job[r].st \in {"walking", "looking"}, tk \in job[r].hits \union job[r].minted
        PROVE  /\ tk \in DOMAIN rows' /\ rows'[tk].rid = r
               /\ rows'[tk].expires >= arrived[r] + Ttl
    <3>1. /\ tk \in DOMAIN rows /\ rows[tk].rid = r
          /\ rows[tk].expires >= arrived[r] + Ttl
      BY <1>3, <2>1 DEF FreshInv
    <3> QED
      BY <1>0, <1>1, <1>2, <1>3, <3>1 DEF RowsStay, Young, FreshInv
  <2>2. CASE Starts(r)
    BY <2>2, <1>3, JobFields
  <2>3. CASE Keeps(r) \/ Blocks(r) \/ Refuses(r) \/ Redacts(r) \/ Walks(r) \/ Ends(r)
    <3>1. job[r].st \in {"walking", "looking"}
      BY <2>3 DEF Keeps, Blocks, Refuses, Redacts, Walks, Ends, AtPart
    <3>2. tk \in job[r].hits \union job[r].minted
      BY <2>3, <1>3, JobFields
    <3> QED
      BY <2>1, <3>1, <3>2
  <2>4. CASE Looks(r)
    BY <2>1, <2>4, <1>3, TokenFields
  <2>5. CASE Mints(r)
    <3>1. PICK new \in Tokens : /\ job'[r] = Given(r, new)
                               /\ new \in DOMAIN rows' /\ rows'[new].rid = r
                               /\ rows'[new].expires = clock + Ttl
      BY <2>5 DEF Mints
    <3>2. job'[r].hits = job[r].hits \union {new}
      BY <1>0, <3>1 DEF Given, Job
    <3>3. CASE tk = new
      BY <3>1, <3>3, <1>1 DEF FreshInv
    <3>4. CASE tk # new
      BY <2>1, <2>5, <3>2, <3>4, <1>3, TokenFields
    <3> QED
      BY <3>3, <3>4
  <2> QED
    BY <2>2, <2>3, <2>4, <2>5 DEF Prepared
<1>4. ASSUME task[r] \in {"prepare", "call", "stream"}, Young(r), ~job'[r].blocked,
             job'[r].st \in {"looking", "done"}, NEW tk \in job'[r].minted
      PROVE  \/ \E p \in job'[r].map : p[1] = tk
             \/ job'[r].st = "looking" /\ tk \in job'[r].look
  <2>1. CASE Starts(r) \/ Keeps(r) \/ Blocks(r) \/ Redacts(r) \/ Mints(r)
    BY <2>1, <1>4, JobFields, TokenFields DEF Keeps, Blocks, Redacts, AtPart
  <2>2. CASE Refuses(r)
    BY <2>2, <1>4, JobFields
  <2>3. CASE Walks(r)
    <3>1. tk \in job[r].minted /\ job[r].minted \subseteq Tokens /\ ~job[r].blocked
      BY <2>3, <1>0, <1>4, JobFields DEF Job
    <3> QED
      BY <2>3, <3>1, JobFields
  <2>4. CASE Ends(r)
    <3>1. /\ tk \in job[r].minted /\ ~job[r].blocked /\ job'[r].map = job[r].map
          /\ job[r].st = "looking" /\ job[r].look = {}
      BY <2>4, <1>4, JobFields DEF Ends
    <3> QED
      BY <3>1, <1>4 DEF FreshInv
  <2>5. CASE Looks(r)
    <3>1. /\ tk \in job[r].minted /\ ~job[r].blocked
          /\ job[r].st = "looking" /\ job'[r].st = "looking"
      BY <2>5, <1>4, TokenFields
    <3>2. task[r] = "prepare"
      BY <3>1, <1>4 DEF TaskInv, Sent
    <3>3. tk \in DOMAIN rows /\ rows[tk].expires > clock
      BY <1>0, <1>1, <1>4, <3>1, <3>2 DEF FreshInv, Young
    <3>4. PICK x \in job[r].look :
             \/ x \in DOMAIN rows /\ job'[r] = Found(r, x)
             \/ /\ x \in DOMAIN rows => rows[x].expires <= clock
                /\ job'[r] = Missed(r, x)
      BY <2>5 DEF Looks
    <3>5. (\E p \in job[r].map : p[1] = tk) \/ tk \in job[r].look
      BY <1>4, <3>1 DEF FreshInv
    <3>6. CASE x # tk
      <4>1. job[r].map \subseteq job'[r].map /\ job'[r].look = job[r].look \ {x}
        BY <1>0, <3>4 DEF Found, Missed, Job
      <4> QED
        BY <3>1, <3>5, <3>6, <4>1
    <3>7. CASE x = tk
      <4>1. job'[r] = Found(r, tk)
        BY <1>1, <3>3, <3>4, <3>7
      <4>2. <<tk, rows[tk].value>> \in job'[r].map
        BY <1>0, <4>1 DEF Found, Job
      <4> QED
        BY <4>2
    <3> QED
      BY <3>6, <3>7
  <2> QED
    BY <2>1, <2>2, <2>3, <2>4, <2>5 DEF Prepared
<1> QED
  BY <1>0, <1>2, <1>3, <1>4 DEF FreshInv

\* A step of the thread keeps the invariant of its request.
LEMMA PrepareKeeps ==
    ASSUME TypeOK, RowsAreBorn, NEW r \in Requests, ReqInv(r), Prepare(r)
    PROVE  ReqInv(r)'
<1>1. Prepared(r)
  BY PrepareDoes DEF ReqInv, Prepared
<1> QED
  BY <1>1, PrepareWalk, PrepareReady, PrepareText, PrepareTokens, PrepareMap, PrepareGotTask,
     PrepareFresh DEF ReqInv

--------------------------------------------------------------------------------
(* The invariant is kept by the coroutine.                                     *)

\* The coroutine leaves the job as it is, or submits or drops it, or forgets it.
SameJob(r) == job'[r] = job[r]
Requeued(r) == /\ job[r].st \in {"none", "queued"}
               /\ \E s \in {"queued", "dropped"} : job'[r] = [job[r] EXCEPT !.st = s]
Forgotten(r) == job'[r] = NoJob

\* That is all that becomes of it, and a job at work is left alone.
LEMMA HandlingJob ==
    ASSUME TypeOK, NEW r \in Requests, TaskInv(r), Handling(r)
    PROVE  /\ SameJob(r) \/ Requeued(r) \/ Forgotten(r)
           /\ Running(r) => SameJob(r)
<1>0. job \in [Requests -> Job] /\ job[r] \in Job
  BY DEF TypeOK
<1>1. CASE Arrive(r)
  <2>1. job'[r] = [job[r] EXCEPT !.st = "queued"] /\ job[r] = NoJob
    BY <1>0, <1>1 DEF Arrive, TaskInv
  <2>2. job[r].st = "none"
    BY <2>1 DEF NoJob
  <2> QED
    BY <2>1, <2>2 DEF Requeued, Running
<1>2. CASE Cancel(r)
  <2>1. job'[r] = [job[r] EXCEPT !.st = IF task[r] = "drain" /\ job[r].st = "queued"
                                        THEN "dropped" ELSE job[r].st]
    BY <1>0, <1>2 DEF Cancel
  <2>2. CASE task[r] = "drain" /\ job[r].st = "queued"
    BY <2>1, <2>2 DEF Requeued, Running
  <2>3. CASE ~(task[r] = "drain" /\ job[r].st = "queued")
    <3>1. job'[r] = [job[r] EXCEPT !.st = job[r].st]
      BY <2>1, <2>3
    <3> QED
      BY <1>0, <3>1 DEF SameJob, Job
  <2> QED
    BY <2>2, <2>3
<1>3. CASE Cleanup(r) \/ CloseFails(r)
  <2>1. job'[r] = IF Running(r) THEN job[r] ELSE NoJob
    BY <1>0, <1>3 DEF Cleanup, CloseFails, Leave
  <2> QED
    BY <2>1 DEF SameJob, Forgotten
<1>4. CASE Refuse(r) \/ Send(r) \/ CallFails(r) \/ BadAnswer(r) \/ WholeAnswer(r)
           \/ StreamOpens(r) \/ StreamEnds(r) \/ CloseResponse(r) \/ Drained(r)
           \/ StreamDelta(r)
  BY <1>4 DEF Refuse, Send, CallFails, BadAnswer, WholeAnswer, StreamOpens, StreamEnds,
              CloseResponse, Drained, StreamDelta, SameJob
<1> QED
  BY <1>1, <1>2, <1>3, <1>4 DEF Handling, Handle

\* What is known of the job stays true of it.
LEMMA HandlingKeepsJob ==
    ASSUME TypeOK, NEW r \in Requests, ReqInv(r), BornGrows, payload' = payload,
           SameJob(r) \/ Requeued(r) \/ Forgotten(r)
    PROVE  /\ WalkInv(r)' /\ ReadyInv(r)' /\ TokensInv(r)' /\ MapInv(r)'
           /\ job'[r].out \intersect Values \subseteq UnwalkedValues(r)
<1>0. job[r] \in Job /\ Quoted(r)' = Quoted(r)
  BY PartTyped, SamePayload
<1>1. CASE SameJob(r)
  <2>1. WalkInv(r)'
    <3>1. PartOf(r)' = PartOf(r)
      BY <1>1 DEF PartOf, SameJob
    <3> QED
      BY <1>1, <3>1, CompleteStays, NamesStay DEF ReqInv, WalkInv, SameJob
  <2>2. ReadyInv(r)'
    BY <1>1, CompleteStays DEF ReqInv, ReadyInv, SameJob
  <2>3. TokensInv(r)'
    BY <1>0, <1>1, NamesStay DEF ReqInv, TokensInv, SameJob
  <2>4. MapInv(r)'
    BY <1>0, <1>1 DEF ReqInv, MapInv, BornGrows, SameJob
  <2> QED
    BY <1>1, <2>1, <2>2, <2>3, <2>4 DEF ReqInv, TextInv, SameJob
<1>2. CASE Requeued(r)
  <2>1. PICK s \in {"queued", "dropped"} : job'[r] = [job[r] EXCEPT !.st = s]
    BY <1>2 DEF Requeued
  <2>2. /\ job'[r].st \in {"queued", "dropped"} /\ job'[r].hits = job[r].hits
        /\ job'[r].minted = job[r].minted /\ job'[r].out = job[r].out
        /\ job'[r].look = job[r].look /\ job'[r].map = job[r].map
    BY <1>0, <2>1 DEF Job
  <2>3. WalkInv(r)' /\ ReadyInv(r)'
    BY <2>2 DEF WalkInv, ReadyInv
  <2>4. TokensInv(r)'
    BY <1>0, <2>2, NamesStay DEF ReqInv, TokensInv
  <2>5. MapInv(r)'
    BY <1>0, <2>2 DEF ReqInv, MapInv, BornGrows
  <2> QED
    BY <2>2, <2>3, <2>4, <2>5 DEF ReqInv, TextInv
<1>3. CASE Forgotten(r)
  <2>1. /\ job'[r].st = "none" /\ job'[r].hits = {} /\ job'[r].minted = {}
        /\ job'[r].out = {} /\ job'[r].look = {} /\ job'[r].map = {}
    BY <1>3 DEF Forgotten, NoJob
  <2> QED
    BY <2>1 DEF WalkInv, ReadyInv, TokensInv, MapInv
<1> QED
  BY <1>1, <1>2, <1>3

\* What the client reads was looked up, and what the upstream gets is the text of an
\* ended job.
LEMMA HandlingKeepsTask ==
    ASSUME TypeOK, NEW r \in Requests, ReqInv(r), Handling(r)
    PROVE  /\ TaskInv(r)' /\ GotInv(r)'
           /\ seen'[r] \in {seen[r], {}, job'[r].out}
<1>0. /\ TasksTyped /\ job[r] \in Job /\ TaskInv(r) /\ GotInv(r)
      /\ Tokens \intersect Values = {}
  BY PartTyped, ProxyAssumption DEF TypeOK, TasksTyped, ReqInv
<1> USE DEF GoTo, Answer, TasksTyped
<1>1. CASE Arrive(r)
  <2>1. /\ task'[r] = "prepare" /\ got'[r] = {} /\ verdict'[r] = "none"
        /\ seen'[r] = seen[r]
    BY <1>0, <1>1 DEF Arrive, TaskInv
  <2> QED
    BY <2>1 DEF TaskInv, GotInv, Sent
<1>2. CASE Cancel(r)
  <2>1. /\ task[r] \in {"prepare", "drain", "call", "stream"}
        /\ task'[r] = AfterCancel[task[r]]
        /\ verdict'[r] = IF verdict[r] = "none" THEN "cancelled" ELSE verdict[r]
        /\ got'[r] = got[r] /\ seen'[r] = seen[r]
    BY <1>0, <1>2 DEF Cancel, AfterCancel
  <2>2. /\ task[r] = "prepare" => task'[r] = "drain"
        /\ task[r] \in {"drain", "call"} => task'[r] = "cleanup"
        /\ task[r] = "stream" => task'[r] = "closing"
    BY <2>1 DEF AfterCancel
  <2>3. verdict'[r] # "answered"
    BY <1>0, <2>1 DEF TaskInv
  <2>4. job[r].st = "done" => job'[r] = job[r]
    <3>1. job[r].st = "done" => job'[r] = [job[r] EXCEPT !.st = job[r].st]
      BY <1>0, <1>2 DEF Cancel
    <3> QED
      BY <1>0, <3>1 DEF Job
  <2>5. GotInv(r)'
    BY <1>0, <2>1, <2>4, HandlingKeepsJob DEF GotInv
  <2>6. TaskInv(r)'
    BY <1>0, <2>1, <2>2, <2>3, <2>4 DEF TaskInv, Sent
  <2> QED
    BY <2>1, <2>5, <2>6
<1>3. CASE Cleanup(r) \/ CloseFails(r)
  <2>1. /\ task'[r] \in {"gone", "done"} /\ got'[r] = {} /\ seen'[r] = {}
        /\ verdict'[r] = "none"
    BY <1>0, <1>3 DEF Cleanup, CloseFails, Leave
  <2> QED
    BY <2>1 DEF TaskInv, GotInv, Sent
<1>4. CASE Refuse(r) \/ Drained(r)
  <2>1. /\ task'[r] = "cleanup" /\ got'[r] = got[r] /\ seen'[r] = seen[r]
        /\ job'[r] = job[r] /\ verdict'[r] # "answered"
    BY <1>0, <1>4 DEF Refuse, Drained, TaskInv
  <2> QED
    BY <1>0, <2>1 DEF TaskInv, GotInv, Sent
<1>5. CASE Send(r)
  <2>1. /\ task'[r] = "call" /\ got'[r] = got[r] /\ seen'[r] = job[r].out
        /\ job'[r] = job[r] /\ verdict'[r] # "answered"
        /\ job[r].st = "done" /\ ~job[r].blocked
    BY <1>0, <1>5 DEF Send, TaskInv
  <2> QED
    BY <1>0, <2>1 DEF TaskInv, GotInv, Sent
<1>6. CASE CallFails(r) \/ BadAnswer(r) \/ StreamOpens(r) \/ StreamEnds(r) \/ CloseResponse(r)
  <2>1. /\ task[r] \in {"call", "stream", "closing"}
        /\ task'[r] \in {"stream", "closing", "cleanup"}
        /\ verdict'[r] = "answered" => task'[r] \in {"closing", "cleanup"}
        /\ got'[r] = got[r] /\ seen'[r] = seen[r] /\ job'[r] = job[r]
    BY <1>0, <1>6 DEF CallFails, BadAnswer, StreamOpens, StreamEnds, CloseResponse, TaskInv
  <2> QED
    BY <1>0, <2>1 DEF TaskInv, GotInv, Sent
<1>7. CASE WholeAnswer(r) \/ StreamDelta(r)
  <2>1. /\ task[r] \in {"call", "stream"} /\ seen'[r] = seen[r] /\ job'[r] = job[r]
        /\ \/ task'[r] = "cleanup"
           \/ task'[r] = "stream" /\ verdict'[r] = verdict[r]
    BY <1>0, <1>7 DEF WholeAnswer, StreamDelta
  <2>2. PICK reply \in SUBSET Tokens : got'[r] = Restored(r, reply)
    <3>1. PICK reply \in SUBSET Tokens : got' = [got EXCEPT ![r] = Restored(r, reply)]
      BY <1>7, ProxyAssumption DEF WholeAnswer, StreamDelta
    <3> QED
      BY <1>0, <3>1
  <2>3. Restored(r, reply) \subseteq {p[2] : p \in job[r].map} \union Tokens
    BY <1>0, RestoredTyped
  <2>4. job[r].st = "done" /\ ~job[r].blocked /\ seen[r] = job[r].out
    BY <1>0, <2>1 DEF TaskInv, Sent
  <2>5. GotInv(r)'
    BY <1>0, <2>1, <2>2, <2>3, <2>4 DEF GotInv
  <2> QED
    BY <1>0, <2>1, <2>4, <2>5 DEF TaskInv, Sent
<1> QED
  BY <1>1, <1>2, <1>3, <1>4, <1>5, <1>6, <1>7 DEF Handling, Handle

\* The coroutine only ever deletes the rows of its request when it is over.
LEMMA HandlingKeepsFresh ==
    ASSUME TypeOK, NEW r \in Requests, TaskInv(r), FreshInv(r), Handling(r)
    PROVE  FreshInv(r)'
<1>0. TasksTyped /\ job[r] \in Job /\ clock \in Nat
  BY DEF TypeOK, TasksTyped
<1> USE DEF GoTo, Answer, TasksTyped, TaskStep
<1>1. CASE Arrive(r)
  <2>1. /\ arrived'[r] = clock /\ clock' = clock
        /\ job'[r] = [job[r] EXCEPT !.st = "queued"]
    BY <1>0, <1>1 DEF Arrive
  <2>2. job'[r].st = "queued"
    BY <1>0, <2>1 DEF Job
  <2> QED
    BY <1>0, <2>1, <2>2 DEF FreshInv
<1>2. CASE Cleanup(r) \/ CloseFails(r)
  <2>1. /\ arrived'[r] = 0 /\ clock' = clock /\ task'[r] \in {"gone", "done"}
    BY <1>0, <1>2 DEF Cleanup, CloseFails, Leave
  <2> QED
    BY <1>0, <2>1 DEF FreshInv
<1>3. CASE Cancel(r)
  <2>1. /\ task'[r] \in {"drain", "cleanup", "closing"}
        /\ clock' = clock /\ arrived' = arrived
    BY <1>0, <1>3 DEF Cancel, AfterCancel
  <2> QED
    BY <2>1 DEF FreshInv
<1>4. CASE Refuse(r) \/ Send(r) \/ CallFails(r) \/ BadAnswer(r) \/ WholeAnswer(r)
           \/ StreamOpens(r) \/ StreamEnds(r) \/ CloseResponse(r) \/ Drained(r)
           \/ StreamDelta(r)
  <2>1. /\ task'[r] \in {"call", "stream", "closing", "cleanup"}
        /\ task'[r] \in {"call", "stream"} => task[r] \in {"prepare", "call", "stream"}
        /\ clock' = clock /\ arrived' = arrived /\ job'[r] = job[r]
    BY <1>0, <1>4 DEF Refuse, Send, CallFails, BadAnswer, WholeAnswer, StreamOpens, StreamEnds,
                      CloseResponse, Drained, StreamDelta
  <2> QED
    BY <2>1 DEF FreshInv, Young
<1> QED
  BY <1>1, <1>2, <1>3, <1>4 DEF Handling, Handle

\* A step of the coroutine keeps the invariant of its request.
LEMMA HandlingKeeps ==
    ASSUME TypeOK, RowsAreBorn, NEW r \in Requests, ReqInv(r), Handling(r)
    PROVE  ReqInv(r)'
<1>1. BornGrows /\ payload' = payload
  BY HandlingVault, HandlingTyped
<1>2. /\ WalkInv(r)' /\ ReadyInv(r)' /\ TokensInv(r)' /\ MapInv(r)'
      /\ job'[r].out \intersect Values \subseteq UnwalkedValues(r)
  BY <1>1, HandlingJob, HandlingKeepsJob DEF ReqInv
<1>3. TaskInv(r)' /\ GotInv(r)' /\ FreshInv(r)'
  BY HandlingKeepsTask, HandlingKeepsFresh DEF ReqInv
<1>4. TextInv(r)'
  BY <1>1, <1>2, HandlingKeepsTask, SamePayload DEF ReqInv, TextInv
<1> QED
  BY <1>2, <1>3, <1>4 DEF ReqInv

--------------------------------------------------------------------------------
(* The theorems.                                                               *)

\* The invariant holds at first ...
LEMMA InitInv == Init => IInv
<1> SUFFICES ASSUME Init PROVE IInv
  OBVIOUS
<1>1. TypeOK
  BY InitTyped
<1>2. RowsAreBorn
  BY DEF Init, EmptyTable, RowsAreBorn
<1>3. ASSUME NEW r \in Requests
      PROVE  ReqInv(r)
  <2>1. /\ job[r] = NoJob /\ task[r] = "new" /\ verdict[r] = "none"
        /\ seen[r] = {} /\ got[r] = {} /\ arrived[r] = 0 /\ clock = 0
    BY DEF Init
  <2>2. /\ job[r].st = "none" /\ job[r].hits = {} /\ job[r].minted = {}
        /\ job[r].out = {} /\ job[r].look = {} /\ job[r].map = {}
    BY <2>1 DEF NoJob
  <2>3. WalkInv(r) /\ ReadyInv(r) /\ TextInv(r) /\ TokensInv(r) /\ MapInv(r) /\ GotInv(r)
    BY <2>1, <2>2 DEF WalkInv, ReadyInv, TextInv, TokensInv, MapInv, GotInv
  <2>4. TaskInv(r) /\ FreshInv(r)
    BY <2>1, <2>2 DEF TaskInv, FreshInv, Sent
  <2> QED
    BY <2>3, <2>4 DEF ReqInv
<1> QED
  BY <1>1, <1>2, <1>3 DEF IInv

\* ... and every step keeps it: the thread and the coroutine of a request keep what is
\* known of it, and no step of another disturbs that.
LEMMA StepInv == IInv /\ [Next]_vars => IInv'
<1> SUFFICES ASSUME IInv, [Next]_vars PROVE IInv'
  OBVIOUS
<1>0. /\ TypeOK /\ RowsAreBorn /\ \A r \in Requests : ReqInv(r)
      /\ Requests \subseteq RequestIds /\ clock \in Nat
  BY ProxyAssumption DEF IInv, TypeOK
<1>1. TypeOK' /\ RowsAreBorn' /\ BornGrows
  BY <1>0, StepTyped DEF ReqInv
<1>2. ASSUME NEW r \in Requests, Prepare(r), NEW q \in Requests
      PROVE  ReqInv(q)'
  <2>1. CASE q = r
    BY <1>0, <1>2, <2>1, PrepareKeeps
  <2>2. CASE q # r
    <3>1. JobStep(r) /\ VaultKept /\ Others(r)
      BY <1>0, <1>2, PrepareDoes DEF ReqInv
    <3>2. RowsStay(q) /\ job'[q] = job[q]
      BY <1>0, <2>2, <3>1 DEF VaultKept, Others
    <3> QED
      BY <1>0, <1>1, <3>1, <3>2, Frame DEF JobStep
  <2> QED
    BY <2>1, <2>2
<1>3. ASSUME NEW r \in Requests, Handling(r), NEW q \in Requests
      PROVE  ReqInv(q)'
  <2>1. CASE q = r
    BY <1>0, <1>3, <2>1, HandlingKeeps
  <2>2. CASE q # r
    <3>1. Apart(r) /\ UNCHANGED <<clock, upstream, payload, tools>>
      BY <1>0, <1>3, HandlingTyped
    <3>2. RowsStay(q)
      BY <1>0, <1>3, <2>2, HandlingVault
    <3> QED
      BY <1>0, <1>1, <2>2, <3>1, <3>2, Frame DEF Apart
  <2> QED
    BY <2>1, <2>2
<1>4. ASSUME NEW i \in ToolIds, SanitizeTool(i), NEW q \in Requests
      PROVE  ReqInv(q)'
  <2>1. RowsStay(q)
    BY <1>0, <1>4, SanitizeDoes DEF VaultKept
  <2> QED
    BY <1>0, <1>1, <1>4, <2>1, Frame DEF SanitizeTool
<1>5. ASSUME Tick, NEW q \in Requests
      PROVE  ReqInv(q)'
  <2>1. RowsStay(q) /\ clock' \in Nat /\ clock' >= clock
    BY <1>0, <1>5 DEF Tick, RowsStay
  <2> QED
    BY <1>0, <1>1, <1>5, <2>1, Frame DEF Tick
<1>6. ASSUME UNCHANGED vars, NEW q \in Requests
      PROVE  ReqInv(q)'
  <2>1. RowsStay(q)
    BY <1>6 DEF vars, RowsStay
  <2> QED
    BY <1>0, <1>1, <1>6, <2>1, Frame DEF vars
<1>7. \A q \in Requests : ReqInv(q)'
  BY <1>2, <1>3, <1>4, <1>5, <1>6 DEF Next, Handling
<1> QED
  BY <1>1, <1>7 DEF IInv

\* In every reachable state of the gateway the vault holds only what was generated,
\* and each request stands where its walk, its lookup and its coroutine left it.
THEOREM Invariant == Spec => []IInv
<1>1. Init => IInv
  BY InitInv
<1>2. IInv /\ [Next]_vars => IInv'
  BY StepInv
<1> QED
  BY <1>1, <1>2, PTL DEF Spec

\* Every variable keeps its type.
THEOREM TypeCorrect == Spec => []TypeOK
<1>1. IInv => TypeOK
  BY DEF IInv
<1> QED
  BY <1>1, Invariant, PTL

\* No sensitive value of a part the walker reads ever reaches the upstream, whatever
\* the vault's cap refuses, expires or a cancellation interrupts.
THEOREM OnlyUnwalkedLeavesHolds == Spec => []OnlyUnwalkedLeaves
<1>1. IInv => OnlyUnwalkedLeaves
  BY DEF IInv, ReqInv, TextInv, UnwalkedValues, OnlyUnwalkedLeaves
<1> QED
  BY <1>1, Invariant, PTL

\* A request is sent only if every part the walker inspects is allowed or redacted, and
\* then every span of a redacted part stands as a token of its own in what was sent.
THEOREM SentIsCompleteHolds == Spec => []SentIsComplete
<1>1. ASSUME IInv, NEW r \in Requests, Sent(r), NEW p \in Parts(r),
             p.kind \notin PassedBy
      PROVE  /\ p.kind \in {"clean", "redact"}
             /\ p.kind = "redact" =>
                   \A v \in SpanSet(p) : \E tk \in seen[r] \intersect DOMAIN born :
                       born[tk] = [value |-> v, rid |-> r]
  <2>1. ReqInv(r)
    BY <1>1 DEF IInv
  <2>2. job[r].st = "done" /\ ~job[r].blocked /\ seen[r] = job[r].out
    BY <1>1, <2>1 DEF ReqInv, TaskInv
  <2>3. PICK i \in DOMAIN payload[r] : p = payload[r][i]
    BY <1>1 DEF Parts
  <2>4. Complete(r, p, seen[r])
    BY <2>1, <2>2, <2>3 DEF ReqInv, ReadyInv
  <2> QED
    BY <1>1, <2>4 DEF Complete, Names
<1>2. IInv => SentIsComplete
  BY <1>1 DEF SentIsComplete
<1> QED
  BY <1>2, Invariant, PTL

\* A request restores nothing but the values of its own tokens and of the tokens its
\* client wrote.
THEOREM RestoresOwnHolds == Spec => []RestoresOwn
<1>1. IInv => RestoresOwn
  BY DEF IInv, ReqInv, MapInv, GotInv, RestoresOwn
<1> QED
  BY <1>1, Invariant, PTL

\* Whatever was minted for a request can be restored in its answer, however other
\* requests and tool calls meet it, until the time to live has passed.
THEOREM OwnTokensRestorableHolds == Spec => []OwnTokensRestorable
<1>1. ASSUME IInv, NEW r \in Requests, task[r] \in {"call", "stream"},
             clock < arrived[r] + Ttl, NEW tk \in job[r].minted
      PROVE  \E p \in job[r].map : p[1] = tk
  <2>1. ReqInv(r) /\ Sent(r) /\ Young(r)
    BY <1>1 DEF IInv, Sent, Young
  <2>2. job[r].st = "done" /\ ~job[r].blocked
    BY <2>1 DEF ReqInv, TaskInv
  <2> QED
    BY <1>1, <2>1, <2>2 DEF ReqInv, FreshInv
<1>2. IInv => OwnTokensRestorable
  BY <1>1 DEF OwnTokensRestorable
<1> QED
  BY <1>2, Invariant, PTL

\* A step takes no unexpired row of a request away, unless it is the request's own
\* cleanup.
LEMMA StepKeepsOut ==
    ASSUME IInv, [Next]_vars, NEW r \in Requests, NEW tk \in DOMAIN rows,
           rows[tk].rid = r, tk \notin DOMAIN rows'
    PROVE  rows[tk].expires <= clock \/ (task[r] = "cleanup" /\ task'[r] = "done")
<1>0. /\ TypeOK /\ RowsAreBorn /\ \A q \in Requests : ReqInv(q)
      /\ Requests \subseteq RequestIds
      /\ clock \in Nat /\ rows[tk].expires \in Int
  BY ProxyAssumption DEF IInv, TypeOK, IsTable, Row
<1>1. RowsStay(r) => rows[tk].expires <= clock
  BY <1>0 DEF RowsStay
<1>2. ASSUME NEW q \in Requests, Prepare(q)
      PROVE  RowsStay(r)
  BY <1>0, <1>2, PrepareDoes DEF VaultKept, ReqInv
<1>3. ASSUME NEW q \in Requests, Handling(q)
      PROVE  RowsStay(r) \/ (task[r] = "cleanup" /\ task'[r] = "done")
  <2>1. CASE q # r
    <3>1. \A x \in Requests : x # q => RowsStay(x)
      BY <1>0, <1>3, HandlingVault
    <3> QED
      BY <2>1, <3>1
  <2>2. CASE q = r /\ Cleanup(q)
    BY <1>0, <2>2 DEF Cleanup, Leave, GoTo, TypeOK
  <2>3. CASE q = r /\ ~Cleanup(q)
    BY <1>0, <1>3, <2>3, HandlingVault DEF vaultVars
  <2> QED
    BY <2>1, <2>2, <2>3
<1>4. ASSUME NEW i \in ToolIds, SanitizeTool(i)
      PROVE  RowsStay(r)
  BY <1>0, <1>4, SanitizeDoes DEF VaultKept
<1>5. ~Tick /\ ~UNCHANGED vars
  BY DEF Tick, vars
<1>6. RowsStay(r) \/ (task[r] = "cleanup" /\ task'[r] = "done")
  BY <1>2, <1>3, <1>4, <1>5 DEF Next, Handling
<1> QED
  BY <1>1, <1>6

\* While a request is served nobody else takes an unexpired row of it away.
THEOREM OthersKeepOutHolds == Spec => OthersKeepOut
<1> DEFINE A == \A r \in Requests, tk \in DOMAIN rows :
                    (rows[tk].rid = r /\ tk \notin DOMAIN rows') =>
                        \/ rows[tk].expires <= clock
                        \/ task[r] = "cleanup" /\ task'[r] = "done"
<1>1. IInv /\ [Next]_vars => A
  BY StepKeepsOut
<1>2. IInv /\ [Next]_vars => [A]_vars
  BY <1>1
<1> HIDE DEF A
<1>3. Spec => [][A]_vars
  BY <1>2, Invariant, PTL DEF Spec
<1> QED
  BY <1>3 DEF OthersKeepOut, A

\* Only its own thread and its own tool call give an id new rows.
NoNewRows(q) ==
    \A tk \in DOMAIN rows' : rows'[tk].rid = q => tk \in DOMAIN rows /\ rows[tk].rid = q

\* A mint gives rows to its own id only.
LEMMA MintsForItself ==
    ASSUME TypeOK, NEW r, NEW v, NEW q, q # r,
           MintFails(r, v) \/ \E tk \in Tokens : MintOk(r, v, tk)
    PROVE  NoNewRows(q)
<1> DEFINE kept == CleanupExpired(rows, clock)
           e == ExpiryOf(clock, Ttl)
<1>1. /\ IsTable(kept)
      /\ DOMAIN kept = {x \in DOMAIN rows : rows[x].expires > clock}
      /\ \A x \in DOMAIN kept : kept[x] = rows[x]
  BY CleanupKeeps DEF TypeOK
<1>2. CASE MintFails(r, v)
  <2>1. rows' = kept
    BY <1>2 DEF MintFails
  <2> HIDE DEF kept
  <2> QED
    BY <1>1, <2>1 DEF NoNewRows
<1>3. ASSUME NEW tk \in Tokens, MintOk(r, v, tk)
      PROVE  NoNewRows(q)
  <2>1. \/ tk \in Holders(kept, r, v) /\ rows' = Refresh(kept, tk, e)
        \/ tk \notin DOMAIN kept /\ rows' = Insert(kept, tk, r, v, e)
    BY <1>3 DEF MintOk, Insertable
  <2> HIDE DEF kept, e
  <2>2. CASE tk \in Holders(kept, r, v) /\ rows' = Refresh(kept, tk, e)
    <3>1. /\ tk \in DOMAIN kept /\ kept[tk].rid = r
          /\ DOMAIN rows' = DOMAIN kept
          /\ \A x \in DOMAIN kept \ {tk} : rows'[x] = kept[x]
          /\ rows'[tk].rid = r
      BY <1>1, <2>2 DEF Holders, Refresh, IsTable, Row
    <3> QED
      BY <1>1, <3>1 DEF NoNewRows
  <2>3. CASE tk \notin DOMAIN kept /\ rows' = Insert(kept, tk, r, v, e)
    <3>1. /\ DOMAIN rows' = DOMAIN kept \union {tk}
          /\ \A x \in DOMAIN kept : rows'[x] = kept[x]
          /\ rows'[tk].rid = r
      BY <1>1, <2>3 DEF Insert, IsTable, Row
    <3> QED
      BY <1>1, <3>1 DEF NoNewRows
  <2> QED
    BY <2>1, <2>2, <2>3
<1> QED
  BY <1>2, <1>3

\* A step other than the request's own thread gives it no rows.
LEMMA OthersGiveNoRows ==
    ASSUME IInv, [Next]_vars, NEW q \in Requests, ~Prepare(q)
    PROVE  NoNewRows(q)
<1>0. TypeOK /\ q \notin ToolIds
  BY ProxyAssumption DEF IInv
<1>1. ASSUME NEW r \in Requests, Prepare(r)
      PROVE  NoNewRows(q)
  <2>1. r # q
    BY <1>1
  <2>2. CASE MintSpan(r) \/ MintRefused(r)
    <3>1. \E v : MintFails(r, v) \/ \E tk \in Tokens : MintOk(r, v, tk)
      BY <2>2 DEF MintSpan, MintRefused
    <3> QED
      BY <1>0, <2>1, <3>1, MintsForItself
  <2>3. CASE LookUp(r)
    <3>1. PICK tk : rows' = rows \/ rows' = DropToken(rows, tk)
      BY <2>3 DEF LookUp
    <3>2. IsTable(rows)
      BY <1>0 DEF TypeOK
    <3>3. DOMAIN rows' \subseteq DOMAIN rows /\ \A x \in DOMAIN rows' : rows'[x] = rows[x]
      BY <3>1, <3>2 DEF DropToken, Restrict
    <3> QED
      BY <3>3 DEF NoNewRows
  <2>4. CASE Start(r) \/ KeepPart(r) \/ BlockPart(r) \/ RefusePart(r) \/ RedactPart(r)
             \/ EndWalk(r) \/ Finish(r)
    <3>1. rows' = rows
      BY <2>4 DEF Start, KeepPart, BlockPart, RefusePart, RedactPart, EndWalk, Finish, vaultVars
    <3> QED
      BY <3>1 DEF NoNewRows
  <2> QED
    BY <1>1, <2>2, <2>3, <2>4 DEF Prepare
<1>2. ASSUME NEW r \in Requests, Handling(r)
      PROVE  NoNewRows(q)
  <2>1. CASE Cleanup(r)
    <3>1. rows' = DropRequest(rows, r)
      BY <2>1 DEF Cleanup
    <3> QED
      BY <3>1 DEF NoNewRows, DropRequest, Restrict
  <2>2. CASE ~Cleanup(r)
    <3>1. rows' = rows
      BY <1>0, <1>2, <2>2, HandlingVault DEF IInv, vaultVars
    <3> QED
      BY <3>1 DEF NoNewRows
  <2> QED
    BY <2>1, <2>2
<1>3. ASSUME NEW i \in ToolIds, SanitizeTool(i)
      PROVE  NoNewRows(q)
  <2>1. \E v : MintFails(i, v) \/ \E tk \in Tokens : MintOk(i, v, tk)
    BY <1>3 DEF SanitizeTool
  <2> QED
    BY <1>0, <2>1, MintsForItself
<1>4. CASE Tick \/ UNCHANGED vars
  BY <1>4 DEF Tick, vars, NoNewRows
<1> QED
  BY <1>1, <1>2, <1>3, <1>4 DEF Next, Handling

\* A request that cleans up has no job left that could mint afterwards.
Quiet(r) == /\ task[r] # "gone"
            /\ task[r] = "drain" => cancels[r] >= 1
            /\ task[r] \in {"call", "stream", "closing", "cleanup"} => job[r].st = "done"
            /\ task[r] = "done" => job[r].st = "none" /\ RowsOf(r) = {}

\* With one cancellation at most, and a close that does not fail, the coroutine waits
\* for its job before it cleans up.
LEMMA QuietHandling ==
    ASSUME TypeOK, MaxCancels <= 1, CloseMayFail = FALSE,
           NEW r \in Requests, TaskInv(r), Quiet(r), Handling(r)
    PROVE  Quiet(r)'
<1>0. TasksTyped /\ job[r] \in Job /\ MaxCancels \in Nat
  BY ProxyAssumption DEF TypeOK, TasksTyped
<1> USE DEF GoTo, Answer, TasksTyped
<1>1. CASE Arrive(r)
  <2>1. task'[r] = "prepare"
    BY <1>0, <1>1 DEF Arrive
  <2> QED
    BY <2>1 DEF Quiet
<1>2. CASE Cancel(r)
  <2>1. /\ task[r] \in {"prepare", "drain", "call", "stream"}
        /\ task'[r] = AfterCancel[task[r]]
        /\ cancels[r] < MaxCancels /\ cancels'[r] = cancels[r] + 1 /\ cancels[r] \in Nat
        /\ job[r].st = "done" => job'[r] = [job[r] EXCEPT !.st = job[r].st]
    BY <1>0, <1>2 DEF Cancel, AfterCancel
  <2>2. task[r] # "drain"
    BY <1>0, <2>1 DEF Quiet
  <2>3. /\ task[r] = "prepare" => task'[r] = "drain"
        /\ task[r] = "call" => task'[r] = "cleanup"
        /\ task[r] = "stream" => task'[r] = "closing"
    BY <2>1 DEF AfterCancel
  <2>4. job[r].st = "done" => job'[r].st = "done"
    BY <1>0, <2>1 DEF Job
  <2> QED
    BY <2>1, <2>2, <2>3, <2>4 DEF Quiet
<1>3. CASE Cleanup(r)
  <2>1. task[r] = "cleanup" /\ job[r].st = "done"
    BY <1>3 DEF Cleanup, Quiet
  <2>2. task'[r] = "done" /\ job'[r] = NoJob
    BY <1>0, <1>3, <2>1 DEF Cleanup, Leave, Running
  <2>3. rows' = DropRequest(rows, r)
    BY <1>3 DEF Cleanup
  <2>4. RowsOf(r)' = {}
    BY <2>3 DEF RowsOf, DropRequest, Restrict
  <2> QED
    BY <2>2, <2>4 DEF Quiet, NoJob
<1>4. CASE Send(r) \/ CallFails(r) \/ BadAnswer(r) \/ WholeAnswer(r) \/ StreamOpens(r)
           \/ StreamEnds(r) \/ CloseResponse(r) \/ Drained(r) \/ StreamDelta(r) \/ Refuse(r)
  <2>1. /\ job[r].st = "done"
        /\ job'[r] = job[r] /\ task'[r] \in {"call", "stream", "closing", "cleanup"}
    BY <1>0, <1>4 DEF Refuse, Send, CallFails, BadAnswer, WholeAnswer, StreamOpens, StreamEnds,
                      CloseResponse, Drained, StreamDelta, Quiet
  <2> QED
    BY <2>1 DEF Quiet
<1>5. ~CloseFails(r)
  BY DEF CloseFails
<1> QED
  BY <1>1, <1>2, <1>3, <1>4, <1>5 DEF Handling, Handle

\* Nothing changes that once a request is over.
LEMMA QuietStep ==
    ASSUME IInv, MaxCancels <= 1, CloseMayFail = FALSE, \A r \in Requests : Quiet(r),
           [Next]_vars, NEW q \in Requests
    PROVE  Quiet(q)'
<1>0. /\ TypeOK /\ RowsAreBorn /\ \A r \in Requests : ReqInv(r) /\ Quiet(r)
  BY DEF IInv
<1>1. CASE Prepare(q)
  <2>1. JobStep(q) /\ job[q].st \in {"queued", "walking", "looking"}
    <3>1. Prepared(q)
      BY <1>0, <1>1, PrepareDoes DEF ReqInv, Prepared
    <3> QED
      BY <3>1 DEF Prepared, Starts, Keeps, Blocks, Refuses, Mints, Redacts, Walks, Looks, Ends,
                  AtPart
  <2>2. task[q] \notin {"call", "stream", "closing", "cleanup", "done", "gone"}
    BY <1>0, <2>1 DEF Quiet
  <2> QED
    BY <1>0, <2>1, <2>2 DEF JobStep, Quiet
<1>2. CASE Handling(q)
  BY <1>0, <1>2, QuietHandling DEF ReqInv
<1>3. ASSUME ~Prepare(q), task'[q] = task[q], job'[q] = job[q], cancels'[q] = cancels[q]
      PROVE  Quiet(q)'
  <2>1. NoNewRows(q)
    BY <1>3, OthersGiveNoRows
  <2>2. RowsOf(q) = {} => RowsOf(q)' = {}
    BY <2>1 DEF NoNewRows, RowsOf
  <2> QED
    BY <1>0, <1>3, <2>2 DEF Quiet
<1>4. ASSUME NEW r \in Requests, r # q, Prepare(r) \/ Handling(r), ~Prepare(q)
      PROVE  Quiet(q)'
  <2>1. CASE Prepare(r)
    <3>1. JobStep(r) /\ Others(r)
      BY <1>0, <2>1, PrepareDoes DEF ReqInv
    <3> QED
      BY <1>3, <1>4, <3>1 DEF JobStep, Others
  <2>2. CASE Handling(r)
    <3>1. Apart(r)
      BY <1>0, <2>2, HandlingTyped
    <3> QED
      BY <1>3, <1>4, <3>1 DEF Apart
  <2> QED
    BY <1>4, <2>1, <2>2
<1>5. CASE ~Prepare(q) /\ ((\E i \in ToolIds : SanitizeTool(i)) \/ Tick \/ UNCHANGED vars)
  <2>1. task' = task /\ job' = job /\ cancels' = cancels
    BY <1>5 DEF SanitizeTool, Tick, vars
  <2> QED
    BY <1>3, <1>5, <2>1
<1> QED
  BY <1>1, <1>2, <1>4, <1>5 DEF Next, Handling

\* Where a request is cancelled at most once and closing the answer does not fail, the
\* vault holds nothing of a request that is over, and its thread puts nothing back.
THEOREM NothingLeftHolds ==
    ASSUME MaxCancels <= 1, CloseMayFail = FALSE
    PROVE  Spec => []NothingLeft
<1> DEFINE Q == \A r \in Requests : Quiet(r)
<1>1. Init => Q
  BY DEF Init, Quiet
<1>2. IInv /\ Q /\ [Next]_vars => Q'
  BY QuietStep
<1>3. Q => NothingLeft
  BY DEF Quiet, NothingLeft, Finished
<1> HIDE DEF Q
<1> QED
  BY <1>1, <1>2, <1>3, Invariant, PTL DEF Spec
================================================================================
