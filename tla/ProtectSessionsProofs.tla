------------------------- MODULE ProtectSessionsProofs -------------------------
(* What ProtectSessions keeps for any threads, prompts, words and surrogates, and  *)
(* any number of calls: what is restored is what was protected, and a secret has    *)
(* one surrogate.                                                                   *)
EXTENDS ProtectSessions, FiniteSetTheorems, TLAPS

\* The stages of a protect: those before it has its vault and those after.
Making == {"key", "create", "write", "read", "remember"}
Finding == Making \union {"find"}
Rewriting == {"replace", "seeded"}
Working == Rewriting \union {"scan"}
Restoring == {"known", "restore"}

Issued == {Uuids[i] : i \in 1..issued}

\* What an attempt has to give up for: a surrogate of another word, or the word itself.
Bad(rows, w, fake) == IF fake \in DOMAIN rows THEN rows[fake].real # w ELSE fake = w

\* new stands for the word old: it is a surrogate of it.
Stands(new, old, rows) == /\ new = [old EXCEPT !.word = new.word]
                          /\ new.word \in DOMAIN rows /\ rows[new.word].real = old.word

--------------------------------------------------------------------------------
(* The invariant.                                                              *)

\* The shapes of the variables.
IsVault(v) == v = [owner |-> v.owner, key |-> v.key, rows |-> v.rows]
Shapes == /\ pc = [t \in Threads |-> pc[t]] /\ sid = [t \in Threads |-> sid[t]]
          /\ vault = [t \in Threads |-> vault[t]] /\ prompt = [t \in Threads |-> prompt[t]]
          /\ todo = [t \in Threads |-> todo[t]] /\ out = [t \in Threads |-> out[t]]
          /\ tries \in [Threads -> Nat] /\ reply = [t \in Threads |-> reply[t]]
          /\ issued \in 0..Len(Uuids)
          /\ Len(vaults) \in Nat /\ vaults = [v \in 1..Len(vaults) |-> vaults[v]]
          /\ \A v \in DOMAIN vaults : IsVault(vaults[v])
          /\ sessions \in [Ids -> 0..Len(vaults)]

\* Where a thread stands, and what it has in hand there.  A thread that makes a vault
\* makes it for a session that has none.
Standing(t) ==
    /\ pc[t] \in {"idle"} \union Finding \union Working \union Restoring
    /\ pc[t] # "idle" => sid[t] \in Ids
    /\ pc[t] \in Finding \union Working => sid[t] \in Issued
    /\ pc[t] \in Making => sessions[sid[t]] = 0
    /\ pc[t] = "remember" => vault[t] \in DOMAIN vaults
    /\ pc[t] \in Working \union {"restore"} => sessions[sid[t]] # 0 /\ vault[t] = sessions[sid[t]]
    /\ pc[t] \in Finding \union Working => prompt[t] \in Prompts
    /\ pc[t] \in Restoring => reply[t] \in answers
    /\ pc[t] = "seeded" => todo[t] # {} /\ Real(t) \in People

\* No two threads look for the vault of a session that has none, and a client knows no
\* such session.
Alone == /\ \A t, u \in Threads : t # u /\ pc[t] \in Finding /\ pc[u] \in Finding
                                  /\ sid[t] = sid[u] => sessions[sid[t]] # 0
         /\ \A a \in answers : a.id \in Issued /\ sessions[a.id] # 0

PlaceInv == (\A t \in Threads : Standing(t)) /\ Alone

\* No surrogate is its own word, and those of secrets are marked.
RowsInv == \A v \in DOMAIN vaults : \A f \in DOMAIN vaults[v].rows :
              /\ vaults[v].rows[f].real # f
              /\ vaults[v].rows[f].real \in Secrets => vaults[v].rows[f].secret

\* What has been replaced stands for what was there, the rest is as it was.
Replaced(text, p, left, rows) ==
    /\ text = [i \in DOMAIN p.text |-> text[i]]
    /\ left \subseteq Spans(p)
    /\ \A i \in DOMAIN p.text : IF i \in Spans(p) \ left THEN Stands(text[i], p.text[i], rows)
                                ELSE text[i] = p.text[i]

TextInv == /\ \A t \in Threads : pc[t] \in Rewriting =>
                 Replaced(out[t], prompt[t], todo[t], vaults[vault[t]].rows)
           /\ \A a \in answers : a.prompt \in Prompts
                 /\ Replaced(a.out, a.prompt, {}, vaults[sessions[a.id]].rows)

\* What is restored is what was protected, but for words that are surrogates by now.
RestoredInv ==
    \A r \in restores : r.of \in answers /\ (r.id = r.of.id =>
        /\ r.text = [i \in DOMAIN r.of.prompt.text |-> r.text[i]]
        /\ \A i \in DOMAIN r.of.prompt.text :
              \/ r.text[i] = r.of.prompt.text[i]
              \/ /\ i \notin Spans(r.of.prompt)
                 /\ r.of.prompt.text[i].word \in DOMAIN vaults[sessions[r.id]].rows)

\* A secret has the first surrogate that is to be had for it.
FirstOf(v, w, n) == \A m \in 0..n - 1 : Bad(vaults[v].rows, w, FakeSecret(vaults[v].key, w, m))
FirstInv ==
    /\ \A t \in Threads :
          /\ pc[t] \notin Rewriting => tries[t] = 0
          /\ pc[t] = "replace" /\ todo[t] # {} /\ Real(t) \in Secrets /\ Mine(t)
                => FirstOf(vault[t], Real(t), tries[t])
    /\ \A v \in DOMAIN vaults : \A f \in DOMAIN vaults[v].rows :
          vaults[v].rows[f].real \in Secrets =>
             \E n \in Nat : /\ f = FakeSecret(vaults[v].key, vaults[v].rows[f].real, n)
                            /\ FirstOf(v, vaults[v].rows[f].real, n)

\* Whatever is found and is no secret stands free.
FreeFound == \A p \in Prompts : \A i \in p.found : p.text[i].word \in Secrets \/ p.text[i].free

--------------------------------------------------------------------------------
(* The places of a prompt, and the table of a vault.                           *)

\* A set of places that is not empty has a last one.
LEMMA LastPlace ==
    ASSUME NEW n \in Nat, NEW S, S \subseteq 1..n, S # {}
    PROVE  Max(S) \in S
<1> DEFINE After(i) == {j \in 1..n : i < j}
           T == {After(i) : i \in S}
<1>1. IsWellFoundedOn(StrictSubsetOrdering(1..n), SUBSET (1..n))
  <2>1. IsFiniteSet(1..n)
    BY FS_Interval
  <2>2. FiniteSubsetsOf(1..n) = SUBSET (1..n)
    BY <2>1, FS_FiniteSubsetsOfFinite
  <2>3. IsWellFoundedOn(StrictSubsetOrdering(1..n), FiniteSubsetsOf(1..n))
    BY FS_StrictSubsetOrderingWellFounded
  <2> QED BY <2>2, <2>3
<1>2. T \subseteq SUBSET (1..n) /\ T # {}
  OBVIOUS
<1>3. PICK x \in T : \A y \in T : ~(<<y, x>> \in StrictSubsetOrdering(1..n))
  <2> HIDE DEF T
  <2> QED BY <1>1, <1>2, WFMin
<1>4. PICK i \in S : x = After(i)
  OBVIOUS
<1>5. ASSUME NEW j \in S, ~(i >= j) PROVE FALSE
  <2>1. i \in 1..n /\ j \in 1..n /\ i < j
    BY <1>5
  <2>2. After(j) \subseteq After(i) /\ j \in After(i) /\ j \notin After(j)
    BY <2>1
  <2>3. <<After(j), After(i)>> \in StrictSubsetOrdering(1..n)
    BY <2>2, <1>2, <1>4 DEF StrictSubsetOrdering
  <2> QED BY <2>3, <1>3, <1>4
<1> QED BY <1>5 DEF Max

\* The places to replace are places of the text.
LEMMA Places ==
    ASSUME NEW p \in Prompts
    PROVE  /\ Len(p.text) \in Nat /\ DOMAIN p.text = 1..Len(p.text)
           /\ p.text = [i \in DOMAIN p.text |-> p.text[i]]
           /\ \A i \in DOMAIN p.text : p.text[i] = [word |-> p.text[i].word, free |-> p.text[i].free]
           /\ p.found \subseteq Spans(p) /\ Spans(p) \subseteq DOMAIN p.text
<1> DEFINE Word == [word : STRING, free : BOOLEAN]
<1>1. p.text \in Seq(Word) /\ p.found \subseteq DOMAIN p.text
  BY ProtectAssumption
<1>2. Len(p.text) \in Nat /\ DOMAIN p.text = 1..Len(p.text) /\ p.text \in [1..Len(p.text) -> Word]
  <2> DEFINE text == p.text
  <2>1. text \in Seq(Word)
    BY <1>1
  <2> HIDE DEF Word, text
  <2>2. Len(text) \in Nat /\ DOMAIN text = 1..Len(text) /\ text \in [1..Len(text) -> Word]
    BY <2>1
  <2> QED BY <2>2 DEF text
<1>3. p.text = [i \in DOMAIN p.text |-> p.text[i]]
  BY <1>2
<1>4. \A i \in DOMAIN p.text : p.text[i] = [word |-> p.text[i].word, free |-> p.text[i].free]
  <2> TAKE i \in DOMAIN p.text
  <2>1. p.text[i] \in Word
    BY <1>2
  <2> QED BY <2>1
<1> QED BY <1>1, <1>2, <1>3, <1>4 DEF Spans

\* The place that a thread is at is one it has left to replace.
LEMMA AtPlace ==
    ASSUME NEW t \in Threads, prompt[t] \in Prompts, todo[t] \subseteq Spans(prompt[t]),
           todo[t] # {}
    PROVE  Place(t) \in todo[t] /\ Place(t) \in DOMAIN prompt[t].text
<1>1. todo[t] \subseteq 1..Len(prompt[t].text) /\ Len(prompt[t].text) \in Nat
      /\ DOMAIN prompt[t].text = 1..Len(prompt[t].text)
  BY Places
<1>2. Max(todo[t]) \in todo[t]
  BY <1>1, LastPlace
<1> QED BY <1>1, <1>2 DEF Place

\* A row more in the table of vault v.
Added(v, fake, w) ==
    /\ Len(vaults') = Len(vaults) /\ DOMAIN vaults' = DOMAIN vaults
    /\ vaults' = [u \in 1..Len(vaults') |-> vaults'[u]]
    /\ \A u \in DOMAIN vaults : u # v => vaults'[u] = vaults[u]
    /\ vaults'[v] = [owner |-> vaults[v].owner, key |-> vaults[v].key, rows |-> vaults'[v].rows]
    /\ DOMAIN vaults'[v].rows = DOMAIN vaults[v].rows \union {fake}
    /\ vaults'[v].rows[fake].real = w /\ vaults'[v].rows[fake].secret = (w \in Secrets)
    /\ \A f \in DOMAIN vaults[v].rows : f # fake => vaults'[v].rows[f] = vaults[v].rows[f]

\* Such a row comes in with an insertion.
LEMMA InsertAdds ==
    ASSUME Shapes, NEW t \in Threads, vault[t] \in DOMAIN vaults, NEW fake, Insert(t, fake)
    PROVE  Added(vault[t], fake, Real(t))
<1> DEFINE v == vault[t]
           b == Real(t) \in Secrets
           rows == [f \in DOMAIN vaults[v].rows \union {fake} |->
                       IF f = fake THEN [real |-> Real(t), secret |-> b] ELSE vaults[v].rows[f]]
           c == [vaults[v] EXCEPT !.rows = rows]
<1>1. vaults' = [vaults EXCEPT ![v] = c]
  BY DEF Insert
<1>2. DOMAIN rows = DOMAIN vaults[v].rows \union {fake} /\ rows[fake].real = Real(t)
      /\ rows[fake].secret = b /\ \A f \in DOMAIN vaults[v].rows : f # fake => rows[f] = vaults[v].rows[f]
  <2> HIDE DEF b
  <2> QED OBVIOUS
<1>3. c = [owner |-> vaults[v].owner, key |-> vaults[v].key, rows |-> rows]
  <2>1. vaults[v] = [owner |-> vaults[v].owner, key |-> vaults[v].key, rows |-> vaults[v].rows]
    BY DEF Shapes, IsVault
  <2> DEFINE a == vaults[v].owner
             k == vaults[v].key
             r == vaults[v].rows
             o == vaults[v]
  <2>2. o = [owner |-> a, key |-> k, rows |-> r]
    BY <2>1
  <2> HIDE DEF rows, a, k, r, o
  <2>3. [o EXCEPT !.rows = rows] = [owner |-> a, key |-> k, rows |-> rows]
    BY <2>2
  <2> QED BY <2>3 DEF o, a, k
<1>4. /\ Len(vaults) \in Nat /\ DOMAIN vaults = 1..Len(vaults)
  BY DEF Shapes
<1> HIDE DEF rows, c
<1>5. /\ DOMAIN vaults' = DOMAIN vaults /\ vaults' = [u \in 1..Len(vaults) |-> vaults'[u]]
      /\ \A u \in DOMAIN vaults : u # v => vaults'[u] = vaults[u]
      /\ vaults'[v] = c
  BY <1>1, <1>4
<1>6. Len(vaults') = Len(vaults)
  BY <1>4, <1>5
<1>7. vaults'[v].rows = rows /\ c.owner = vaults[v].owner /\ c.key = vaults[v].key
  BY <1>3, <1>5
<1> QED BY <1>2, <1>3, <1>5, <1>6, <1>7 DEF Added

\* A vault more.
Appended(t) ==
    /\ Len(vaults') = Len(vaults) + 1 /\ DOMAIN vaults' = 1..Len(vaults) + 1
    /\ vaults' = [u \in 1..Len(vaults') |-> vaults'[u]]
    /\ \A u \in DOMAIN vaults : vaults'[u] = vaults[u]
    /\ vaults'[Len(vaults')] = [owner |-> t, key |-> key, rows |-> vaults'[Len(vaults')].rows]
    /\ DOMAIN vaults'[Len(vaults')].rows = {}

\* A vault comes in, without rows, with MakeVault.
LEMMA MakeAppends ==
    ASSUME Shapes, NEW t \in Threads, MakeVault(t)
    PROVE  Appended(t)
<1> DEFINE none == [f \in {} |-> [real |-> "", secret |-> FALSE]]
           e == [owner |-> t, key |-> key, rows |-> none]
           S == {vaults[v] : v \in DOMAIN vaults} \union {e}
<1>1. vaults' = Append(vaults, e)
  BY DEF MakeVault
<1>2. DOMAIN none = {} /\ e = [owner |-> t, key |-> key, rows |-> e.rows] /\ e.rows = none
  OBVIOUS
<1> HIDE DEF none, e
<1>3. Len(vaults) \in Nat /\ DOMAIN vaults = 1..Len(vaults)
      /\ vaults \in [1..Len(vaults) -> S] /\ e \in S
  BY DEF Shapes
<1> HIDE DEF S
<1>4. vaults \in Seq(S)
  BY <1>3
<1>5. Len(vaults') = Len(vaults) + 1 /\ DOMAIN vaults' = 1..Len(vaults) + 1
      /\ vaults' = [u \in 1..Len(vaults') |-> vaults'[u]]
      /\ (\A u \in 1..Len(vaults) : vaults'[u] = vaults[u]) /\ vaults'[Len(vaults) + 1] = e
  <2>1. vaults' \in Seq(S) /\ Len(vaults') = Len(vaults) + 1
    BY <1>1, <1>3, <1>4
  <2>2. DOMAIN vaults' = 1..Len(vaults') /\ vaults' = [u \in 1..Len(vaults') |-> vaults'[u]]
    BY <2>1
  <2>3. \A u \in 1..Len(vaults) : vaults'[u] = vaults[u]
    BY <1>1, <1>3, <1>4
  <2>4. vaults'[Len(vaults) + 1] = e
    BY <1>1, <1>3, <1>4
  <2> QED BY <2>1, <2>2, <2>3, <2>4
<1> QED BY <1>2, <1>3, <1>5 DEF Appended

--------------------------------------------------------------------------------
(* What a step leaves as it is.                                                *)

\* What thread u has in hand stays the same.
Same(u) == /\ pc'[u] = pc[u] /\ sid'[u] = sid[u] /\ vault'[u] = vault[u]
           /\ prompt'[u] = prompt[u] /\ todo'[u] = todo[u] /\ out'[u] = out[u]
           /\ tries'[u] = tries[u] /\ reply'[u] = reply[u]

\* The locals are still functions of the threads.
Locals == /\ pc = [t \in Threads |-> pc[t]] /\ sid = [t \in Threads |-> sid[t]]
          /\ vault = [t \in Threads |-> vault[t]] /\ prompt = [t \in Threads |-> prompt[t]]
          /\ todo = [t \in Threads |-> todo[t]] /\ out = [t \in Threads |-> out[t]]
          /\ tries = [t \in Threads |-> tries[t]] /\ reply = [t \in Threads |-> reply[t]]

\* A thread that is back in the pool has nothing in hand.
Empty(t) == /\ pc'[t] = "idle" /\ sid'[t] = "" /\ vault'[t] = 0 /\ prompt'[t] = NoPrompt
            /\ todo'[t] = {} /\ out'[t] = <<>> /\ tries'[t] = 0 /\ reply'[t] = NoReply

\* A thread that returns leaves what it had; the others keep what they have.
LEMMA Returns ==
    ASSUME Locals, NEW t \in Threads, Return(t)
    PROVE  Empty(t) /\ Locals' /\ \A u \in Threads \ {t} : Same(u)
  BY DEF Locals, Return, Empty, Same

\* A place gets its surrogate.
PutAt(t, fake) == /\ pc'[t] = "replace" /\ tries'[t] = 0 /\ todo'[t] = todo[t] \ {Place(t)}
                  /\ out'[t] = [out[t] EXCEPT ![Place(t)].word = fake]
                  /\ sid'[t] = sid[t] /\ vault'[t] = vault[t] /\ prompt'[t] = prompt[t]
                  /\ reply'[t] = reply[t]

\* The thread that replaces a place changes only what it has in hand.
LEMMA Puts ==
    ASSUME Locals, NEW t \in Threads, NEW fake, Put(t, fake),
           UNCHANGED <<sid, vault, prompt, reply>>
    PROVE  PutAt(t, fake) /\ Locals' /\ \A u \in Threads \ {t} : Same(u)
<1> DEFINE i == Place(t)
<1>1. out' = [out EXCEPT ![t] = [out[t] EXCEPT ![i].word = fake]]
  BY DEF Put
<1>2. todo' = [todo EXCEPT ![t] = todo[t] \ {i}]
  BY DEF Put
<1> HIDE DEF i
<1>3. out'[t] = [out[t] EXCEPT ![i].word = fake] /\ out' = [u \in Threads |-> out'[u]]
      /\ \A u \in Threads \ {t} : out'[u] = out[u]
  <2> DEFINE o == [out[t] EXCEPT ![i].word = fake]
  <2>1. out' = [out EXCEPT ![t] = o]
    BY <1>1
  <2> HIDE DEF o
  <2>2. out'[t] = o /\ out' = [u \in Threads |-> out'[u]] /\ \A u \in Threads \ {t} : out'[u] = out[u]
    BY <2>1 DEF Locals
  <2> QED BY <2>2 DEF o
<1>4. /\ pc'[t] = "replace" /\ tries'[t] = 0 /\ todo'[t] = todo[t] \ {i}
      /\ \A u \in Threads \ {t} : pc'[u] = pc[u] /\ tries'[u] = tries[u] /\ todo'[u] = todo[u]
      /\ pc' = [u \in Threads |-> pc'[u]] /\ tries' = [u \in Threads |-> tries'[u]]
      /\ todo' = [u \in Threads |-> todo'[u]]
  BY <1>2 DEF Put, Locals
<1>5. \A u \in Threads \ {t} : Same(u)
  BY <1>3, <1>4 DEF Same
<1>6. Locals'
  BY <1>3, <1>4 DEF Locals
<1>7. PutAt(t, fake)
  BY <1>3, <1>4 DEF PutAt, i
<1> QED BY <1>5, <1>6, <1>7

\* The outcomes of an attempt.
LEMMA Settles ==
    ASSUME Locals, NEW t \in Threads, NEW fake, Settle(t, fake)
    PROVE  Locals' /\ \A u \in Threads \ {t} : Same(u)
<1>1. CASE Reuse(t, fake)
  BY <1>1, Puts DEF Reuse
<1>2. CASE Insert(t, fake)
  BY <1>2, Puts DEF Insert
<1>3. CASE TryAgain(t, fake)
  BY <1>3 DEF TryAgain, Locals, Same
<1>4. CASE Raise(t, fake)
  BY <1>4, Returns DEF Raise
<1> QED BY <1>1, <1>2, <1>3, <1>4 DEF Settle

\* A step of one thread leaves what the others have in hand as it is.
LEMMA Others ==
    ASSUME Locals, NEW t \in Threads, Protect(t) \/ Restore(t)
    PROVE  Locals' /\ \A u \in Threads \ {t} : Same(u)
<1>1. CASE CallProtect(t)
  <2>1. \E p : prompt' = [prompt EXCEPT ![t] = p]
    BY <1>1 DEF CallProtect
  <2>2. \E s : sid' = [sid EXCEPT ![t] = s]
    BY <1>1 DEF CallProtect
  <2>3. pc' = [pc EXCEPT ![t] = "find"] /\ UNCHANGED <<vault, todo, out, tries, reply>>
    BY <1>1 DEF CallProtect, Go
  <2> QED BY <2>1, <2>2, <2>3 DEF Locals, Same
<1>2. CASE FindVault(t)
  BY <1>2 DEF FindVault, Go, Locals, Same
<1>3. CASE TestKey(t) \/ CreateKey(t) \/ WriteKey(t)
  BY <1>3 DEF TestKey, CreateKey, WriteKey, Go, Locals, Same
<1>4. CASE CreateFails(t) \/ AnswerProtect(t)
  BY <1>4, Returns DEF CreateFails, AnswerProtect
<1>5. CASE MakeVault(t)
  BY <1>5 DEF MakeVault, Go, Locals, Same
<1>6. CASE RememberVault(t)
  BY <1>6 DEF RememberVault, Go, Locals, Same
<1>7. CASE Scan(t)
  BY <1>7 DEF Scan, Go, Locals, Same
<1>8. CASE ReplaceSecret(t)
  BY <1>8, Settles DEF ReplaceSecret
<1>9. CASE SeedFaker(t)
  BY <1>9 DEF SeedFaker, Go, Locals, Same
<1>10. CASE ReplaceName(t)
  BY <1>10, Settles DEF ReplaceName
<1>11. CASE CallRestore(t) \/ FindSession(t)
  BY <1>11 DEF CallRestore, FindSession, Go, Locals, Same
<1>12. CASE UnknownSession(t) \/ AnswerRestore(t) \/ RestoreRaises(t)
  BY <1>12, Returns DEF UnknownSession, AnswerRestore, RestoreRaises
<1> QED BY <1>1, <1>2, <1>3, <1>4, <1>5, <1>6, <1>7, <1>8, <1>9, <1>10, <1>11, <1>12
        DEF Protect, Vault, Restore

--------------------------------------------------------------------------------
(* What a step does to the vaults and the sessions.                            *)

\* The shapes hold those of the locals.
LEMMA ShapesAreLocals ==
    ASSUME Shapes PROVE Locals
  BY DEF Shapes, Locals

\* A row that is inserted is a new one.
Inserted(t, fake) == /\ pc[t] \in Rewriting /\ vault[t] \in DOMAIN vaults
                     /\ Insert(t, fake)
                     /\ Mine(t) /\ fake # Real(t) /\ fake \notin DOMAIN Rows(t)
                     /\ Added(vault[t], fake, Real(t))

\* The vaults stay, one comes in, or one gets a row.
LEMMA TableStep ==
    ASSUME Shapes, NEW t \in Threads, Standing(t), Protect(t) \/ Restore(t)
    PROVE  \/ vaults' = vaults
           \/ pc[t] = "read" /\ MakeVault(t) /\ Appended(t)
           \/ \E fake : Inserted(t, fake)
<1>1. CASE MakeVault(t)
  BY <1>1, MakeAppends DEF MakeVault, Go
<1>2. ASSUME pc[t] \in Rewriting, NEW fake, Settle(t, fake)
      PROVE  vaults' = vaults \/ Inserted(t, fake)
  <2>1. CASE Insert(t, fake)
    <3>1. vault[t] \in DOMAIN vaults
      <4>1. sid[t] \in Ids /\ vault[t] = sessions[sid[t]] /\ vault[t] # 0
        BY <1>2 DEF Standing, Rewriting, Working
      <4>2. sessions[sid[t]] \in 0..Len(vaults) /\ DOMAIN vaults = 1..Len(vaults)
            /\ Len(vaults) \in Nat
        BY <4>1 DEF Shapes
      <4> QED BY <4>1, <4>2
    <3>2. Added(vault[t], fake, Real(t))
      BY <2>1, <3>1, InsertAdds
    <3> QED BY <1>2, <2>1, <3>1, <3>2 DEF Inserted, Insert
  <2>2. CASE Reuse(t, fake) \/ TryAgain(t, fake) \/ Raise(t, fake)
    BY <2>2 DEF Reuse, TryAgain, Raise
  <2> QED BY <1>2, <2>1, <2>2 DEF Settle
<1>3. CASE ReplaceSecret(t) \/ ReplaceName(t)
  BY <1>2, <1>3 DEF ReplaceSecret, ReplaceName, Rewriting
<1>4. CASE CallProtect(t) \/ FindVault(t) \/ TestKey(t) \/ CreateKey(t) \/ CreateFails(t)
           \/ WriteKey(t) \/ RememberVault(t) \/ Scan(t) \/ SeedFaker(t) \/ AnswerProtect(t)
  BY <1>4 DEF CallProtect, FindVault, TestKey, CreateKey, CreateFails, WriteKey,
              RememberVault, Scan, SeedFaker, AnswerProtect, shared
<1>5. CASE Restore(t)
  BY <1>5 DEF Restore, CallRestore, FindSession, UnknownSession, AnswerRestore,
              RestoreRaises, shared
<1> QED BY <1>1, <1>3, <1>4, <1>5 DEF Protect, Vault

\* Vaults keep what they hold, sessions their vaults and clients their answers.
Grows == /\ \A v \in DOMAIN vaults :
               /\ v \in DOMAIN vaults'
               /\ vaults'[v].owner = vaults[v].owner /\ vaults'[v].key = vaults[v].key
               /\ \A f \in DOMAIN vaults[v].rows :
                     f \in DOMAIN vaults'[v].rows /\ vaults'[v].rows[f] = vaults[v].rows[f]
         /\ \A s \in Ids : sessions[s] # 0 => sessions'[s] = sessions[s]
         /\ answers \subseteq answers'
         /\ Issued \subseteq Issued'

\* A session changes only when a vault is remembered for it.
LEMMA SessionsStep ==
    ASSUME Shapes, NEW t \in Threads, Protect(t) \/ Restore(t)
    PROVE  \/ sessions' = sessions
           \/ pc[t] = "remember" /\ sessions' = [sessions EXCEPT ![sid[t]] = vault[t]]
  BY DEF Protect, Vault, Restore, CallProtect, FindVault, TestKey, CreateKey, CreateFails,
         WriteKey, MakeVault, RememberVault, Scan, ReplaceSecret, SeedFaker, ReplaceName,
         AnswerProtect, CallRestore, FindSession, UnknownSession, AnswerRestore,
         RestoreRaises, shared, Go

\* Who issues a new id is on the way to its vault.
LEMMA IssuedStep ==
    ASSUME Shapes, NEW t \in Threads, Protect(t) \/ Restore(t)
    PROVE  \/ issued' = issued
           \/ CallProtect(t) /\ issued < Len(Uuids) /\ issued' = issued + 1
<1>1. CASE CallProtect(t)
  <2>1. issued' = issued \/ (issued < Len(Uuids) /\ issued' = issued + 1)
    BY <1>1 DEF CallProtect
  <2> QED BY <1>1, <2>1
<1>2. CASE ~CallProtect(t)
  BY <1>2 DEF Protect, Vault, Restore, FindVault, TestKey, CreateKey, CreateFails,
              WriteKey, MakeVault, RememberVault, Scan, ReplaceSecret, SeedFaker, ReplaceName,
              AnswerProtect, CallRestore, FindSession, UnknownSession, AnswerRestore,
              RestoreRaises, shared
<1> QED BY <1>1, <1>2

\* Answers come from AnswerProtect alone.
LEMMA AnswersStep ==
    ASSUME NEW t \in Threads, Protect(t) \/ Restore(t)
    PROVE  answers' = answers \/ AnswerProtect(t)
  BY DEF Protect, Vault, Restore, CallProtect, FindVault, TestKey, CreateKey, CreateFails,
         WriteKey, MakeVault, RememberVault, Scan, ReplaceSecret, SeedFaker, ReplaceName,
         CallRestore, FindSession, UnknownSession, AnswerRestore, RestoreRaises, history

\* Every step lets the vaults, sessions, answers and ids grow only.
LEMMA GrowsStep ==
    ASSUME Shapes, NEW t \in Threads, Standing(t), Protect(t) \/ Restore(t)
    PROVE  Grows
<1>1. ASSUME NEW v \in DOMAIN vaults
      PROVE  /\ v \in DOMAIN vaults'
             /\ vaults'[v].owner = vaults[v].owner /\ vaults'[v].key = vaults[v].key
             /\ \A f \in DOMAIN vaults[v].rows :
                   f \in DOMAIN vaults'[v].rows /\ vaults'[v].rows[f] = vaults[v].rows[f]
  <2>1. CASE vaults' = vaults
    BY <2>1
  <2>2. CASE Appended(t)
    <3>1. DOMAIN vaults = 1..Len(vaults) /\ Len(vaults) \in Nat
      BY DEF Shapes
    <3> QED BY <2>2, <3>1 DEF Appended
  <2>3. ASSUME NEW fake, Inserted(t, fake)
        PROVE  <1>1!2
    BY <2>3 DEF Inserted, Added, Rows
  <2> QED BY <2>1, <2>2, <2>3, TableStep
<1>2. \A s \in Ids : sessions[s] # 0 => sessions'[s] = sessions[s]
  <2>1. CASE pc[t] = "remember" /\ sessions' = [sessions EXCEPT ![sid[t]] = vault[t]]
    BY <2>1 DEF Standing, Making, Shapes
  <2> QED BY <2>1, SessionsStep
<1>3. answers \subseteq answers'
  BY AnswersStep DEF AnswerProtect
<1>4. Issued \subseteq Issued'
  <2>1. issued \in Nat
    BY ProtectAssumption DEF Shapes
  <2>2. issued' = issued \/ issued' = issued + 1
    BY IssuedStep
  <2> QED BY <2>1, <2>2 DEF Issued
<1> QED BY <1>1, <1>2, <1>3, <1>4 DEF Grows

\* Every step keeps the shapes.
LEMMA ShapesStep ==
    ASSUME Shapes, NEW t \in Threads, Standing(t), Protect(t) \/ Restore(t)
    PROVE  Shapes'
<1>1. Locals'
  BY ShapesAreLocals, Others
<1>2. tries' \in [Threads -> Nat]
  <2>1. \A u \in Threads \ {t} : tries'[u] \in Nat
    BY ShapesAreLocals, Others DEF Same, Shapes
  <2>2. tries'[t] \in Nat
    <3>1. tries[t] \in Nat
      BY DEF Shapes
    <3>2. ASSUME NEW fake, Settle(t, fake) PROVE tries'[t] \in Nat
      <4>1. CASE Reuse(t, fake) \/ Insert(t, fake)
        <5>1. Put(t, fake) /\ UNCHANGED <<sid, vault, prompt, reply>>
          BY <4>1 DEF Reuse, Insert
        <5>2. PutAt(t, fake)
          BY <5>1, ShapesAreLocals, Puts
        <5> QED BY <5>2 DEF PutAt
      <4>2. CASE TryAgain(t, fake)
        BY <3>1, <4>2 DEF TryAgain, Shapes
      <4>3. CASE Raise(t, fake)
        <5>1. Empty(t)
          BY <4>3, ShapesAreLocals, Returns DEF Raise
        <5>2. tries'[t] = 0
          BY <5>1 DEF Empty
        <5> QED BY <5>2
      <4> QED BY <3>2, <4>1, <4>2, <4>3 DEF Settle
    <3>3. CASE CreateFails(t) \/ AnswerProtect(t) \/ UnknownSession(t) \/ AnswerRestore(t)
               \/ RestoreRaises(t)
      <4>1. Return(t)
        BY <3>3 DEF CreateFails, AnswerProtect, UnknownSession, AnswerRestore, RestoreRaises
      <4>2. Empty(t)
        BY <4>1, ShapesAreLocals, Returns
      <4>3. tries'[t] = 0
        BY <4>2 DEF Empty
      <4> QED BY <4>3
    <3>4. CASE ReplaceSecret(t) \/ ReplaceName(t)
      BY <3>2, <3>4 DEF ReplaceSecret, ReplaceName
    <3> QED BY <3>1, <3>3, <3>4
            DEF Protect, Vault, Restore, CallProtect, FindVault, TestKey, CreateKey, WriteKey,
                MakeVault, RememberVault, Scan, SeedFaker, CallRestore, FindSession
  <2> QED BY <1>1, <2>1, <2>2 DEF Locals
<1>3. issued' \in 0..Len(Uuids)
  <2>1. Len(Uuids) \in Nat
    BY ProtectAssumption
  <2>2. issued \in 0..Len(Uuids)
    BY DEF Shapes
  <2>3. CASE issued < Len(Uuids) /\ issued' = issued + 1
    BY <2>1, <2>2, <2>3
  <2> QED BY <2>2, <2>3, IssuedStep
<1>4. /\ Len(vaults') \in Nat /\ vaults' = [v \in 1..Len(vaults') |-> vaults'[v]]
      /\ Len(vaults) <= Len(vaults')
      /\ \A v \in DOMAIN vaults' : IsVault(vaults'[v])
  <2>1. Len(vaults) \in Nat /\ DOMAIN vaults = 1..Len(vaults)
    BY DEF Shapes
  <2>2. CASE vaults' = vaults
    BY <2>1, <2>2 DEF Shapes
  <2>3. CASE Appended(t)
    <3>1. \A v \in 1..Len(vaults) : IsVault(vaults'[v])
      BY <2>1, <2>3 DEF Appended, Shapes
    <3>2. IsVault(vaults'[Len(vaults')])
      BY <2>3 DEF Appended, IsVault
    <3>3. Len(vaults') = Len(vaults) + 1 /\ DOMAIN vaults' = 1..Len(vaults) + 1
          /\ vaults' = [v \in 1..Len(vaults') |-> vaults'[v]]
      BY <2>3 DEF Appended
    <3>4. \A v \in DOMAIN vaults' : v \in 1..Len(vaults) \/ v = Len(vaults')
      BY <2>1, <3>3
    <3> QED BY <2>1, <3>1, <3>2, <3>3, <3>4
  <2>4. ASSUME NEW fake, Inserted(t, fake)
        PROVE  <1>4
    <3>1. IsVault(vaults'[vault[t]])
      BY <2>4 DEF Inserted, Added, IsVault
    <3>2. /\ Len(vaults') = Len(vaults) /\ DOMAIN vaults' = DOMAIN vaults
          /\ vaults' = [v \in 1..Len(vaults') |-> vaults'[v]]
          /\ \A v \in DOMAIN vaults : v # vault[t] => vaults'[v] = vaults[v]
      BY <2>4 DEF Inserted, Added
    <3>3. \A v \in DOMAIN vaults : IsVault(vaults[v])
      BY DEF Shapes
    <3>4. \A v \in DOMAIN vaults' : IsVault(vaults'[v])
      BY <3>1, <3>2, <3>3
    <3> QED BY <2>1, <3>2, <3>4
  <2> QED BY <2>2, <2>3, <2>4, TableStep
<1>5. sessions' \in [Ids -> 0..Len(vaults')]
  <2>1. sessions \in [Ids -> 0..Len(vaults)] /\ Len(vaults) \in Nat
    BY DEF Shapes
  <2>2. CASE pc[t] = "remember" /\ sessions' = [sessions EXCEPT ![sid[t]] = vault[t]]
    <3>1. vault[t] \in 0..Len(vaults)
      BY <2>2 DEF Standing, Shapes
    <3>2. sessions' \in [Ids -> 0..Len(vaults)]
      BY <2>1, <2>2, <3>1
    <3> QED BY <2>1, <3>2, <1>4
  <2> QED BY <2>1, <2>2, <1>4, SessionsStep
<1> QED BY <1>1, <1>2, <1>3, <1>4, <1>5 DEF Shapes, Locals

--------------------------------------------------------------------------------
(* Where the threads stand.                                                    *)

\* The other threads stand where they stood: the vault that is remembered is that of
\* a session nobody else makes one for.
LEMMA OthersStand ==
    ASSUME Shapes, PlaceInv, NEW t \in Threads, Protect(t) \/ Restore(t),
           NEW u \in Threads \ {t}
    PROVE  Standing(u)'
<1>1. Same(u) /\ Standing(u) /\ Standing(t)
  BY ShapesAreLocals, Others DEF PlaceInv
<1>2. Grows
  BY <1>1, GrowsStep
<1>3. pc'[u] = pc[u] /\ sid'[u] = sid[u] /\ vault'[u] = vault[u] /\ prompt'[u] = prompt[u]
      /\ todo'[u] = todo[u] /\ reply'[u] = reply[u]
  BY <1>1 DEF Same
<1>4. pc'[u] \in Making => sessions'[sid'[u]] = 0
  <2>1. CASE pc[t] = "remember" /\ sessions' = [sessions EXCEPT ![sid[t]] = vault[t]]
    <3>1. ASSUME pc[u] \in Making PROVE sid[u] # sid[t]
      BY <1>1, <2>1, <3>1 DEF PlaceInv, Alone, Standing, Finding, Making
    <3> QED BY <1>1, <1>3, <2>1, <3>1 DEF Standing, Shapes, Making, Finding
  <2> QED BY <1>1, <1>3, <2>1, SessionsStep DEF Standing
<1>5. Real(u)' = Real(u)
  BY <1>3 DEF Real, Place
<1>6. pc'[u] # "idle" => sid'[u] \in Ids
  BY <1>1, <1>3 DEF Standing
<1>7. pc'[u] \in Finding \union Working => sid'[u] \in Issued'
  BY <1>1, <1>2, <1>3 DEF Standing, Grows
<1>8. pc'[u] = "remember" => vault'[u] \in DOMAIN vaults'
  BY <1>1, <1>2, <1>3 DEF Standing, Grows
<1>9. pc'[u] \in Working \union {"restore"} =>
         sessions'[sid'[u]] # 0 /\ vault'[u] = sessions'[sid'[u]]
  BY <1>1, <1>2, <1>3 DEF Standing, Grows, Working, Rewriting
<1>10. pc'[u] \in Restoring => reply'[u] \in answers'
  BY <1>1, <1>2, <1>3 DEF Standing, Grows
<1> QED BY <1>1, <1>3, <1>4, <1>5, <1>6, <1>7, <1>8, <1>9, <1>10 DEF Standing

\* Nothing is asked of a thread in the pool.
LEMMA IdleStands ==
    ASSUME NEW t \in Threads, pc'[t] = "idle"
    PROVE  Standing(t)'
  BY DEF Standing, Finding, Making, Working, Rewriting, Restoring

\* An id that comes up is one of the ids.
LEMMA IssuedIds ==
    ASSUME NEW n \in 0..Len(Uuids) PROVE {Uuids[i] : i \in 1..n} \subseteq Ids
<1>1. Len(Uuids) \in Nat /\ DOMAIN Uuids = 1..Len(Uuids)
  BY ProtectAssumption
<1> QED BY <1>1 DEF Ids

\* A place that is replaced, tried again or given up.
LEMMA SettlesStanding ==
    ASSUME Shapes, NEW t \in Threads, Standing(t), pc[t] \in Rewriting, NEW fake,
           Settle(t, fake), sessions' = sessions, issued' = issued
    PROVE  Standing(t)'
<1>1. CASE Reuse(t, fake) \/ Insert(t, fake)
  <2>1. PutAt(t, fake)
    BY <1>1, ShapesAreLocals, Puts DEF Reuse, Insert
  <2> QED BY <2>1 DEF PutAt, Standing, Finding, Making, Working, Rewriting, Restoring, Issued
<1>2. CASE TryAgain(t, fake)
  <2>1. pc'[t] = "replace" /\ UNCHANGED <<sid, vault, prompt, reply>>
    BY <1>2 DEF TryAgain, Shapes
  <2> QED BY <2>1 DEF Standing, Finding, Making, Working, Rewriting, Restoring, Issued
<1>3. CASE Raise(t, fake)
  <2>1. Empty(t)
    BY <1>3, ShapesAreLocals, Returns DEF Raise
  <2>2. pc'[t] = "idle"
    BY <2>1 DEF Empty
  <2> QED BY <2>2, IdleStands
<1> QED BY <1>1, <1>2, <1>3 DEF Settle

\* The thread itself goes on from where it stood.
LEMMA OwnStands ==
    ASSUME Shapes, PlaceInv, ClientIds = {}, NEW t \in Threads, Protect(t) \/ Restore(t)
    PROVE  Standing(t)'
<1> USE DEF Go, Finding, Making, Working, Rewriting, Restoring
<1>1. Standing(t) /\ Locals /\ Shapes'
  BY ShapesAreLocals, ShapesStep DEF PlaceInv
<1>2. CASE CallProtect(t)
  <2>1. pc'[t] = "find" /\ prompt'[t] \in Prompts
    BY <1>1, <1>2 DEF CallProtect, Locals
  <2>2. sid'[t] \in Issued'
    <3>1. issued \in Nat /\ Issued \subseteq Issued'
      BY <1>1, GrowsStep, ProtectAssumption DEF Shapes, Grows
    <3>2. CASE issued' = issued + 1 /\ sid' = [sid EXCEPT ![t] = Uuids[issued']]
      BY <1>1, <3>1, <3>2 DEF Locals, Issued
    <3>3. ASSUME NEW s \in Known, sid' = [sid EXCEPT ![t] = s]
          PROVE  sid'[t] \in Issued'
      BY <1>1, <3>1, <3>3 DEF Known, PlaceInv, Alone, Locals
    <3> QED BY <1>2, <3>2, <3>3 DEF CallProtect
  <2>3. sid'[t] \in Ids
    BY <1>1, <2>2, IssuedIds DEF Issued, Shapes
  <2> QED BY <2>1, <2>2, <2>3 DEF Standing
<1>3. CASE FindVault(t)
  <2>1. /\ pc'[t] = IF sessions[sid[t]] = 0 THEN "key" ELSE "scan"
        /\ vault'[t] = sessions[sid[t]] /\ pc[t] = "find"
        /\ UNCHANGED <<sessions, sid, prompt, issued>>
    BY <1>1, <1>3 DEF FindVault, Locals, shared
  <2> QED BY <1>1, <2>1 DEF Standing, Issued
<1>4. CASE TestKey(t) \/ CreateKey(t) \/ WriteKey(t)
  <2>1. pc'[t] \in {"create", "write", "read"} /\ pc[t] \in {"key", "create", "write"}
        /\ UNCHANGED <<sessions, sid, prompt, issued>>
    BY <1>1, <1>4 DEF TestKey, CreateKey, WriteKey, Locals, shared
  <2> QED BY <1>1, <2>1 DEF Standing, Issued
<1>5. CASE MakeVault(t)
  <2>1. pc'[t] = "remember" /\ sid'[t] = sid[t] /\ prompt'[t] = prompt[t] /\ pc[t] = "read"
        /\ sessions' = sessions /\ issued' = issued /\ vault'[t] = Len(vaults')
    BY <1>1, <1>5 DEF MakeVault, Locals
  <2>2. vault'[t] \in DOMAIN vaults'
    <3>1. Len(vaults) \in Nat
      BY DEF Shapes
    <3>2. Len(vaults') = Len(vaults) + 1 /\ DOMAIN vaults' = 1..Len(vaults) + 1
      BY <1>5, MakeAppends DEF Appended
    <3> QED BY <2>1, <3>1, <3>2
  <2> QED BY <1>1, <2>1, <2>2 DEF Standing, Issued
<1>6. CASE RememberVault(t)
  <2>1. pc'[t] = "scan" /\ sid'[t] = sid[t] /\ prompt'[t] = prompt[t] /\ vault'[t] = vault[t]
        /\ issued' = issued /\ pc[t] = "remember" /\ sessions'[sid[t]] = vault[t]
    BY <1>1, <1>6 DEF RememberVault, Locals, Standing, Shapes
  <2>2. vault[t] # 0
    BY <1>1, <2>1 DEF Standing, Shapes
  <2> QED BY <1>1, <2>1, <2>2 DEF Standing, Issued
<1>7. CASE Scan(t)
  <2>1. pc'[t] = "replace" /\ sid'[t] = sid[t] /\ prompt'[t] = prompt[t] /\ vault'[t] = vault[t]
        /\ pc[t] = "scan" /\ UNCHANGED <<sessions, issued>>
    BY <1>1, <1>7 DEF Scan, Locals, shared
  <2> QED BY <1>1, <2>1 DEF Standing, Issued
<1>8. CASE SeedFaker(t)
  <2>1. pc'[t] = "seeded" /\ UNCHANGED <<sid, prompt, vault, sessions, issued, todo>> /\ pc[t] = "replace"
        /\ todo[t] # {} /\ Real(t) \in People
    BY <1>1, <1>8 DEF SeedFaker, Locals
  <2>2. Real(t)' = Real(t)
    BY <2>1 DEF Real, Place
  <2> QED BY <1>1, <2>1, <2>2 DEF Standing, Issued
<1>9. CASE ReplaceSecret(t) \/ ReplaceName(t)
  BY <1>1, <1>9, SettlesStanding DEF ReplaceSecret, ReplaceName
<1>10. CASE CallRestore(t)
  <2>1. pc'[t] = "known" /\ UNCHANGED <<answers, restores>>
        /\ (\E s \in Known \union Strangers : sid' = [sid EXCEPT ![t] = s])
        /\ \E a \in answers : reply' = [reply EXCEPT ![t] = a]
    BY <1>1, <1>10 DEF CallRestore, Locals, history
  <2>2. sid'[t] \in Ids /\ reply'[t] \in answers'
    <3>1. Known \union Strangers \subseteq Ids
      <4>1. Issued \subseteq Ids
        BY <1>1, IssuedIds DEF Issued, Shapes
      <4> QED BY <1>1, <4>1 DEF PlaceInv, Alone, Known, Ids
    <3> QED BY <1>1, <2>1, <3>1 DEF Locals
  <2> QED BY <2>1, <2>2 DEF Standing
<1>11. CASE FindSession(t)
  <2>1. pc'[t] = "restore" /\ pc[t] = "known" /\ vault'[t] = sessions[sid[t]]
        /\ sessions[sid[t]] # 0 /\ UNCHANGED <<sessions, sid, reply, answers>>
    BY <1>1, <1>11 DEF FindSession, Locals, shared, history
  <2> QED BY <1>1, <2>1 DEF Standing
<1>12. CASE CreateFails(t) \/ AnswerProtect(t) \/ UnknownSession(t) \/ AnswerRestore(t)
            \/ RestoreRaises(t)
  <2>1. Return(t)
    BY <1>12 DEF CreateFails, AnswerProtect, UnknownSession, AnswerRestore, RestoreRaises
  <2>2. Empty(t)
    BY <1>1, <2>1, Returns
  <2>3. pc'[t] = "idle"
    BY <2>2 DEF Empty
  <2> QED BY <2>3, IdleStands
<1> QED BY <1>2, <1>3, <1>4, <1>5, <1>6, <1>7, <1>8, <1>9, <1>10, <1>11, <1>12
        DEF Protect, Vault, Restore


\* A thread that looks for a vault has done so before, or comes with a call.
LEMMA EntersFinding ==
    ASSUME Shapes, NEW t \in Threads, Protect(t) \/ Restore(t), pc'[t] \in Finding
    PROVE  \/ pc[t] \in Finding /\ sid'[t] = sid[t]
           \/ CallProtect(t)
<1> USE DEF Go, Finding, Making, Rewriting
<1>1. Locals
  BY ShapesAreLocals
<1>2. ASSUME Return(t) PROVE FALSE
  <2>1. Empty(t)
    BY <1>1, <1>2, Returns
  <2>2. pc'[t] = "idle"
    BY <2>1 DEF Empty
  <2> QED BY <2>2
<1>3. ASSUME NEW fake, Settle(t, fake) PROVE FALSE
  <2>1. CASE Reuse(t, fake) \/ Insert(t, fake)
    <3>1. PutAt(t, fake)
      BY <1>1, <2>1, Puts DEF Reuse, Insert
    <3> QED BY <3>1 DEF PutAt
  <2>2. CASE TryAgain(t, fake)
    BY <1>1, <2>2 DEF TryAgain, Locals
  <2> QED BY <1>2, <1>3, <2>1, <2>2 DEF Settle, Raise
<1>4. CASE FindVault(t) \/ TestKey(t) \/ CreateKey(t) \/ WriteKey(t) \/ MakeVault(t)
  BY <1>1, <1>4 DEF FindVault, TestKey, CreateKey, WriteKey, MakeVault, Locals
<1>5. CASE RememberVault(t) \/ Scan(t) \/ SeedFaker(t) \/ CallRestore(t) \/ FindSession(t)
  BY <1>1, <1>5 DEF RememberVault, Scan, SeedFaker, CallRestore, FindSession, Locals
<1>6. CASE ReplaceSecret(t) \/ ReplaceName(t)
  BY <1>3, <1>6 DEF ReplaceSecret, ReplaceName
<1>7. CASE CreateFails(t) \/ AnswerProtect(t) \/ UnknownSession(t) \/ AnswerRestore(t)
           \/ RestoreRaises(t)
  BY <1>2, <1>7 DEF CreateFails, AnswerProtect, UnknownSession, AnswerRestore, RestoreRaises
<1> QED BY <1>4, <1>5, <1>6, <1>7 DEF Protect, Vault, Restore

\* A call comes for a session that has a vault, or under an id that is new.
LEMMA CallsAlone ==
    ASSUME Shapes, PlaceInv, ClientIds = {}, NEW t \in Threads, CallProtect(t)
    PROVE  sid'[t] \notin Issued \/ (sid'[t] \in Ids /\ sessions[sid'[t]] # 0)
<1>1. Locals /\ issued \in 0..Len(Uuids) /\ Len(Uuids) \in Nat /\ DOMAIN Uuids = 1..Len(Uuids)
  BY ShapesAreLocals, ProtectAssumption DEF Shapes
<1>2. CASE issued < Len(Uuids) /\ issued' = issued + 1 /\ sid' = [sid EXCEPT ![t] = Uuids[issued']]
  <2>1. sid'[t] = Uuids[issued + 1] /\ issued + 1 \in DOMAIN Uuids
    BY <1>1, <1>2 DEF Locals
  <2>2. \A i \in 1..issued : Uuids[i] # Uuids[issued + 1]
    <3> TAKE i \in 1..issued
    <3>1. i \in DOMAIN Uuids /\ i # issued + 1
      BY <1>1
    <3> QED BY <2>1, <3>1, ProtectAssumption
  <2> QED BY <2>1, <2>2 DEF Issued
<1>3. ASSUME NEW s \in Known, sid' = [sid EXCEPT ![t] = s]
      PROVE  sid'[t] \in Ids /\ sessions[sid'[t]] # 0
  <2>1. sid'[t] = s /\ s \in Issued /\ sessions[s] # 0
    BY <1>1, <1>3 DEF Known, PlaceInv, Alone, Locals
  <2> QED BY <1>1, <2>1, IssuedIds DEF Issued
<1> QED BY <1>2, <1>3 DEF CallProtect

\* Every step keeps the threads that make vaults apart, and answered sessions their vault.
LEMMA AloneStep ==
    ASSUME Shapes, PlaceInv, ClientIds = {}, NEW t \in Threads, Protect(t) \/ Restore(t)
    PROVE  Alone'
<1>1. Grows /\ Locals
  BY ShapesAreLocals, GrowsStep DEF PlaceInv
<1>2. Issued \subseteq Ids
  BY IssuedIds DEF Issued, Shapes
<1>3. ASSUME NEW u \in Threads, u # t, pc'[t] \in Finding, pc'[u] \in Finding, sid'[t] = sid'[u]
      PROVE  sessions'[sid'[t]] # 0
  <2>1. pc[u] \in Finding /\ sid'[u] = sid[u] /\ sid[u] \in Issued
    BY <1>1, <1>3, Others DEF Same, PlaceInv, Standing
  <2>2. CASE pc[t] \in Finding /\ sid'[t] = sid[t]
    BY <1>1, <1>2, <1>3, <2>1, <2>2 DEF PlaceInv, Alone, Grows
  <2>3. CASE CallProtect(t)
    BY <1>1, <1>2, <1>3, <2>1, <2>3, CallsAlone DEF Grows
  <2> QED BY <1>3, <2>2, <2>3, EntersFinding
<1>4. ASSUME NEW u \in Threads \ {t}, NEW w \in Threads \ {t}, u # w, pc'[u] \in Finding,
             pc'[w] \in Finding, sid'[u] = sid'[w]
      PROVE  sessions'[sid'[u]] # 0
  <2>1. /\ pc'[u] = pc[u] /\ sid'[u] = sid[u] /\ pc'[w] = pc[w] /\ sid'[w] = sid[w]
    BY <1>1, <1>4, Others DEF Same
  <2>2. sessions[sid[u]] # 0 /\ sid[u] \in Issued
    BY <1>4, <2>1 DEF PlaceInv, Alone, Standing
  <2> QED BY <1>1, <1>2, <2>1, <2>2 DEF Grows
<1>5. \A a \in answers' : a.id \in Issued' /\ sessions'[a.id] # 0
  <2>1. \A a \in answers : a.id \in Issued' /\ sessions'[a.id] # 0
    BY <1>1, <1>2 DEF PlaceInv, Alone, Grows
  <2>2. CASE AnswerProtect(t)
    <3>1. sid[t] \in Issued /\ sessions[sid[t]] # 0
      BY <2>2 DEF AnswerProtect, PlaceInv, Standing, Working, Rewriting
    <3>2. sid[t] \in Issued' /\ sessions'[sid[t]] # 0
      BY <1>1, <1>2, <3>1 DEF Grows
    <3> QED BY <2>1, <2>2, <3>2 DEF AnswerProtect
  <2> QED BY <2>1, <2>2, AnswersStep
<1> QED BY <1>3, <1>4, <1>5 DEF Alone

\* Every step keeps where the threads stand.
LEMMA PlaceStep ==
    ASSUME Shapes, PlaceInv, ClientIds = {}, NEW t \in Threads, Protect(t) \/ Restore(t)
    PROVE  PlaceInv'
  BY OthersStand, OwnStands, AloneStep DEF PlaceInv

--------------------------------------------------------------------------------
(* The rows.                                                                   *)

\* Every step keeps the rows marked, and no word its own surrogate.
LEMMA RowsStep ==
    ASSUME Shapes, PlaceInv, RowsInv, NEW t \in Threads, Protect(t) \/ Restore(t)
    PROVE  RowsInv'
<1>1. CASE vaults' = vaults
  BY <1>1 DEF RowsInv
<1>2. CASE Appended(t)
  <2>1. Len(vaults) \in Nat /\ DOMAIN vaults = 1..Len(vaults)
    BY DEF Shapes
  <2>2. \A v \in DOMAIN vaults' : v \in DOMAIN vaults \/ v = Len(vaults')
    BY <1>2, <2>1 DEF Appended
  <2>3. DOMAIN vaults'[Len(vaults')].rows = {} /\ \A u \in DOMAIN vaults : vaults'[u] = vaults[u]
    BY <1>2 DEF Appended
  <2> QED BY <2>2, <2>3 DEF RowsInv
<1>3. ASSUME NEW fake, Inserted(t, fake) PROVE RowsInv'
  <2>1. ASSUME NEW v \in DOMAIN vaults', v # vault[t], NEW f \in DOMAIN vaults'[v].rows
        PROVE  /\ vaults'[v].rows[f].real # f
               /\ vaults'[v].rows[f].real \in Secrets => vaults'[v].rows[f].secret
    BY <1>3, <2>1 DEF Inserted, Added, RowsInv
  <2>2. ASSUME NEW f \in DOMAIN vaults'[vault[t]].rows
        PROVE  /\ vaults'[vault[t]].rows[f].real # f
               /\ vaults'[vault[t]].rows[f].real \in Secrets => vaults'[vault[t]].rows[f].secret
    <3>1. CASE f = fake
      BY <1>3, <3>1 DEF Inserted, Added
    <3>2. CASE f # fake
      BY <1>3, <2>2, <3>2 DEF Inserted, Added, RowsInv
    <3> QED BY <3>1, <3>2
  <2> QED BY <2>1, <2>2 DEF RowsInv
<1> QED BY <1>1, <1>2, <1>3, TableStep DEF PlaceInv


--------------------------------------------------------------------------------
(* The texts.                                                                  *)

\* What stands for a word still does when rows come in.
LEMMA ReplacedKept ==
    ASSUME NEW text, NEW p, NEW left, NEW rows, NEW more, Replaced(text, p, left, rows),
           \A f \in DOMAIN rows : f \in DOMAIN more /\ more[f] = rows[f]
    PROVE  Replaced(text, p, left, more)
  BY DEF Replaced, Stands

\* One place more is replaced.
LEMMA PutReplaces ==
    ASSUME NEW p \in Prompts, NEW text, NEW left, NEW rows, Replaced(text, p, left, rows),
           NEW i \in left, NEW fake \in DOMAIN rows, rows[fake].real = p.text[i].word
    PROVE  Replaced([text EXCEPT ![i].word = fake], p, left \ {i}, rows)
<1> DEFINE c == [text[i] EXCEPT !.word = fake]
           new == [text EXCEPT ![i].word = fake]
<1>1. new = [text EXCEPT ![i] = c]
  OBVIOUS
<1>2. i \in Spans(p) /\ i \in DOMAIN p.text /\ left \subseteq Spans(p)
  BY Places DEF Replaced
<1>3. text[i] = p.text[i] /\ text = [j \in DOMAIN p.text |-> text[j]]
  BY <1>2 DEF Replaced
<1>4. c = [p.text[i] EXCEPT !.word = fake] /\ c.word = fake
  <2>1. p.text[i] = [word |-> p.text[i].word, free |-> p.text[i].free]
    BY <1>2, Places
  <2> QED BY <1>3, <2>1
<1> HIDE DEF c, new
<1>5. new[i] = c /\ (\A j \in DOMAIN p.text : j # i => new[j] = text[j])
      /\ new = [j \in DOMAIN p.text |-> new[j]]
  BY <1>1, <1>2, <1>3
<1>6. Stands(new[i], p.text[i], rows)
  BY <1>4, <1>5 DEF Stands
<1>7. \A j \in DOMAIN p.text : IF j \in Spans(p) \ (left \ {i}) THEN Stands(new[j], p.text[j], rows)
                               ELSE new[j] = p.text[j]
  BY <1>2, <1>5, <1>6 DEF Replaced
<1>8. Replaced(new, p, left \ {i}, rows)
  BY <1>2, <1>5, <1>7 DEF Replaced
<1> QED BY <1>8 DEF new

\* The rows of a vault only grow.
LEMMA RowsGrow ==
    ASSUME Grows, NEW v \in DOMAIN vaults
    PROVE  \A f \in DOMAIN vaults[v].rows :
              f \in DOMAIN vaults'[v].rows /\ vaults'[v].rows[f] = vaults[v].rows[f]
  BY DEF Grows

\* A thread that restores, or replaces, has a vault.
LEMMA HasVault ==
    ASSUME Shapes, NEW t \in Threads, Standing(t), pc[t] \in Working \union {"restore"}
    PROVE  vault[t] \in DOMAIN vaults /\ vault[t] = sessions[sid[t]] /\ sid[t] \in Ids
<1>1. sid[t] \in Ids /\ vault[t] = sessions[sid[t]] /\ vault[t] # 0
  BY DEF Standing, Rewriting, Working
<1>2. sessions[sid[t]] \in 0..Len(vaults) /\ DOMAIN vaults = 1..Len(vaults) /\ Len(vaults) \in Nat
  BY <1>1 DEF Shapes
<1> QED BY <1>1, <1>2

\* A session that has answered has a vault, and keeps it.
LEMMA AnswersHaveVaults ==
    ASSUME Shapes, Alone, NEW a \in answers
    PROVE  a.id \in Ids /\ sessions[a.id] # 0 /\ sessions[a.id] \in DOMAIN vaults
<1>1. a.id \in Ids /\ sessions[a.id] # 0
  BY IssuedIds DEF Alone, Issued, Shapes
<1>2. sessions[a.id] \in 0..Len(vaults) /\ DOMAIN vaults = 1..Len(vaults) /\ Len(vaults) \in Nat
  BY <1>1 DEF Shapes
<1> QED BY <1>1, <1>2

\* A place that is replaced, tried again or given up.
LEMMA SettlesText ==
    ASSUME Shapes, PlaceInv, TextInv, NEW t \in Threads, Protect(t) \/ Restore(t),
           pc[t] \in Rewriting, todo[t] # {}, NEW fake, Settle(t, fake)
    PROVE  pc'[t] \in Rewriting => Replaced(out'[t], prompt'[t], todo'[t], vaults'[vault'[t]].rows)
<1> DEFINE v == vault[t]
<1>1. Locals /\ Grows /\ Standing(t) /\ v \in DOMAIN vaults /\ prompt[t] \in Prompts
  BY ShapesAreLocals, GrowsStep, HasVault DEF PlaceInv, Standing, Working
<1>2. Replaced(out[t], prompt[t], todo[t], vaults[v].rows)
  BY DEF TextInv
<1>3. Replaced(out[t], prompt[t], todo[t], vaults'[v].rows)
  BY <1>1, <1>2, RowsGrow, ReplacedKept
<1>4. Place(t) \in todo[t]
  BY <1>1, <1>2, AtPlace DEF Replaced
<1>5. ASSUME Reuse(t, fake) \/ Insert(t, fake)
      PROVE  Replaced(out'[t], prompt'[t], todo'[t], vaults'[vault'[t]].rows)
  <2>1. PutAt(t, fake)
    BY <1>1, <1>5, Puts DEF Reuse, Insert
  <2>2. fake \in DOMAIN vaults'[v].rows /\ vaults'[v].rows[fake].real = prompt[t].text[Place(t)].word
    <3>1. CASE Reuse(t, fake)
      BY <3>1 DEF Reuse, Rows, Real
    <3>2. CASE Insert(t, fake)
      BY <1>1, <3>2, InsertAdds DEF Added, Real
    <3> QED BY <1>5, <3>1, <3>2
  <2>3. Replaced([out[t] EXCEPT ![Place(t)].word = fake], prompt[t], todo[t] \ {Place(t)},
                 vaults'[v].rows)
    BY <1>1, <1>3, <1>4, <2>2, PutReplaces
  <2> QED BY <2>1, <2>3 DEF PutAt
<1>6. CASE TryAgain(t, fake)
  BY <1>2, <1>6 DEF TryAgain
<1>7. CASE Raise(t, fake)
  <2>1. Empty(t)
    BY <1>1, <1>7, Returns DEF Raise
  <2>2. pc'[t] = "idle"
    BY <2>1 DEF Empty
  <2> QED BY <2>2 DEF Rewriting
<1> QED BY <1>5, <1>6, <1>7 DEF Settle

\* Every step keeps the texts replaced by rows of the session's vault.
LEMMA TextStep ==
    ASSUME Shapes, PlaceInv, TextInv, ClientIds = {}, NEW t \in Threads, Protect(t) \/ Restore(t)
    PROVE  TextInv'
<1>1. Locals /\ Grows /\ Standing(t) /\ PlaceInv'
  BY ShapesAreLocals, GrowsStep, PlaceStep DEF PlaceInv
<1>2. ASSUME NEW u \in Threads \ {t}, pc'[u] \in Rewriting
      PROVE  Replaced(out'[u], prompt'[u], todo'[u], vaults'[vault'[u]].rows)
  <2>1. pc'[u] = pc[u] /\ out'[u] = out[u] /\ prompt'[u] = prompt[u] /\ todo'[u] = todo[u]
        /\ vault'[u] = vault[u]
    BY <1>1, Others DEF Same
  <2>2. vault[u] \in DOMAIN vaults
    BY <1>2, <2>1, HasVault DEF PlaceInv, Working
  <2>3. Replaced(out[u], prompt[u], todo[u], vaults[vault[u]].rows)
    BY <1>2, <2>1 DEF TextInv
  <2> QED BY <1>1, <2>1, <2>2, <2>3, RowsGrow, ReplacedKept
<1>3. ASSUME pc'[t] \in Rewriting
      PROVE  Replaced(out'[t], prompt'[t], todo'[t], vaults'[vault'[t]].rows)
  <2> USE DEF Go, Rewriting
  <2>1. CASE Scan(t)
    <3>1. out'[t] = prompt[t].text /\ todo'[t] = Spans(prompt[t]) /\ prompt'[t] = prompt[t]
          /\ prompt[t] \in Prompts
      BY <1>1, <2>1 DEF Scan, Locals, Standing, Working
    <3>2. prompt[t].text = [i \in DOMAIN prompt[t].text |-> prompt[t].text[i]]
      BY <3>1, Places
    <3> QED BY <3>1, <3>2 DEF Replaced
  <2>2. CASE ReplaceSecret(t) \/ ReplaceName(t)
    BY <1>1, <1>3, <2>2, SettlesText DEF ReplaceSecret, ReplaceName, Standing
  <2>3. CASE SeedFaker(t)
    BY <1>1, <2>3 DEF SeedFaker, TextInv
  <2>4. ASSUME Return(t) PROVE FALSE
    <3>1. Empty(t)
      BY <1>1, <2>4, Returns
    <3>2. pc'[t] = "idle"
      BY <3>1 DEF Empty
    <3> QED BY <1>3, <3>2
  <2> QED BY <1>1, <1>3, <2>1, <2>2, <2>3, <2>4
          DEF Protect, Vault, Restore, CallProtect, FindVault, TestKey, CreateKey, WriteKey,
              MakeVault, RememberVault, CallRestore, FindSession, CreateFails, AnswerProtect,
              UnknownSession, AnswerRestore, RestoreRaises, Locals
<1>4. ASSUME NEW a \in answers
      PROVE  a.prompt \in Prompts /\ Replaced(a.out, a.prompt, {}, vaults'[sessions'[a.id]].rows)
  <2>1. sessions[a.id] \in DOMAIN vaults /\ sessions'[a.id] = sessions[a.id]
    BY <1>1, AnswersHaveVaults DEF PlaceInv, Grows
  <2> QED BY <1>1, <2>1, RowsGrow, ReplacedKept DEF TextInv
<1>5. ASSUME AnswerProtect(t), NEW a, a = [id |-> sid[t], prompt |-> prompt[t], out |-> out[t]]
      PROVE  a.prompt \in Prompts /\ Replaced(a.out, a.prompt, {}, vaults'[sessions'[a.id]].rows)
  <2>1. pc[t] = "replace" /\ todo[t] = {} /\ vaults' = vaults /\ sessions' = sessions
    BY <1>5 DEF AnswerProtect, shared
  <2>2. prompt[t] \in Prompts /\ vault[t] = sessions[sid[t]]
    BY <1>1, <2>1 DEF Standing, Working, Rewriting
  <2>3. Replaced(out[t], prompt[t], {}, vaults[vault[t]].rows)
    BY <2>1 DEF TextInv, Rewriting
  <2>4. a.id = sid[t] /\ a.prompt = prompt[t] /\ a.out = out[t]
    BY <1>5
  <2> QED BY <2>1, <2>2, <2>3, <2>4
<1>6. \A a \in answers' : a.prompt \in Prompts
         /\ Replaced(a.out, a.prompt, {}, vaults'[sessions'[a.id]].rows)
  <2>1. CASE AnswerProtect(t)
    BY <1>4, <1>5, <2>1 DEF AnswerProtect
  <2> QED BY <1>4, <2>1, AnswersStep
<1>7. \A u \in Threads : pc'[u] \in Rewriting =>
         Replaced(out'[u], prompt'[u], todo'[u], vaults'[vault'[u]].rows)
  BY <1>2, <1>3
<1> QED BY <1>6, <1>7 DEF TextInv, Replaced, Stands


--------------------------------------------------------------------------------
(* What is restored.                                                           *)

\* Whatever is replaced is a secret or stands free.
LEMMA SpansFree ==
    ASSUME FreeFound, NEW p \in Prompts, NEW i \in Spans(p)
    PROVE  p.text[i].word \in Secrets \/ p.text[i].free
  BY DEF FreeFound, Spans

\* What stands for a word is found in the reply and gives that word again.
LEMMA RestoresPlaces ==
    ASSUME FreeFound, NEW p \in Prompts, NEW text, NEW rows, Replaced(text, p, {}, rows),
           \A f \in DOMAIN rows : rows[f].real \in Secrets => rows[f].secret
    PROVE  /\ Restored(rows, text) = [i \in DOMAIN p.text |-> Restored(rows, text)[i]]
           /\ \A i \in DOMAIN p.text :
                 \/ Restored(rows, text)[i] = p.text[i]
                 \/ i \notin Spans(p) /\ p.text[i].word \in DOMAIN rows
<1> DEFINE back == Restored(rows, text)
<1>1. text = [i \in DOMAIN p.text |-> text[i]]
  BY DEF Replaced
<1>2. DOMAIN text = DOMAIN p.text
  BY <1>1
<1>3. back = [i \in DOMAIN p.text |-> back[i]]
  BY <1>2 DEF Restored
<1>4. ASSUME NEW i \in DOMAIN p.text, i \notin Spans(p), p.text[i].word \notin DOMAIN rows
      PROVE  back[i] = p.text[i]
  <2>1. text[i] = p.text[i]
    BY <1>4 DEF Replaced
  <2> QED BY <1>2, <1>4, <2>1 DEF Restored
<1>5. ASSUME NEW i \in DOMAIN p.text, i \in Spans(p)
      PROVE  back[i] = p.text[i]
  <2> DEFINE new == text[i]
             old == p.text[i]
  <2>1. Stands(new, old, rows)
    BY <1>5 DEF Replaced
  <2>2. old = [word |-> old.word, free |-> old.free]
    BY Places
  <2>3. old.word \in Secrets \/ old.free
    BY <1>5, SpansFree
  <2>4. back[i] = IF new.word \in DOMAIN rows /\ (rows[new.word].secret \/ new.free)
                  THEN [new EXCEPT !.word = rows[new.word].real] ELSE new
    BY <1>2 DEF Restored
  <2> HIDE DEF new, old, back
  <2>5. new = [word |-> new.word, free |-> old.free]
    BY <2>1, <2>2 DEF Stands
  <2>6. new.free = old.free
    BY <2>5
  <2>7. new.word \in DOMAIN rows /\ rows[new.word].real = old.word
        /\ (rows[new.word].secret \/ new.free)
    BY <2>1, <2>3, <2>6 DEF Stands
  <2>8. back[i] = [new EXCEPT !.word = old.word]
    BY <2>4, <2>7
  <2>9. back[i] = old
    BY <2>2, <2>5, <2>8
  <2> QED BY <2>9 DEF old
<1> QED BY <1>3, <1>4, <1>5

\* Every step keeps what was restored, and restores what was protected.
LEMMA RestoredStep ==
    ASSUME Shapes, PlaceInv, RowsInv, TextInv, RestoredInv, ClientIds = {}, FreeFound,
           NEW t \in Threads, Protect(t) \/ Restore(t)
    PROVE  RestoredInv'
<1> DEFINE Good(r) ==
        /\ r.text = [i \in DOMAIN r.of.prompt.text |-> r.text[i]]
        /\ \A i \in DOMAIN r.of.prompt.text :
              \/ r.text[i] = r.of.prompt.text[i]
              \/ /\ i \notin Spans(r.of.prompt)
                 /\ r.of.prompt.text[i].word \in DOMAIN vaults'[sessions'[r.id]].rows
<1>1. Grows /\ Standing(t)
  BY GrowsStep DEF PlaceInv
<1>2. ASSUME NEW r \in restores
      PROVE  r.of \in answers' /\ (r.id = r.of.id => Good(r))
  <2>1. r.of \in answers /\ r.of \in answers'
    BY <1>1 DEF RestoredInv, Grows
  <2>2. sessions[r.of.id] \in DOMAIN vaults /\ sessions'[r.of.id] = sessions[r.of.id]
    BY <1>1, <2>1, AnswersHaveVaults DEF PlaceInv, Grows
  <2> QED BY <1>1, <2>1, <2>2, RowsGrow DEF RestoredInv
<1>3. ASSUME AnswerRestore(t), NEW r,
             r = [id |-> sid[t], of |-> reply[t],
                  text |-> Restored(vaults[vault[t]].rows, reply[t].out)]
      PROVE  r.of \in answers' /\ (r.id = r.of.id => Good(r))
  <2>1. pc[t] = "restore" /\ UNCHANGED <<vaults, sessions, answers>>
    BY <1>3 DEF AnswerRestore, shared
  <2>2. reply[t] \in answers /\ vault[t] = sessions[sid[t]] /\ vault[t] \in DOMAIN vaults
    BY <1>1, <2>1, HasVault DEF Standing, Restoring
  <2>3. r.id = sid[t] /\ r.of = reply[t] /\ r.text = Restored(vaults[vault[t]].rows, reply[t].out)
    BY <1>3
  <2>4. ASSUME r.id = r.of.id PROVE Good(r)
    <3> DEFINE a == reply[t]
               rows == vaults[vault[t]].rows
    <3>1. a.prompt \in Prompts /\ Replaced(a.out, a.prompt, {}, rows)
      BY <2>2, <2>3, <2>4 DEF TextInv
    <3>2. \A f \in DOMAIN rows : rows[f].real \in Secrets => rows[f].secret
      BY <2>2 DEF RowsInv
    <3>3. vaults'[sessions'[r.id]].rows = rows
      BY <2>1, <2>2, <2>3
    <3> HIDE DEF rows
    <3>4. /\ Restored(rows, a.out) = [i \in DOMAIN a.prompt.text |-> Restored(rows, a.out)[i]]
          /\ \A i \in DOMAIN a.prompt.text :
                 \/ Restored(rows, a.out)[i] = a.prompt.text[i]
                 \/ i \notin Spans(a.prompt) /\ a.prompt.text[i].word \in DOMAIN rows
      BY <3>1, <3>2, RestoresPlaces
    <3>5. r.of = a /\ r.text = Restored(rows, a.out)
      BY <2>3 DEF rows
    <3> HIDE DEF a
    <3> QED BY <3>3, <3>4, <3>5
  <2> QED BY <2>1, <2>2, <2>3, <2>4
<1>4. restores' = restores \/ AnswerRestore(t)
  BY DEF Protect, Vault, Restore, CallProtect, FindVault, TestKey, CreateKey, CreateFails,
         WriteKey, MakeVault, RememberVault, Scan, ReplaceSecret, SeedFaker, ReplaceName,
         AnswerProtect, CallRestore, FindSession, UnknownSession, RestoreRaises, history
<1>5. \A r \in restores' : r.of \in answers' /\ (r.id = r.of.id => Good(r))
  <2>1. CASE AnswerRestore(t)
    BY <1>2, <1>3, <2>1 DEF AnswerRestore
  <2> QED BY <1>2, <1>4, <2>1
<1> QED BY <1>5 DEF RestoredInv, Spans


--------------------------------------------------------------------------------
(* The surrogate of a secret.                                                  *)

\* What has been given up for stays to be given up for: no row leaves, and no word is a
\* surrogate of itself.
LEMMA BadKept ==
    ASSUME NEW rows, NEW more, NEW w, NEW fake, Bad(rows, w, fake),
           \A f \in DOMAIN rows : f \in DOMAIN more /\ more[f] = rows[f],
           \A f \in DOMAIN more : more[f].real # f
    PROVE  Bad(more, w, fake)
  BY DEF Bad

\* The same of all attempts before one.
LEMMA FirstKept ==
    ASSUME Grows, RowsInv', NEW v \in DOMAIN vaults, NEW w, NEW n \in Nat, FirstOf(v, w, n)
    PROVE  FirstOf(v, w, n)'
<1>1. v \in DOMAIN vaults' /\ vaults'[v].key = vaults[v].key
  BY DEF Grows
<1>2. \A f \in DOMAIN vaults'[v].rows : vaults'[v].rows[f].real # f
  BY <1>1 DEF RowsInv
<1>3. ASSUME NEW m \in 0..n - 1
      PROVE  Bad(vaults'[v].rows, w, FakeSecret(vaults[v].key, w, m))
  <2>1. Bad(vaults[v].rows, w, FakeSecret(vaults[v].key, w, m))
    BY DEF FirstOf
  <2> QED BY <1>2, <2>1, RowsGrow, BadKept
<1> QED BY <1>1, <1>3 DEF FirstOf

\* Row f of vault v is the first that is to be had for its word.
FirstRow(v, f) == vaults[v].rows[f].real \in Secrets =>
    \E n \in Nat : /\ f = FakeSecret(vaults[v].key, vaults[v].rows[f].real, n)
                   /\ FirstOf(v, vaults[v].rows[f].real, n)

\* Rows that are there stay the first.
LEMMA FirstRowKept ==
    ASSUME Grows, RowsInv', FirstInv, NEW v \in DOMAIN vaults, NEW f \in DOMAIN vaults[v].rows
    PROVE  FirstRow(v, f)'
<1> DEFINE w == vaults[v].rows[f].real
<1>1. vaults'[v].key = vaults[v].key /\ vaults'[v].rows[f] = vaults[v].rows[f]
  BY DEF Grows
<1>2. ASSUME w \in Secrets PROVE FirstRow(v, f)'
  <2>1. PICK n \in Nat : f = FakeSecret(vaults[v].key, w, n) /\ FirstOf(v, w, n)
    BY <1>2 DEF FirstInv
  <2>2. FirstOf(v, w, n)'
    <3> HIDE DEF w
    <3> SUFFICES ASSUME NEW x, x = w PROVE FirstOf(v, x, n)'
      BY <1>1 DEF w
    <3> QED BY <2>1, FirstKept
  <2> QED BY <1>1, <2>1, <2>2 DEF FirstRow
<1> QED BY <1>1, <1>2 DEF FirstRow

\* A secret is replaced only where no name is asked for.
LEMMA SecretsAreNoNames ==
    ASSUME NEW w PROVE ~(w \in Secrets /\ w \in People)
  BY ProtectAssumption


\* What FirstInv asks of a thread.
Trying(t) == /\ pc[t] \notin Rewriting => tries[t] = 0
             /\ pc[t] = "replace" /\ todo[t] # {} /\ Real(t) \in Secrets /\ Mine(t)
                   => FirstOf(vault[t], Real(t), tries[t])

\* Before the first attempt nothing has been given up.
LEMMA FirstAttempt ==
    ASSUME NEW t \in Threads, tries'[t] = 0
    PROVE  Trying(t)'
<1>1. \A v, w : FirstOf(v, w, 0)'
  BY DEF FirstOf
<1>2. FirstOf(vault[t], Real(t), tries[t])'
  BY <1>1 DEF FirstOf
<1> QED BY <1>2 DEF Trying

\* The other threads have given up what they had given up.
LEMMA OthersTry ==
    ASSUME Shapes, PlaceInv, RowsInv', FirstInv, NEW t \in Threads, Protect(t) \/ Restore(t),
           NEW u \in Threads \ {t}
    PROVE  Trying(u)'
<1>1. Same(u) /\ Standing(u) /\ Grows
  BY ShapesAreLocals, Others, GrowsStep DEF PlaceInv
<1>2. pc'[u] = pc[u] /\ vault'[u] = vault[u] /\ prompt'[u] = prompt[u] /\ todo'[u] = todo[u]
      /\ tries'[u] = tries[u]
  BY <1>1 DEF Same
<1>3. Real(u)' = Real(u)
  BY <1>2 DEF Real, Place
<1>4. tries[u] \in Nat
  BY DEF Shapes
<1>5. ASSUME pc[u] = "replace", todo[u] # {}, Real(u) \in Secrets, Mine(u)'
      PROVE  FirstOf(vault[u], Real(u), tries[u])'
  <2>1. vault[u] \in DOMAIN vaults
    BY <1>1, <1>5, HasVault DEF Working, Rewriting
  <2>2. Mine(u)
    BY <1>1, <1>2, <1>5, <2>1 DEF Mine, Grows
  <2>3. FirstOf(vault[u], Real(u), tries[u])
    BY <1>5, <2>2 DEF FirstInv
  <2> SUFFICES ASSUME NEW v, NEW w, NEW n, v = vault[u], w = Real(u), n = tries[u]
               PROVE  FirstOf(v, w, n)'
    BY <1>2, <1>3 DEF FirstOf
  <2> QED BY <1>1, <1>4, <2>1, <2>3, FirstKept
<1>6. pc[u] \notin Rewriting => tries[u] = 0
  BY DEF FirstInv
<1> QED BY <1>2, <1>3, <1>5, <1>6 DEF Trying

\* A surrogate that is drawn for a secret.
LEMMA SecretTries ==
    ASSUME Shapes, PlaceInv, FirstInv, NEW t \in Threads, ReplaceSecret(t)
    PROVE  Trying(t)'
<1> DEFINE k == vaults[vault[t]].key
           fake == FakeSecret(k, Real(t), tries[t])
<1>1. pc[t] = "replace" /\ todo[t] # {} /\ Locals
  BY ShapesAreLocals DEF ReplaceSecret
<1>2. Settle(t, FakeSecret(vaults[vault[t]].key, Real(t), tries[t]))
  BY DEF ReplaceSecret, Seed
<1>3. Settle(t, fake)
  BY <1>2
<1>4. CASE Reuse(t, fake) \/ Insert(t, fake)
  <2> HIDE DEF fake
  <2>1. PutAt(t, fake)
    BY <1>1, <1>4, Puts DEF Reuse, Insert
  <2>2. tries'[t] = 0
    BY <2>1 DEF PutAt
  <2> QED BY <2>2, FirstAttempt
<1>5. CASE TryAgain(t, fake)
  <2>1. tries'[t] = tries[t] + 1 /\ tries[t] \in Nat /\ UNCHANGED <<vaults, vault, prompt, todo>>
        /\ pc'[t] = "replace" /\ Mine(t) /\ Unusable(t, fake)
    <3> HIDE DEF fake
    <3> QED BY <1>1, <1>5 DEF TryAgain, Shapes, Locals
  <2>2. Real(t)' = Real(t)
    BY <2>1 DEF Real, Place
  <2>3. Bad(vaults[vault[t]].rows, Real(t), fake)
    <3> HIDE DEF fake
    <3> QED BY <2>1 DEF Unusable, Bad, Rows
  <2>4. ASSUME Real(t) \in Secrets PROVE FirstOf(vault[t], Real(t), tries[t] + 1)
    <3>1. FirstOf(vault[t], Real(t), tries[t])
      BY <1>1, <2>1, <2>4 DEF FirstInv
    <3>2. \A m \in 0..(tries[t] + 1) - 1 : m \in 0..tries[t] - 1 \/ m = tries[t]
      BY <2>1
    <3>3. ASSUME NEW m \in 0..(tries[t] + 1) - 1
          PROVE  Bad(vaults[vault[t]].rows, Real(t), FakeSecret(k, Real(t), m))
      <4>1. CASE m = tries[t]
        BY <2>3, <4>1
      <4>2. CASE m \in 0..tries[t] - 1
        BY <3>1, <4>2 DEF FirstOf
      <4> QED BY <3>2, <4>1, <4>2
    <3> QED BY <3>3 DEF FirstOf
  <2>5. Real(t) \in Secrets => FirstOf(vault[t], Real(t), tries[t])'
    BY <2>1, <2>2, <2>4 DEF FirstOf
  <2> QED BY <2>1, <2>2, <2>5 DEF Trying, Rewriting
<1>6. CASE Raise(t, fake)
  <2> HIDE DEF fake
  <2>1. Empty(t)
    BY <1>1, <1>6, Returns DEF Raise
  <2>2. tries'[t] = 0
    BY <2>1 DEF Empty
  <2> QED BY <2>2, FirstAttempt
<1> QED BY <1>3, <1>4, <1>5, <1>6 DEF Settle


\* A name that is drawn is none of a secret.
LEMMA NameTries ==
    ASSUME Shapes, PlaceInv, NEW t \in Threads, ReplaceName(t)
    PROVE  Trying(t)'
<1>1. pc[t] = "seeded" /\ Locals /\ Standing(t)
  BY ShapesAreLocals DEF ReplaceName, PlaceInv
<1>2. ASSUME NEW fake, Settle(t, fake) PROVE Trying(t)'
  <2>1. CASE Reuse(t, fake) \/ Insert(t, fake)
    <3>1. PutAt(t, fake)
      BY <1>1, <2>1, Puts DEF Reuse, Insert
    <3>2. tries'[t] = 0
      BY <3>1 DEF PutAt
    <3> QED BY <3>2, FirstAttempt
  <2>2. CASE TryAgain(t, fake)
    <3>1. pc'[t] = "replace" /\ UNCHANGED <<prompt, todo>>
      BY <1>1, <2>2 DEF TryAgain, Locals
    <3>2. Real(t)' = Real(t)
      BY <3>1 DEF Real, Place
    <3>3. Real(t) \notin Secrets
      BY <1>1, SecretsAreNoNames DEF Standing
    <3> QED BY <3>1, <3>2, <3>3 DEF Trying, Rewriting
  <2>3. CASE Raise(t, fake)
    <3>1. Empty(t)
      BY <1>1, <2>3, Returns DEF Raise
    <3>2. tries'[t] = 0
      BY <3>1 DEF Empty
    <3> QED BY <3>2, FirstAttempt
  <2> QED BY <1>2, <2>1, <2>2, <2>3 DEF Settle
<1> QED BY <1>2 DEF ReplaceName

\* The thread that takes a step has given up only what it had to.
LEMMA OwnTries ==
    ASSUME Shapes, PlaceInv, FirstInv, NEW t \in Threads, Protect(t) \/ Restore(t)
    PROVE  Trying(t)'
<1> USE DEF Go
<1>1. Locals /\ (pc[t] \notin Rewriting => tries[t] = 0)
  BY ShapesAreLocals DEF FirstInv
<1>2. CASE ReplaceSecret(t) \/ ReplaceName(t)
  BY <1>2, SecretTries, NameTries
<1>3. CASE SeedFaker(t)
  <2>1. pc'[t] = "seeded"
    BY <1>1, <1>3 DEF SeedFaker, Locals
  <2> QED BY <2>1 DEF Trying, Rewriting
<1>4. ASSUME Return(t) PROVE Trying(t)'
  <2>1. Empty(t)
    BY <1>1, <1>4, Returns
  <2>2. tries'[t] = 0
    BY <2>1 DEF Empty
  <2> QED BY <2>2, FirstAttempt
<1>5. CASE CreateFails(t) \/ AnswerProtect(t) \/ UnknownSession(t) \/ AnswerRestore(t)
           \/ RestoreRaises(t)
  BY <1>4, <1>5 DEF CreateFails, AnswerProtect, UnknownSession, AnswerRestore, RestoreRaises
<1>6. CASE CallProtect(t) \/ FindVault(t) \/ TestKey(t) \/ CreateKey(t) \/ WriteKey(t)
           \/ MakeVault(t) \/ RememberVault(t) \/ Scan(t) \/ CallRestore(t) \/ FindSession(t)
  <2>1. pc[t] \notin Rewriting /\ tries' = tries
    BY <1>6 DEF CallProtect, FindVault, TestKey, CreateKey, WriteKey, MakeVault, RememberVault,
                Scan, CallRestore, FindSession, Rewriting
  <2>2. tries'[t] = 0
    BY <1>1, <2>1
  <2> QED BY <2>2, FirstAttempt
<1> QED BY <1>2, <1>3, <1>5, <1>6 DEF Protect, Vault, Restore

\* The row that comes in for a secret is the first that is to be had.
LEMMA SecretsRow ==
    ASSUME Shapes, PlaceInv, RowsInv', FirstInv, NEW t \in Threads, ReplaceSecret(t)
    PROVE  \A v \in DOMAIN vaults' : \A f \in DOMAIN vaults'[v].rows : FirstRow(v, f)'
<1> DEFINE u == vault[t]
<1>1. pc[t] = "replace" /\ todo[t] # {} /\ Locals /\ Standing(t) /\ tries[t] \in Nat
      /\ Protect(t)
  BY ShapesAreLocals DEF ReplaceSecret, PlaceInv, Shapes, Protect
<1>2. u \in DOMAIN vaults /\ Grows
  BY <1>1, HasVault, GrowsStep DEF Working, Rewriting
<1>3. PICK fake : fake = FakeSecret(vaults[u].key, Real(t), tries[t])
  OBVIOUS
<1>4. Settle(t, fake)
  BY <1>3 DEF ReplaceSecret, Seed
<1>5. CASE Insert(t, fake)
  <2>1. Added(u, fake, Real(t)) /\ Mine(t)
    BY <1>2, <1>5, InsertAdds DEF Insert
  <2>2. ASSUME NEW v \in DOMAIN vaults, NEW f \in DOMAIN vaults'[v].rows,
               v # u \/ f # fake
        PROVE  FirstRow(v, f)'
    <3>1. f \in DOMAIN vaults[v].rows
      BY <2>1, <2>2 DEF Added
    <3> QED BY <1>2, <3>1, FirstRowKept
  <2>3. ASSUME NEW v, v = u PROVE FirstRow(v, fake)'
    <3>1. vaults'[v].rows[fake].real = Real(t) /\ vaults'[v].key = vaults[u].key
      BY <1>2, <2>1, <2>3 DEF Added, Grows
    <3>2. ASSUME NEW w, NEW n, w = Real(t), n = tries[t], w \in Secrets
          PROVE  FirstRow(v, fake)'
      <4>1. FirstOf(v, w, n)
        BY <1>1, <2>1, <2>3, <3>2 DEF FirstInv
      <4>2. FirstOf(v, w, n)'
        BY <1>1, <1>2, <2>3, <3>2, <4>1, FirstKept
      <4>3. fake = FakeSecret(vaults'[v].key, w, n)
        BY <1>3, <3>1, <3>2
      <4>4. vaults'[v].rows[fake].real = w /\ n \in Nat
        BY <1>1, <3>1, <3>2
      <4> QED BY <4>2, <4>3, <4>4 DEF FirstRow
    <3>3. CASE Real(t) \notin Secrets
      BY <3>1, <3>3 DEF FirstRow
    <3> QED BY <3>2, <3>3
  <2>4. DOMAIN vaults' = DOMAIN vaults
    BY <2>1 DEF Added
  <2>5. ASSUME NEW v \in DOMAIN vaults, NEW f \in DOMAIN vaults'[v].rows
        PROVE  FirstRow(v, f)'
    <3>1. CASE v = u /\ f = fake
      BY <2>3, <3>1
    <3> QED BY <2>2, <3>1
  <2> QED BY <2>4, <2>5
<1>6. CASE Reuse(t, fake) \/ TryAgain(t, fake) \/ Raise(t, fake)
  <2>1. vaults' = vaults
    BY <1>6 DEF Reuse, TryAgain, Raise
  <2> QED BY <1>2, <2>1, FirstRowKept
<1> QED BY <1>4, <1>5, <1>6 DEF Settle

\* The row that comes in for a name is none of a secret.
LEMMA NamesRow ==
    ASSUME Shapes, PlaceInv, RowsInv', FirstInv, NEW t \in Threads, ReplaceName(t)
    PROVE  \A v \in DOMAIN vaults' : \A f \in DOMAIN vaults'[v].rows : FirstRow(v, f)'
<1>1. Standing(t) /\ pc[t] = "seeded" /\ Protect(t)
  BY DEF ReplaceName, PlaceInv, Protect
<1>2. vault[t] \in DOMAIN vaults /\ Grows /\ Real(t) \notin Secrets
  BY <1>1, HasVault, GrowsStep, SecretsAreNoNames DEF Working, Rewriting, Standing
<1>3. PICK fake : Settle(t, fake)
  BY DEF ReplaceName
<1>4. CASE Insert(t, fake)
  <2>1. Added(vault[t], fake, Real(t))
    BY <1>2, <1>4, InsertAdds
  <2>2. ASSUME NEW v \in DOMAIN vaults, NEW f \in DOMAIN vaults'[v].rows
        PROVE  FirstRow(v, f)'
    <3>1. CASE f \in DOMAIN vaults[v].rows
      BY <1>2, <3>1, FirstRowKept
    <3>2. CASE f \notin DOMAIN vaults[v].rows
      <4>1. v = vault[t] /\ f = fake
        BY <2>1, <2>2, <3>2 DEF Added
      <4>2. vaults'[v].rows[f].real = Real(t)
        BY <2>1, <4>1 DEF Added
      <4> QED BY <1>2, <4>2 DEF FirstRow
    <3> QED BY <3>1, <3>2
  <2>3. DOMAIN vaults' = DOMAIN vaults
    BY <2>1 DEF Added
  <2> QED BY <2>2, <2>3
<1>5. CASE Reuse(t, fake) \/ TryAgain(t, fake) \/ Raise(t, fake)
  <2>1. vaults' = vaults
    BY <1>5 DEF Reuse, TryAgain, Raise
  <2> QED BY <1>2, <2>1, FirstRowKept
<1> QED BY <1>3, <1>4, <1>5 DEF Settle


\* Every step keeps each surrogate of a secret the first that is to be had.
LEMMA FirstStep ==
    ASSUME Shapes, PlaceInv, RowsInv, FirstInv, NEW t \in Threads, Protect(t) \/ Restore(t)
    PROVE  FirstInv'
<1>1. RowsInv' /\ Grows
  BY RowsStep, GrowsStep DEF PlaceInv
<1>2. \A u \in Threads : Trying(u)'
  BY <1>1, OthersTry, OwnTries
<1>3. \A v \in DOMAIN vaults' : \A f \in DOMAIN vaults'[v].rows : FirstRow(v, f)'
  <2>1. CASE ReplaceSecret(t) \/ ReplaceName(t)
    BY <1>1, <2>1, SecretsRow, NamesRow
  <2>2. CASE MakeVault(t)
    <3>1. Appended(t) /\ Len(vaults) \in Nat /\ DOMAIN vaults = 1..Len(vaults)
      BY <2>2, MakeAppends DEF Shapes
    <3>2. \A v \in DOMAIN vaults' : v \in DOMAIN vaults \/ v = Len(vaults')
      BY <3>1 DEF Appended
    <3>3. DOMAIN vaults'[Len(vaults')].rows = {} /\ \A u \in DOMAIN vaults : vaults'[u] = vaults[u]
      BY <3>1 DEF Appended
    <3>4. \A v \in DOMAIN vaults : \A f \in DOMAIN vaults'[v].rows : FirstRow(v, f)'
      BY <1>1, <3>3, FirstRowKept
    <3> QED BY <3>2, <3>3, <3>4
  <2>3. CASE vaults' = vaults
    BY <1>1, <2>3, FirstRowKept
  <2>4. ReplaceSecret(t) \/ ReplaceName(t) \/ MakeVault(t) \/ vaults' = vaults
    BY DEF Protect, Vault, Restore, CallProtect, FindVault, TestKey, CreateKey, CreateFails,
           WriteKey, RememberVault, Scan, SeedFaker, AnswerProtect, CallRestore, FindSession,
           UnknownSession, AnswerRestore, RestoreRaises, shared
  <2> QED BY <2>1, <2>2, <2>3, <2>4
<1> QED BY <1>2, <1>3 DEF FirstInv, Trying, FirstRow, FirstOf

--------------------------------------------------------------------------------
(* The theorems.                                                               *)

\* The invariant but for what is restored.
SessionsInv == Shapes /\ PlaceInv /\ RowsInv /\ TextInv /\ FirstInv

\* The invariants hold at the start.
LEMMA InitInv ==
    ASSUME Init PROVE SessionsInv /\ RestoredInv
<1>1. Len(Uuids) \in Nat
  BY ProtectAssumption
<1>2. vaults = <<>> /\ Len(vaults) = 0 /\ DOMAIN vaults = {} /\ 1..Len(vaults) = {}
  <2>1. vaults = <<>>
    BY DEF Init
  <2>2. Len(vaults) = 0 /\ DOMAIN vaults = {}
    BY <2>1
  <2> QED BY <2>1, <2>2
<1>3. vaults = [v \in 1..Len(vaults) |-> vaults[v]]
  <2>1. \A S : S = {} => <<>> = [v \in S |-> <<>>[v]]
    OBVIOUS
  <2> QED BY <1>2, <2>1
<1>4. Locals /\ tries \in [Threads -> Nat] /\ sessions \in [Ids -> {0}] /\ issued = 0
  BY DEF Init, Locals
<1>5. sessions \in [Ids -> 0..Len(vaults)]
  BY <1>2, <1>4
<1>6. Shapes
  BY <1>1, <1>2, <1>3, <1>4, <1>5 DEF Shapes, Locals
<1>7. /\ answers = {} /\ restores = {}
      /\ \A t \in Threads : pc[t] = "idle" /\ tries[t] = 0
  BY DEF Init
<1>8. PlaceInv
  BY <1>7 DEF PlaceInv, Standing, Alone, Finding, Making, Working, Rewriting, Restoring
<1>9. RowsInv /\ TextInv /\ RestoredInv
  BY <1>2, <1>7 DEF RowsInv, TextInv, RestoredInv, Rewriting
<1>10. FirstInv
  BY <1>2, <1>7 DEF FirstInv, Rewriting
<1> QED BY <1>6, <1>8, <1>9, <1>10 DEF SessionsInv

\* The invariants hold when nothing changes.
LEMMA StutterInv ==
    ASSUME SessionsInv, UNCHANGED vars
    PROVE  SessionsInv' /\ (RestoredInv => RestoredInv')
<1>1. Shapes'
  BY DEF SessionsInv, vars, shared, local, history, Shapes
<1>2. PlaceInv'
  BY DEF SessionsInv, vars, shared, local, history, PlaceInv, Standing, Alone, Issued, Real, Place
<1>3. RowsInv' /\ TextInv' /\ (RestoredInv => RestoredInv')
  BY DEF SessionsInv, vars, shared, local, history, RowsInv, TextInv, RestoredInv
<1>4. FirstInv'
  BY DEF SessionsInv, vars, shared, local, history, FirstInv, FirstOf, Real, Place, Mine
<1> QED BY <1>1, <1>2, <1>3, <1>4 DEF SessionsInv

\* The invariants hold after every step.
LEMMA InvStep ==
    ASSUME SessionsInv, ClientIds = {}, Next
    PROVE  SessionsInv' /\ (FreeFound /\ RestoredInv => RestoredInv')
<1>1. PICK t \in Threads : Protect(t) \/ Restore(t)
  BY DEF Next
<1>2. Standing(t)
  BY DEF SessionsInv, PlaceInv
<1>3. Shapes' /\ PlaceInv' /\ RowsInv' /\ TextInv' /\ FirstInv'
  BY <1>1, <1>2, ShapesStep, PlaceStep, RowsStep, TextStep, FirstStep DEF SessionsInv
<1>4. FreeFound /\ RestoredInv => RestoredInv'
  BY <1>1, RestoredStep DEF SessionsInv
<1> QED BY <1>3, <1>4 DEF SessionsInv

\* When the gateway makes up the ids of the sessions (ClientIds is empty), a session has
\* one vault, made by one thread, whatever threads do beside it; texts are replaced by
\* rows of that vault; rows are never taken away, nor given to another word.
THEOREM Sessions ==
    ASSUME ClientIds = {}
    PROVE  Spec => []SessionsInv
<1>1. Init => SessionsInv
  BY InitInv
<1>2. SessionsInv /\ [Next]_vars => SessionsInv'
  BY InvStep, StutterInv
<1> QED BY <1>1, <1>2, PTL DEF Spec

\* A secret keeps its surrogate: two prompts of a session give one name to one secret.
THEOREM SecretKeepsSurrogateHolds ==
    ASSUME ClientIds = {}
    PROVE  Spec => []SecretKeepsSurrogate
<1>1. SessionsInv => SecretKeepsSurrogate
  <2> SUFFICES ASSUME SessionsInv, NEW a \in answers, NEW b \in answers, a.id = b.id,
                      NEW i \in DOMAIN a.out, NEW j \in DOMAIN b.out,
                      i \in Spans(a.prompt), j \in Spans(b.prompt),
                      a.prompt.text[i].word = b.prompt.text[j].word,
                      a.prompt.text[i].word \in Secrets
               PROVE  a.out[i].word = b.out[j].word
    BY DEF SecretKeepsSurrogate
  <2> DEFINE v == sessions[a.id]
             w == a.prompt.text[i].word
             f == a.out[i].word
             g == b.out[j].word
  <2>1. v \in DOMAIN vaults
    BY AnswersHaveVaults DEF SessionsInv, PlaceInv
  <2>2. a.prompt \in Prompts /\ Replaced(a.out, a.prompt, {}, vaults[v].rows)
        /\ b.prompt \in Prompts /\ Replaced(b.out, b.prompt, {}, vaults[v].rows)
    BY DEF SessionsInv, TextInv
  <2>3. i \in DOMAIN a.prompt.text /\ j \in DOMAIN b.prompt.text
    BY <2>2, Places
  <2>4. f \in DOMAIN vaults[v].rows /\ vaults[v].rows[f].real = w
        /\ g \in DOMAIN vaults[v].rows /\ vaults[v].rows[g].real = w
    BY <2>2, <2>3 DEF Replaced, Stands
  <2>5. PICK n \in Nat : f = FakeSecret(vaults[v].key, w, n) /\ FirstOf(v, w, n)
    BY <2>1, <2>4 DEF SessionsInv, FirstInv
  <2>6. PICK m \in Nat : g = FakeSecret(vaults[v].key, w, m) /\ FirstOf(v, w, m)
    BY <2>1, <2>4 DEF SessionsInv, FirstInv
  <2>7. ~Bad(vaults[v].rows, w, f) /\ ~Bad(vaults[v].rows, w, g)
    BY <2>4 DEF Bad
  <2>8. ~(n < m) /\ ~(m < n)
    <3>1. n < m => n \in 0..m - 1
      OBVIOUS
    <3>2. m < n => m \in 0..n - 1
      OBVIOUS
    <3> QED BY <2>5, <2>6, <2>7, <3>1, <3>2 DEF FirstOf
  <2>9. n = m
    BY <2>8
  <2> QED BY <2>5, <2>6, <2>9
<1> QED BY <1>1, Sessions, PTL

\* What restore answers to the text protect gave out is the text it was given, if the
\* places the scan reports that are no secrets stand free (FreeFound).
THEOREM RoundTripHolds ==
    ASSUME ClientIds = {}, FreeFound
    PROVE  Spec => []RoundTrip
<1>1. Init => SessionsInv /\ RestoredInv
  BY InitInv
<1>2. SessionsInv /\ RestoredInv /\ [Next]_vars => SessionsInv' /\ RestoredInv'
  BY InvStep, StutterInv
<1>3. SessionsInv /\ RestoredInv => RoundTrip
  <2> SUFFICES ASSUME SessionsInv, RestoredInv, NEW r \in restores, r.id = r.of.id,
                      Plain(r.of.prompt, vaults[sessions[r.id]].rows)
               PROVE  r.text = r.of.prompt.text
    BY DEF RoundTrip
  <2>1. r.of \in answers /\ r.text = [i \in DOMAIN r.of.prompt.text |-> r.text[i]]
    BY DEF RestoredInv
  <2>2. r.of.prompt \in Prompts
    BY <2>1 DEF SessionsInv, TextInv
  <2>3. r.of.prompt.text = [i \in DOMAIN r.of.prompt.text |-> r.of.prompt.text[i]]
    BY <2>2, Places
  <2>4. \A i \in DOMAIN r.of.prompt.text : r.text[i] = r.of.prompt.text[i]
    BY DEF RestoredInv, Plain
  <2> QED BY <2>1, <2>3, <2>4
<1> QED BY <1>1, <1>2, <1>3, PTL DEF Spec
================================================================================
