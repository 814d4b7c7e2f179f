---------------------------- MODULE LocalModelProofs ----------------------------
(* Theorems about what runs the model on this machine.  LocalChat: for every       *)
(* number of threads, any prompts, a vault of any size, any number of chats, of    *)
(* settings saved and of deltas.  LlamaRuntime: for any models, any number of      *)
(* threads that select, and any number of servers, selects and foreign programs.   *)
EXTENDS LocalChat, LlamaRuntime, TLAPS

--------------------------------------------------------------------------------
(* LocalChat: the inductive invariant.                                         *)

Rows == [in : Nat, id : Nat, value : STRING]
Parts == [token : Rows, part : {"whole", "head", "tail"}]
Requests == [id : Nat, prompt : Prompts, tokens : SUBSET Rows, plain : SUBSET STRING]

\* Types of the variables.
Typed == /\ gateway \in Nat /\ rows \subseteq Rows /\ chats \in Nat
         /\ pc \in [Chatters -> {"idle", "mint", "guard", "send", "read", "blocked"}]
         /\ via \in [Chatters -> Nat]
         /\ id \in [Chatters -> Nat]
         /\ prompt \in [Chatters -> Prompts \union {NoPrompt}]
         /\ left \in [Chatters -> Nat]
         /\ minted \in [Chatters -> SUBSET Rows]
         /\ mapping \in [Chatters -> SUBSET Rows]
         /\ raw \in [Chatters -> Seq(Parts)]
         /\ sent \subseteq Requests

\* A chat has a number as long as it lasts, and no other chat has it.
NumberInv == /\ \A c \in Chatters : id[c] <= chats /\ (pc[c] = "idle" <=> id[c] = 0)
             /\ \A c, d \in Chatters : id[c] = id[d] /\ id[c] # 0 => c = d
             /\ \A s \in sent : s.id \in 1..chats

\* Every span to the right of those that are left has its token.
Covered(c) == \A i \in 1..(Len(prompt[c].spans) - left[c]) :
                 \E tk \in minted[c] : tk.value = prompt[c].spans[i]

\* What is known of the prompt, and where the rows of its tokens are, when the chat
\* is prepared: they are in the vault until the values are read back.
PrepareInv(c) ==
    /\ IF pc[c] = "idle" THEN minted[c] = {} ELSE prompt[c] \in Prompts
    /\ left[c] <= Len(prompt[c].spans)
    /\ \A tk \in minted[c] : tk.id = id[c]
    /\ pc[c] \in {"mint", "guard", "send"} => Covered(c) /\ prompt[c].verdict # "block"
    /\ pc[c] \in {"guard", "send"} => left[c] = 0
    /\ pc[c] \in {"mint", "guard"} => minted[c] \subseteq rows
    /\ pc[c] = "send" => ~prompt[c].inject
    /\ pc[c] \in {"send", "read"} => mapping[c] = minted[c]

\* A request that carries the number of a chat still going on carries its tokens, and
\* what the model writes are tokens of requests.
TalkInv(c) ==
    /\ \A s \in sent : s.id = id[c] => pc[c] = "read" /\ s.tokens = minted[c]
    /\ \A k \in DOMAIN raw[c] : \E s \in sent : raw[c][k].token \in s.tokens

IInv == /\ Typed /\ NumberInv
        /\ \A c \in Chatters : PrepareInv(c) /\ TalkInv(c)
        /\ OnlyTokensSent /\ ShowsOwn

--------------------------------------------------------------------------------
(* Texts and requests.                                                         *)

\* The complete tokens of a text are tokens of its deltas.
LEMMA TokensAreParts ==
    ASSUME NEW text \in Seq(Parts), NEW x \in Tokens(text)
    PROVE  \E k \in DOMAIN text : text[k].token = x
<1>1. DOMAIN text = 1..Len(text) /\ Len(text) \in Nat
  OBVIOUS
<1> QED
  BY <1>1 DEF Tokens

\* An answer without text shows nothing.
LEMMA NothingShown ==
    ASSUME NEW a, a.raw = <<>>, a.shown = [values |-> {}, tokens |-> {}]
    PROVE  a.shown = [values |-> {tk.value : tk \in {x \in Tokens(a.raw) : x.id = a.id}},
                      tokens |-> {x \in Tokens(a.raw) : x.id # a.id}]
<1>1. Tokens(<<>>) = {}
  BY DEF Tokens
<1> QED
  BY <1>1

\* The values of the spans of a prompt are strings.
LEMMA Spans ==
    ASSUME NEW p \in Prompts \union {NoPrompt}
    PROVE  p.spans \in Seq(STRING) /\ Len(p.spans) \in Nat
<1>1. CASE p \in Prompts
  <2>1. p.spans \in Seq(STRING)
    BY <1>1, ChatAssumption
  <2> QED
    BY <2>1
<1>2. CASE p = NoPrompt
  <2>1. p.spans = <<>>
    BY <1>2 DEF NoPrompt
  <2> QED
    BY <2>1
<1> QED
  BY <1>1, <1>2

\* A chat that goes on, and one that has not begun, owe nothing to what others do.
LEMMA Others ==
    ASSUME NEW c \in Chatters, PrepareInv(c), TalkInv(c),
           pc'[c] = pc[c], id'[c] = id[c], prompt'[c] = prompt[c], left'[c] = left[c],
           minted'[c] = minted[c], mapping'[c] = mapping[c], raw'[c] = raw[c],
           pc[c] \in {"mint", "guard"} => minted[c] \intersect rows \subseteq rows',
           sent \subseteq sent', \A s \in sent' \ sent : s.id # id[c]
    PROVE  PrepareInv(c)' /\ TalkInv(c)'
<1>1. PrepareInv(c)'
  BY DEF PrepareInv, Covered
<1>2. TalkInv(c)'
  BY DEF TalkInv
<1> QED
  BY <1>1, <1>2

--------------------------------------------------------------------------------
(* LocalChat: the steps.                                                       *)

\* The invariant holds at the start.
LEMMA Starts == Init => IInv
<1> SUFFICES ASSUME Init PROVE IInv
  OBVIOUS
<1>1. Typed
  BY DEF Init, Typed
<1>2. NumberInv
  BY DEF Init, NumberInv
<1>3. ASSUME NEW c \in Chatters PROVE PrepareInv(c) /\ TalkInv(c)
  <2>1. PrepareInv(c)
    BY DEF Init, PrepareInv, Covered, NoPrompt
  <2>2. TalkInv(c)
    BY DEF Init, TalkInv
  <2> QED
    BY <2>1, <2>2
<1>4. OnlyTokensSent
  BY DEF Init, OnlyTokensSent
<1>5. ShowsOwn
  <2>1. last.raw = <<>> /\ last.shown = [values |-> {}, tokens |-> {}]
    BY DEF Init, NoAnswer
  <2> QED
    BY <2>1, NothingShown DEF ShowsOwn
<1> QED
  BY <1>1, <1>2, <1>3, <1>4, <1>5 DEF IInv

\* A chat that comes in gets a number nobody has had.
LEMMA AskStep ==
    ASSUME IInv, NEW c \in Chatters, NEW p \in Prompts, Ask(c, p)
    PROVE  IInv'
<1>1. /\ Typed /\ NumberInv /\ OnlyTokensSent /\ ShowsOwn
      /\ \A d \in Chatters : PrepareInv(d) /\ TalkInv(d)
  BY DEF IInv
<1>2. Len(p.spans) \in Nat /\ p.verdict \in {"allow", "redact", "block"}
      /\ (p.verdict = "allow" => Len(p.spans) = 0)
  BY Spans, ChatAssumption
<1>3. /\ pc[c] = "idle" /\ id[c] = 0
      /\ pc' = [pc EXCEPT ![c] = CASE p.verdict = "block" -> "blocked"
                                   [] p.verdict = "redact" -> "mint"
                                   [] OTHER -> "guard"]
      /\ chats' = chats + 1 /\ chats \in Nat
      /\ id' = [id EXCEPT ![c] = chats + 1]
      /\ via' = [via EXCEPT ![c] = gateway]
      /\ prompt' = [prompt EXCEPT ![c] = p]
      /\ left' = [left EXCEPT ![c] = Len(p.spans)]
      /\ gateway' = gateway /\ rows' = rows /\ minted' = minted /\ mapping' = mapping
      /\ raw' = raw /\ sent' = sent /\ last' = last
  BY <1>1 DEF Ask, Go, Typed, NumberInv
<1>4. Typed'
  BY <1>1, <1>2, <1>3 DEF Typed
<1>5. NumberInv'
  <2>1. \A d \in Chatters : id'[d] = IF d = c THEN chats + 1 ELSE id[d]
    BY <1>1, <1>3 DEF Typed
  <2>2. pc'[c] # "idle" /\ \A d \in Chatters \ {c} : pc'[d] = pc[d]
    BY <1>1, <1>2, <1>3 DEF Typed
  <2>3. \A d \in Chatters : id[d] <= chats /\ id[d] \in Nat
    BY <1>1 DEF NumberInv, Typed
  <2>4. \A d \in Chatters : id'[d] <= chats' /\ (pc'[d] = "idle" <=> id'[d] = 0)
    BY <1>1, <1>3, <2>1, <2>2, <2>3 DEF NumberInv
  <2>5. \A d, e \in Chatters : id'[d] = id'[e] /\ id'[d] # 0 => d = e
    BY <1>1, <1>3, <2>1, <2>3 DEF NumberInv
  <2>6. \A s \in sent' : s.id \in 1..chats'
    BY <1>1, <1>3 DEF NumberInv
  <2> QED
    BY <2>4, <2>5, <2>6 DEF NumberInv
<1>6. ASSUME NEW d \in Chatters PROVE PrepareInv(d)' /\ TalkInv(d)'
  <2>1. CASE d = c
    <3>1. /\ pc'[c] = CASE p.verdict = "block" -> "blocked"
                        [] p.verdict = "redact" -> "mint"
                        [] OTHER -> "guard"
          /\ id'[c] = chats + 1 /\ prompt'[c] = p /\ left'[c] = Len(p.spans)
          /\ minted'[c] = minted[c] /\ raw'[c] = raw[c]
      BY <1>1, <1>3 DEF Typed
    <3>2. minted[c] = {}
      BY <1>1, <1>3 DEF PrepareInv
    <3>3. \A k \in 1..(Len(p.spans) - Len(p.spans)) : FALSE
      BY <1>2
    <3>4. PrepareInv(c)'
      BY <1>2, <3>1, <3>2, <3>3 DEF PrepareInv, Covered
    <3>5. \A s \in sent : s.id # chats + 1
      BY <1>1, <1>3 DEF NumberInv
    <3>6. TalkInv(c)'
      BY <1>1, <1>3, <3>1, <3>5 DEF TalkInv
    <3> QED
      BY <2>1, <3>4, <3>6
  <2>2. CASE d # c
    <3>1. /\ pc'[d] = pc[d] /\ id'[d] = id[d] /\ prompt'[d] = prompt[d]
          /\ left'[d] = left[d]
      BY <1>1, <1>3, <2>2 DEF Typed
    <3> QED
      BY <1>1, <1>3, <3>1, Others
  <2> QED
    BY <2>1, <2>2
<1>7. OnlyTokensSent' /\ ShowsOwn'
  BY <1>1, <1>3 DEF OnlyTokensSent, ShowsOwn
<1> QED
  BY <1>4, <1>5, <1>6, <1>7 DEF IInv

\* A token for the next span: its row is in the vault, and one span less is left.
LEMMA MintStep ==
    ASSUME IInv, NEW c \in Chatters, Mint(c)
    PROVE  IInv'
<1> DEFINE n == Len(prompt[c].spans)
           value == prompt[c].spans[n - left[c] + 1]
<1>1. /\ Typed /\ NumberInv /\ OnlyTokensSent /\ ShowsOwn
      /\ \A d \in Chatters : PrepareInv(d) /\ TalkInv(d)
  BY DEF IInv
<1>2. /\ prompt[c] \in Prompts \union {NoPrompt} /\ left[c] \in Nat /\ id[c] \in Nat
      /\ via[c] \in Nat /\ minted[c] \subseteq Rows /\ rows \subseteq Rows
      /\ pc[c] = "mint" /\ left[c] > 0 /\ left[c] <= n
  BY <1>1 DEF Mint, Typed, PrepareInv
<1>3. prompt[c].spans \in Seq(STRING) /\ n \in Nat
  BY <1>2, Spans
<1>4. n - left[c] + 1 \in 1..n /\ left[c] - 1 \in Nat
  BY <1>2, <1>3
<1>5. value \in STRING
  BY <1>3, <1>4
<1>6. Row(c) \in Rows /\ Row(c).id = id[c] /\ Row(c).value = value
  BY <1>2, <1>5 DEF Row, Rows
<1> HIDE DEF value
<1>7. /\ rows' = rows \union {Row(c)}
      /\ minted' = [minted EXCEPT ![c] = minted[c] \union {Row(c)}]
      /\ left' = [left EXCEPT ![c] = left[c] - 1]
      /\ gateway' = gateway /\ chats' = chats /\ pc' = pc /\ via' = via /\ id' = id
      /\ prompt' = prompt /\ mapping' = mapping /\ raw' = raw /\ sent' = sent /\ last' = last
  BY DEF Mint
<1>8. Typed'
  BY <1>1, <1>2, <1>4, <1>6, <1>7 DEF Typed
<1>9. NumberInv'
  BY <1>1, <1>7 DEF NumberInv
<1>10. ASSUME NEW d \in Chatters PROVE PrepareInv(d)' /\ TalkInv(d)'
  <2>1. CASE d = c
    <3>1. minted'[c] = minted[c] \union {Row(c)} /\ left'[c] = left[c] - 1
      BY <1>1, <1>7 DEF Typed
    <3>2. PrepareInv(c) /\ TalkInv(c) /\ Covered(c) /\ prompt[c].verdict # "block"
      BY <1>1, <1>2 DEF PrepareInv
    <3>3. Covered(c)'
      <4>1. ASSUME NEW i \in 1..(n - (left[c] - 1))
            PROVE  \E tk \in minted'[c] : tk.value = prompt[c].spans[i]
        <5>1. CASE i \in 1..(n - left[c])
          BY <3>1, <3>2, <5>1 DEF Covered
        <5>2. CASE i = n - left[c] + 1
          BY <1>6, <3>1, <5>2 DEF value
        <5>3. i \in 1..(n - left[c]) \/ i = n - left[c] + 1
          BY <1>2, <1>3
        <5> QED
          BY <5>1, <5>2, <5>3
      <4> QED
        BY <1>7, <3>1, <4>1 DEF Covered
    <3>4. PrepareInv(c)'
      BY <1>2, <1>3, <1>6, <1>7, <3>1, <3>2, <3>3 DEF PrepareInv
    <3>5. TalkInv(c)'
      BY <1>2, <1>7, <3>2 DEF TalkInv
    <3> QED
      BY <2>1, <3>4, <3>5
  <2>2. CASE d # c
    <3>1. left'[d] = left[d] /\ minted'[d] = minted[d]
      BY <1>1, <1>7, <2>2 DEF Typed
    <3> QED
      BY <1>1, <1>7, <3>1, Others
  <2> QED
    BY <2>1, <2>2
<1>11. OnlyTokensSent' /\ ShowsOwn'
  BY <1>1, <1>7 DEF OnlyTokensSent, ShowsOwn
<1> QED
  BY <1>8, <1>9, <1>10, <1>11 DEF IInv

\* The steps of a chat's own that send nothing: what it owes to the rest is unchanged.
LEMMA OwnStep ==
    ASSUME IInv, NEW c \in Chatters,
           UNCHANGED <<shared, via, id, prompt, left, raw, sent, last>>,
           pc' = [pc EXCEPT ![c] = pc'[c]], pc'[c] \in {"mint", "guard", "send", "blocked"},
           pc[c] \in {"mint", "guard"},
           minted' = [minted EXCEPT ![c] = minted'[c]], minted'[c] \subseteq Rows,
           mapping' = [mapping EXCEPT ![c] = mapping'[c]], mapping'[c] \subseteq Rows,
           PrepareInv(c)'
    PROVE  IInv'
<1>1. /\ Typed /\ NumberInv /\ OnlyTokensSent /\ ShowsOwn
      /\ \A d \in Chatters : PrepareInv(d) /\ TalkInv(d)
  BY DEF IInv
<1>2. Typed'
  <2>1. pc' \in [Chatters -> {"idle", "mint", "guard", "send", "read", "blocked"}]
    <3>1. /\ pc \in [Chatters -> {"idle", "mint", "guard", "send", "read", "blocked"}]
          /\ pc'[c] \in {"idle", "mint", "guard", "send", "read", "blocked"}
      BY <1>1 DEF Typed
    <3> QED
      BY <3>1
  <2>2. minted' \in [Chatters -> SUBSET Rows] /\ mapping' \in [Chatters -> SUBSET Rows]
    <3>1. minted \in [Chatters -> SUBSET Rows] /\ mapping \in [Chatters -> SUBSET Rows]
      BY <1>1 DEF Typed
    <3> QED
      BY <3>1
  <2> QED
    BY <1>1, <2>1, <2>2 DEF Typed, shared
<1>3. \A d \in Chatters : d # c => /\ pc'[d] = pc[d] /\ minted'[d] = minted[d]
                                   /\ mapping'[d] = mapping[d]
  BY <1>1 DEF Typed
<1>4. NumberInv'
  BY <1>1, <1>3 DEF NumberInv, shared
<1>5. ASSUME NEW d \in Chatters PROVE PrepareInv(d)' /\ TalkInv(d)'
  <2>1. CASE d = c
    BY <1>1, <2>1 DEF TalkInv
  <2>2. CASE d # c
    BY <1>1, <1>3, <2>2, Others DEF shared
  <2> QED
    BY <2>1, <2>2
<1>6. OnlyTokensSent' /\ ShowsOwn'
  BY <1>1 DEF OnlyTokensSent, ShowsOwn
<1> QED
  BY <1>2, <1>4, <1>5, <1>6 DEF IInv

\* The rest of the preparation: a full vault, the last token, and the guard, which
\* reads the values back while the rows are in the vault.
LEMMA PrepareStep ==
    ASSUME IInv, NEW c \in Chatters, MintFails(c) \/ MintedAll(c) \/ Guard(c)
    PROVE  IInv'
<1>1. /\ Typed /\ PrepareInv(c) /\ minted[c] \subseteq Rows /\ mapping[c] \subseteq Rows
  BY DEF IInv, Typed
<1>2. CASE MintFails(c)
  <2>1. /\ pc[c] = "mint" /\ pc' = [pc EXCEPT ![c] = "blocked"] /\ pc'[c] = "blocked"
        /\ minted' = [minted EXCEPT ![c] = {}] /\ minted'[c] = {}
        /\ mapping' = mapping
        /\ UNCHANGED <<shared, via, id, prompt, left, raw, sent, last>>
    BY <1>1, <1>2 DEF MintFails, Typed
  <2>2. PrepareInv(c)'
    BY <1>1, <2>1 DEF PrepareInv
  <2>3. mapping' = [mapping EXCEPT ![c] = mapping'[c]]
    BY <1>1, <2>1 DEF Typed
  <2> QED
    BY <1>1, <2>1, <2>2, <2>3, OwnStep
<1>3. CASE MintedAll(c)
  <2>1. /\ pc[c] = "mint" /\ pc' = [pc EXCEPT ![c] = "guard"] /\ pc'[c] = "guard"
        /\ minted' = minted /\ mapping' = mapping /\ left[c] = 0
        /\ UNCHANGED <<shared, via, id, prompt, left, raw, sent, last>>
    BY <1>1, <1>3 DEF MintedAll, Go, Typed
  <2>2. PrepareInv(c)'
    BY <1>1, <2>1 DEF PrepareInv, Covered, shared
  <2>3. /\ mapping' = [mapping EXCEPT ![c] = mapping'[c]]
        /\ minted' = [minted EXCEPT ![c] = minted'[c]]
    BY <1>1, <2>1 DEF Typed
  <2> QED
    BY <1>1, <2>1, <2>2, <2>3, OwnStep
<1>4. CASE Guard(c)
  <2> DEFINE to == IF prompt[c].inject THEN "blocked" ELSE "send"
  <2>1. /\ pc[c] = "guard" /\ pc' = [pc EXCEPT ![c] = to] /\ pc'[c] = to
        /\ minted' = minted
        /\ mapping' = [mapping EXCEPT ![c] = LookUp(c)] /\ mapping'[c] = LookUp(c)
        /\ UNCHANGED <<shared, via, id, prompt, left, raw, sent, last>>
    BY <1>1, <1>4 DEF Guard, Go, Typed
  <2>2. LookUp(c) = minted[c]
    BY <1>1, <2>1 DEF LookUp, PrepareInv
  <2>3. PrepareInv(c)'
    BY <1>1, <2>1, <2>2 DEF PrepareInv, Covered, shared
  <2>4. minted' = [minted EXCEPT ![c] = minted'[c]]
    BY <1>1, <2>1 DEF Typed
  <2> QED
    BY <1>1, <2>1, <2>2, <2>3, <2>4, OwnStep
<1> QED
  BY <1>2, <1>3, <1>4

\* What is sent has a token for every span, and a number nobody has sent with before.
LEMMA SendStep ==
    ASSUME IInv, NEW c \in Chatters, Send(c)
    PROVE  IInv'
<1> DEFINE s0 == [id |-> id[c], prompt |-> prompt[c], tokens |-> minted[c],
                  plain |-> Values(prompt[c]) \ {tk.value : tk \in minted[c]}]
<1>1. /\ Typed /\ NumberInv /\ OnlyTokensSent /\ ShowsOwn
      /\ \A d \in Chatters : PrepareInv(d) /\ TalkInv(d)
  BY DEF IInv
<1>2. /\ pc[c] = "send" /\ pc' = [pc EXCEPT ![c] = "read"]
      /\ sent' = sent \union {s0}
      /\ UNCHANGED <<shared, via, id, prompt, left, minted, mapping, raw, last>>
  BY DEF Send, Go
<1>3. /\ prompt[c] \in Prompts /\ minted[c] \subseteq Rows /\ left[c] = 0
      /\ id[c] \in 1..chats /\ Covered(c) /\ prompt[c].verdict # "block"
      /\ ~prompt[c].inject /\ mapping[c] = minted[c]
      /\ \A tk \in minted[c] : tk.id = id[c]
  BY <1>1, <1>2 DEF Typed, NumberInv, PrepareInv
<1>4. /\ prompt[c].spans \in Seq(STRING) /\ Len(prompt[c].spans) \in Nat
      /\ DOMAIN prompt[c].spans = 1..Len(prompt[c].spans)
  BY <1>3, Spans
<1>5. Values(prompt[c]) \subseteq {tk.value : tk \in minted[c]}
  BY <1>3, <1>4 DEF Values, Covered
<1>6. /\ s0.id = id[c] /\ s0.prompt = prompt[c] /\ s0.tokens = minted[c] /\ s0.plain = {}
  BY <1>5
<1>7. s0 \in Requests
  BY <1>1, <1>3, <1>5 DEF Requests, Typed
<1> HIDE DEF s0
<1>8. pc'[c] = "read" /\ \A d \in Chatters : d # c => pc'[d] = pc[d]
  BY <1>1, <1>2 DEF Typed
<1>9. Typed'
  BY <1>1, <1>2, <1>7 DEF Typed, shared
<1>10. NumberInv'
  BY <1>1, <1>2, <1>3, <1>6, <1>8 DEF NumberInv, shared
<1>11. ASSUME NEW d \in Chatters PROVE PrepareInv(d)' /\ TalkInv(d)'
  <2>1. CASE d = c
    <3>1. PrepareInv(c) /\ TalkInv(c)
      BY <1>1
    <3>2. PrepareInv(c)'
      BY <1>2, <1>3, <1>8, <3>1 DEF PrepareInv
    <3>3. TalkInv(c)'
      BY <1>2, <1>3, <1>6, <1>8, <3>1 DEF TalkInv
    <3> QED
      BY <2>1, <3>2, <3>3
  <2>2. CASE d # c
    <3>1. s0.id # id[d]
      BY <1>1, <1>3, <1>6, <2>2 DEF NumberInv
    <3> QED
      BY <1>1, <1>2, <1>8, <2>2, <3>1, Others DEF shared
  <2> QED
    BY <2>1, <2>2
<1>12. OnlyTokensSent'
  BY <1>1, <1>2, <1>3, <1>6 DEF OnlyTokensSent
<1>13. ShowsOwn'
  BY <1>1, <1>2 DEF ShowsOwn
<1> QED
  BY <1>9, <1>10, <1>11, <1>12, <1>13 DEF IInv

\* A delta adds a part of a token that has been sent.
LEMMA ReadStep ==
    ASSUME IInv, NEW c \in Chatters, Read(c)
    PROVE  IInv'
<1>1. /\ Typed /\ NumberInv /\ OnlyTokensSent /\ ShowsOwn
      /\ \A d \in Chatters : PrepareInv(d) /\ TalkInv(d)
  BY DEF IInv
<1>2. PICK tk \in UNION {s.tokens : s \in sent}, part \in {"whole", "head", "tail"} :
         raw' = [raw EXCEPT ![c] = Append(raw[c], [token |-> tk, part |-> part])]
  BY DEF Read
<1>request. PICK s \in sent : tk \in s.tokens
  BY <1>2
<1>3. UNCHANGED <<shared, pc, via, id, prompt, left, minted, mapping, sent, last>>
  BY DEF Read
<1> DEFINE p == [token |-> tk, part |-> part]
<1>4. s.tokens \subseteq Rows
  BY <1>1 DEF Typed, Requests
<1>5. p \in Parts /\ p.token = tk
  BY <1>request, <1>4 DEF Parts
<1> HIDE DEF p
<1>6. raw[c] \in Seq(Parts) /\ raw' = [raw EXCEPT ![c] = Append(raw[c], p)]
  BY <1>1, <1>2 DEF Typed, p
<1>7. /\ Append(raw[c], p) \in Seq(Parts)
      /\ \A k \in DOMAIN Append(raw[c], p) :
            (k \in DOMAIN raw[c] /\ Append(raw[c], p)[k] = raw[c][k]) \/ Append(raw[c], p)[k] = p
  BY <1>5, <1>6
<1>8. Typed'
  BY <1>1, <1>3, <1>6, <1>7 DEF Typed, shared
<1>9. NumberInv'
  BY <1>1, <1>3 DEF NumberInv, shared
<1>10. ASSUME NEW d \in Chatters PROVE PrepareInv(d)' /\ TalkInv(d)'
  <2>1. CASE d = c
    <3>1. raw'[c] = Append(raw[c], p)
      BY <1>1, <1>6 DEF Typed
    <3>2. PrepareInv(c)'
      BY <1>1, <1>3 DEF PrepareInv, Covered, shared
    <3>3. TalkInv(c)'
      BY <1>request, <1>1, <1>3, <1>5, <1>7, <3>1 DEF TalkInv
    <3> QED
      BY <2>1, <3>2, <3>3
  <2>2. CASE d # c
    <3>1. raw'[d] = raw[d]
      BY <1>1, <1>6, <2>2 DEF Typed
    <3> QED
      BY <1>1, <1>3, <3>1, Others DEF shared
  <2> QED
    BY <2>1, <2>2
<1>11. OnlyTokensSent' /\ ShowsOwn'
  BY <1>1, <1>3 DEF OnlyTokensSent, ShowsOwn
<1> QED
  BY <1>8, <1>9, <1>10, <1>11 DEF IInv

\* The end of a chat: what it shows is restored with its own tokens.
LEMMA FinishStep ==
    ASSUME IInv, NEW c \in Chatters, NEW how, Finish(c, how), pc[c] # "idle",
           how = "done" => pc[c] = "read"
    PROVE  IInv'
<1>1. /\ Typed /\ NumberInv /\ OnlyTokensSent /\ ShowsOwn
      /\ \A d \in Chatters : PrepareInv(d) /\ TalkInv(d)
  BY DEF IInv
<1>2. /\ pc' = [pc EXCEPT ![c] = "idle"] /\ via' = [via EXCEPT ![c] = 0]
      /\ id' = [id EXCEPT ![c] = 0] /\ prompt' = [prompt EXCEPT ![c] = NoPrompt]
      /\ left' = [left EXCEPT ![c] = 0] /\ minted' = [minted EXCEPT ![c] = {}]
      /\ mapping' = [mapping EXCEPT ![c] = {}] /\ raw' = [raw EXCEPT ![c] = <<>>]
      /\ UNCHANGED <<shared, sent>>
      /\ last' = IF how = "done" THEN [how |-> how, id |-> id[c], raw |-> raw[c],
                                       shown |-> Restore(raw[c], mapping[c])]
                 ELSE [NoAnswer EXCEPT !.how = how]
  BY DEF Finish
<1>3. Typed'
  BY <1>1, <1>2 DEF Typed, shared
<1>4. /\ pc'[c] = "idle" /\ id'[c] = 0 /\ prompt'[c] = NoPrompt /\ left'[c] = 0
      /\ minted'[c] = {} /\ mapping'[c] = {} /\ raw'[c] = <<>>
      /\ \A d \in Chatters : d # c =>
            /\ pc'[d] = pc[d] /\ id'[d] = id[d] /\ prompt'[d] = prompt[d]
            /\ left'[d] = left[d] /\ minted'[d] = minted[d] /\ mapping'[d] = mapping[d]
            /\ raw'[d] = raw[d]
  BY <1>1, <1>2 DEF Typed
<1>5. NumberInv'
  <2>1. chats \in Nat /\ \A d \in Chatters : id[d] <= chats
    BY <1>1 DEF NumberInv, Typed
  <2>2. \A d \in Chatters : id'[d] <= chats' /\ (pc'[d] = "idle" <=> id'[d] = 0)
    BY <1>1, <1>2, <1>4, <2>1 DEF NumberInv, shared
  <2>3. \A d, e \in Chatters : id'[d] = id'[e] /\ id'[d] # 0 => d = e
    BY <1>1, <1>4 DEF NumberInv
  <2> QED
    BY <1>1, <1>2, <2>2, <2>3 DEF NumberInv, shared
<1>6. ASSUME NEW d \in Chatters PROVE PrepareInv(d)' /\ TalkInv(d)'
  <2>1. CASE d = c
    <3>1. NoPrompt.spans = <<>>
      BY DEF NoPrompt
    <3>2. PrepareInv(c)'
      BY <1>4, <3>1 DEF PrepareInv
    <3>3. \A s \in sent : s.id # 0
      BY <1>1 DEF NumberInv
    <3>4. TalkInv(c)'
      BY <1>2, <1>4, <3>3 DEF TalkInv
    <3> QED
      BY <2>1, <3>2, <3>4
  <2>2. CASE d # c
    BY <1>1, <1>2, <1>4, <2>2, Others DEF shared
  <2> QED
    BY <2>1, <2>2
<1>7. OnlyTokensSent'
  BY <1>1, <1>2 DEF OnlyTokensSent
<1>8. ShowsOwn'
  <2>1. CASE how = "done"
    <3>1. mapping[c] = minted[c] /\ \A tk \in minted[c] : tk.id = id[c]
      BY <1>1, <2>1 DEF PrepareInv
    <3>2. raw[c] \in Seq(Parts)
      BY <1>1 DEF Typed
    <3>3. ASSUME NEW x \in Tokens(raw[c]), x.id = id[c]
          PROVE  x \in minted[c]
      <4>1. PICK k \in DOMAIN raw[c] : raw[c][k].token = x
        BY <3>2, TokensAreParts
      <4>2. PICK s \in sent : x \in s.tokens
        BY <1>1, <4>1 DEF TalkInv
      <4>3. s.id = id[c]
        BY <1>1, <3>3, <4>2 DEF OnlyTokensSent
      <4> QED
        BY <1>1, <4>2, <4>3 DEF TalkInv
    <3>4. Tokens(raw[c]) \intersect mapping[c] = {x \in Tokens(raw[c]) : x.id = id[c]}
      BY <3>1, <3>3
    <3>5. Tokens(raw[c]) \ mapping[c] = {x \in Tokens(raw[c]) : x.id # id[c]}
      BY <3>1, <3>3
    <3>6. /\ last'.raw = raw[c] /\ last'.id = id[c]
          /\ last'.shown = [values |-> {tk.value : tk \in Tokens(raw[c]) \intersect mapping[c]},
                            tokens |-> Tokens(raw[c]) \ mapping[c]]
      BY <1>2, <2>1 DEF Restore
    <3> QED
      BY <3>4, <3>5, <3>6 DEF ShowsOwn
  <2>2. CASE how # "done"
    <3>1. last'.raw = <<>> /\ last'.shown = [values |-> {}, tokens |-> {}]
      BY <1>2, <2>2 DEF NoAnswer
    <3> QED
      BY <3>1, NothingShown DEF ShowsOwn
  <2> QED
    BY <2>1, <2>2
<1> QED
  BY <1>3, <1>5, <1>6, <1>7, <1>8 DEF IInv

\* Rows expire only when no chat is being prepared with them, and another gateway
\* looks new chats up in another vault.
LEMMA OutsideStep ==
    ASSUME IInv, (\E tk \in rows : Expire(tk)) \/ SaveSettings
    PROVE  IInv'
<1>1. /\ Typed /\ NumberInv /\ OnlyTokensSent /\ ShowsOwn
      /\ \A d \in Chatters : PrepareInv(d) /\ TalkInv(d)
  BY DEF IInv
<1>2. /\ rows' \subseteq rows /\ gateway' \in Nat
      /\ UNCHANGED <<chats, local, sent, last>>
      /\ \A d \in Chatters : pc[d] \in {"mint", "guard"} =>
            \A x \in rows \ rows' : x.id # id[d]
  BY <1>1 DEF Expire, SaveSettings, Typed
<1>3. Typed'
  BY <1>1, <1>2 DEF Typed, local
<1>4. NumberInv'
  BY <1>1, <1>2 DEF NumberInv, local
<1>5. ASSUME NEW d \in Chatters PROVE PrepareInv(d)' /\ TalkInv(d)'
  <2>1. pc[d] \in {"mint", "guard"} => minted[d] \intersect rows \subseteq rows'
    BY <1>1, <1>2 DEF PrepareInv
  <2> QED
    BY <1>1, <1>2, <2>1, Others DEF local
<1>6. OnlyTokensSent' /\ ShowsOwn'
  BY <1>1, <1>2 DEF OnlyTokensSent, ShowsOwn
<1> QED
  BY <1>3, <1>4, <1>5, <1>6 DEF IInv

\* Every step keeps the invariant.
LEMMA Inductive == IInv /\ [Next]_vars => IInv'
<1> SUFFICES ASSUME IInv, [Next]_vars PROVE IInv'
  OBVIOUS
<1>1. ASSUME NEW c \in Chatters, NEW p \in Prompts, Ask(c, p) PROVE IInv'
  BY <1>1, AskStep
<1>2. ASSUME NEW c \in Chatters, Prepare(c) PROVE IInv'
  BY <1>2, MintStep, PrepareStep DEF Prepare
<1>3. ASSUME NEW c \in Chatters, Talk(c) PROVE IInv'
  <2>1. CASE AnswerBlocked(c)
    BY <2>1, FinishStep DEF AnswerBlocked
  <2>2. CASE Send(c)
    BY <2>2, SendStep
  <2>3. CASE Read(c)
    BY <2>3, ReadStep
  <2>4. CASE Done(c)
    BY <2>4, FinishStep DEF Done
  <2>5. CASE Broken(c)
    BY <2>5, FinishStep DEF Broken
  <2>6. CASE CutShort(c)
    BY <2>6, FinishStep DEF CutShort
  <2> QED
    BY <1>3, <2>1, <2>2, <2>3, <2>4, <2>5, <2>6 DEF Talk
<1>4. CASE (\E tk \in rows : Expire(tk)) \/ SaveSettings
  BY <1>4, OutsideStep
<1>5. CASE UNCHANGED vars
  <2>1. Typed' /\ NumberInv'
    BY <1>5 DEF IInv, Typed, NumberInv, vars, shared, local
  <2>2. ASSUME NEW d \in Chatters PROVE PrepareInv(d)' /\ TalkInv(d)'
    BY <1>5, Others DEF IInv, vars, shared, local
  <2>3. OnlyTokensSent' /\ ShowsOwn'
    BY <1>5 DEF IInv, OnlyTokensSent, ShowsOwn, vars
  <2> QED
    BY <2>1, <2>2, <2>3 DEF IInv
<1> QED
  BY <1>1, <1>2, <1>3, <1>4, <1>5 DEF Next

--------------------------------------------------------------------------------
(* LocalChat: the theorems.                                                    *)

\* The inductive invariant: types, numbers nobody else has, a token for every span
\* replaced, rows that stay while a chat is prepared, and requests that carry exactly
\* the tokens of the chat whose number they have.
THEOREM Invariant == Spec => []IInv
<1>1. Init => IInv
  BY Starts
<1>2. IInv /\ [Next]_vars => IInv'
  BY Inductive
<1> QED
  BY <1>1, <1>2, PTL DEF Spec

\* No sensitive value and no blocked prompt reaches a model server, whatever the size of
\* the vault, the number of chats at a time and the order in which they run.
THEOREM OnlyTokensSentHolds == Spec => []OnlyTokensSent
<1>1. IInv => OnlyTokensSent
  BY DEF IInv
<1> QED
  BY <1>1, Invariant, PTL

\* What a chat shows is the model's text with the chat's own tokens restored, and no
\* others, although the vault loses rows and the gateway changes while it is written.
THEOREM ShowsOwnHolds == Spec => []ShowsOwn
<1>1. IInv => ShowsOwn
  BY DEF IInv
<1> QED
  BY <1>1, Invariant, PTL

--------------------------------------------------------------------------------
(* LlamaRuntime: the inductive invariant.                                      *)

\* No two threads are at work on the runtime.
Alone == \A t, u \in Threads : Inside(t) /\ Inside(u) => t = u

\* Where a thread starts a server the runtime holds none; where it ends one the runtime
\* holds that one, and has told it to end before it forgets it.
HeldInv(t) == /\ step[t] \in {"start", "spawn"} => _proc = 0
              /\ step[t] \in {"end", "await", "forget"} => _proc # 0
              /\ step[t] = "await" => held[t] = _proc /\ servers[_proc].told
              /\ step[t] = "forget" => Gone(_proc) \/ servers[_proc].told

\* Every server that is wanted is the one the runtime holds.
NoneLeft == \A p \in DOMAIN servers : ~Gone(p) /\ ~servers[p].told => p = _proc

OwnInv == "overlap" \notin odd => Alone /\ NoneLeft /\ \A t \in Threads : HeldInv(t)

\* The gateway process of a frozen launcher is told to end before the launcher leaves.
ChildInv == child = "running" => step["main"] = "up"

\* As long as nothing odd happens, the only server there is is the one the runtime
\* holds, it has the active model, and it has ended before the runtime forgets it.
PortInv == odd = {} => /\ ~foreign
                       /\ \A p \in DOMAIN servers : ~Gone(p) => p = _proc
                       /\ \A t \in Threads : step[t] = "forget" => Gone(_proc)
                       /\ _proc # 0 => servers[_proc].model = _active

RuntimeInv == TypeOK /\ OwnInv /\ ChildInv /\ PortInv /\ ServedAsTold

\* The invariant holds at the start.
LEMMA RuntimeStarts == RuntimeInit => RuntimeInv
<1> SUFFICES ASSUME RuntimeInit PROVE RuntimeInv
  OBVIOUS
<1>0. /\ \A t \in Threads : step[t] = IF t = "main" THEN "start" ELSE "idle"
      /\ servers = <<>> /\ DOMAIN servers = {} /\ _proc = 0
  BY DEF RuntimeInit
<1>1. TypeOK
  <2>1. servers \in Seq(Servers)
    BY <1>0
  <2>2. Len(servers) = 0 /\ BootModel \in Models /\ mode \in {"console", "tray", "exe"}
    BY <1>0, RuntimeAssumption DEF RuntimeInit
  <2>3. model \in [Threads -> Models] /\ held \in [Threads -> 0..Len(servers)]
    BY <2>2 DEF RuntimeInit
  <2>4. step \in [Threads -> {"idle", "stop", "end", "await", "forget", "start", "spawn", "wait",
                            "serve", "up", "exited"}]
    BY DEF RuntimeInit
  <2>5. foreign \in BOOLEAN /\ handed \in BOOLEAN
    BY Zenon DEF RuntimeInit
  <2>6. _proc \in 0..Len(servers)
    BY <1>0, <2>2
  <2>7. /\ _active \in Models \union {"none"}
        /\ child \in {"none", "running", "gone"}
        /\ odd \subseteq {"overlap", "port"}
    BY DEF RuntimeInit
  <2> QED
    BY <2>1, <2>2, <2>3, <2>4, <2>5, <2>6, <2>7 DEF TypeOK
<1>2. Alone /\ NoneLeft /\ \A t \in Threads : HeldInv(t)
  BY <1>0 DEF Alone, Inside, NoneLeft, HeldInv
<1>3. ChildInv /\ PortInv /\ ServedAsTold
  BY <1>0 DEF RuntimeInit, ChildInv, PortInv, ServedAsTold
<1> QED
  BY <1>1, <1>2, <1>3 DEF RuntimeInv, OwnInv

\* A place where the runtime holds a server is the place of one.
LEMMA HeldPlace ==
    ASSUME TypeOK, _proc # 0
    PROVE  _proc \in DOMAIN servers /\ servers[_proc].at \in {"loading", "serving", "gone"}
<1>1. _proc \in 1..Len(servers)
  BY DEF TypeOK
<1>2. DOMAIN servers = 1..Len(servers)
  BY DEF TypeOK
<1>3. servers[_proc] \in Servers
  <2>1. servers \in Seq(Servers)
    BY DEF TypeOK
  <2> QED
    BY <1>1, <2>1
<1> QED
  BY <1>1, <1>2, <1>3 DEF Servers

\* A thread at work on the runtime by itself need only see to its own.
LEMMA WorksAlone ==
    ASSUME OwnInv, NEW t \in Threads, Inside(t), odd \subseteq odd',
           \A u \in Threads \ {t} : step'[u] \in {step[u], "idle"},
           "overlap" \notin odd => HeldInv(t)' /\ NoneLeft'
    PROVE  OwnInv'
<1> SUFFICES ASSUME "overlap" \notin odd' PROVE (Alone /\ NoneLeft /\ \A u \in Threads : HeldInv(u))'
  BY DEF OwnInv
<1>1. Alone /\ "overlap" \notin odd
  BY DEF OwnInv
<1>2. ASSUME NEW u \in Threads \ {t} PROVE ~Inside(u)'
  BY <1>1, <1>2 DEF Alone, Inside
<1>3. Alone'
  BY <1>2 DEF Alone
<1>4. ASSUME NEW u \in Threads PROVE HeldInv(u)'
  BY <1>1, <1>2 DEF HeldInv, Inside
<1> QED
  BY <1>1, <1>3, <1>4

--------------------------------------------------------------------------------
(* LlamaRuntime: the steps.                                                    *)

\* A thread at work goes on, and leaves the servers and what the runtime says of them
\* as they are.
LEMMA Moves ==
    ASSUME RuntimeInv, NEW t \in Threads, Inside(t),
           NEW s \in {"idle", "stop", "end", "await", "forget", "start", "spawn", "wait", "serve",
                      "up", "exited"},
           step' = [step EXCEPT ![t] = s] \/ (t = "main" /\ Exit),
           UNCHANGED <<port, fields, mode, child, model, held>>,
           handed' \in BOOLEAN, odd' \in {odd, odd \union {"port"}}, ServedAsTold',
           "overlap" \notin odd => HeldInv(t)',
           odd' = {} /\ step'[t] = "forget" => Gone(_proc)
    PROVE  RuntimeInv'
<1> USE DEF RuntimeInv, port, fields
<1>1. /\ step' \in [Threads -> {"idle", "stop", "end", "await", "forget", "start", "spawn", "wait",
                                "serve", "up", "exited"}]
      /\ \A u \in Threads \ {t} : step'[u] \in {step[u], "idle"}
  BY DEF TypeOK, Exit
<1>2. TypeOK'
  BY <1>1 DEF TypeOK
<1>3. OwnInv'
  <2>1. "overlap" \notin odd => NoneLeft'
    BY DEF OwnInv, NoneLeft, Gone
  <2> QED
    BY <1>1, <2>1, WorksAlone
<1>4. ChildInv'
  BY DEF ChildInv, TypeOK, Inside, Threads
<1>5. PortInv'
  <2> SUFFICES ASSUME odd' = {} PROVE PortInv'
    BY DEF PortInv
  <2>1. odd = {}
    OBVIOUS
  <2>2. \A u \in Threads : step'[u] = "forget" => Gone(_proc)'
    BY <1>1, <2>1 DEF PortInv, Gone
  <2> QED
    BY <2>1, <2>2 DEF PortInv, Gone
<1> QED
  BY <1>2, <1>3, <1>4, <1>5

\* An exception, and the end of a stop, in the terms of the lemma above.
LEMMA Leaves ==
    ASSUME TypeOK, NEW t \in Threads, Fail(t)
    PROVE  /\ (\E s \in {"idle", "up"} : step' = [step EXCEPT ![t] = s]) \/ (t = "main" /\ Exit)
           /\ step'[t] \in {"idle", "up", "exited"}
  BY DEF Fail, Exit, TypeOK, Threads

\* A thread that has stopped the server goes on to start one, or exits.
LEMMA Restarts ==
    ASSUME TypeOK, NEW t \in Threads, Stopped(t)
    PROVE  /\ step' = [step EXCEPT ![t] = "start"] \/ (t = "main" /\ Exit)
           /\ step'[t] \in {"start", "exited"}
  BY DEF Stopped, Exit, TypeOK, Threads

\* Nothing that waits for a server changes it.
LEMMA WaitStep ==
    ASSUME RuntimeInv, NEW t \in Threads, Ready(t) \/ Died(t) \/ TimesOut(t)
    PROVE  RuntimeInv'
<1>1. PICK ready \in BOOLEAN : Waited(t, ready) /\ step[t] = "wait" /\ (ready => PortOpen)
  BY Zenon DEF Ready, Died, TimesOut
<1>2. PICK s \in {"serve", "idle"} : step' = [step EXCEPT ![t] = s] /\ step'[t] = s
  BY <1>1 DEF Waited, RuntimeInv, TypeOK
<1>3. handed' \in BOOLEAN
  BY <1>1 DEF Waited, RuntimeInv, TypeOK
<1>4. ServedAsTold'
  <2>1. CASE ready /\ odd = {}
    <3>1. PICK p \in DOMAIN servers : servers[p].at = "serving"
      BY <1>1, <2>1 DEF PortOpen, Listening, RuntimeInv, PortInv
    <3>2. p = _proc /\ _proc # 0
      BY <2>1, <3>1 DEF RuntimeInv, PortInv, Gone, TypeOK
    <3>3. Listening = {_proc}
      BY <2>1, <3>1, <3>2 DEF Listening, RuntimeInv, PortInv, Gone
    <3>4. Answering = {_active}
      BY <2>1, <3>2, <3>3 DEF Answering, RuntimeInv, PortInv
    <3>5. answers' = answers \union {[model |-> _active, by |-> {_active}]}
      BY <1>1, <2>1, <3>4 DEF Waited
    <3> QED
      BY <3>5 DEF RuntimeInv, ServedAsTold
  <2>2. CASE ~(ready /\ odd = {})
    BY <1>1, <2>2 DEF Waited, RuntimeInv, ServedAsTold
  <2> QED
    BY <2>1, <2>2
<1>5. UNCHANGED <<port, fields, mode, child, model, held, odd>> /\ Inside(t)
  BY <1>1 DEF Waited, Inside
<1>6. HeldInv(t)'
  BY <1>2 DEF HeldInv
<1> QED
  BY <1>2, <1>3, <1>4, <1>5, <1>6, Moves

\* The steps of a thread that change no server and no field of the runtime.
LEMMA QuietStep ==
    ASSUME RuntimeInv, NEW t \in Threads,
           \/ MustSpawn(t) \/ SpawnFails(t) \/ NothingToStop(t) \/ StopHeld(t) \/ HeldIsGone(t)
           \/ AlreadyDead(t) \/ Awaited(t) \/ Kill(t)
    PROVE  RuntimeInv'
<1>1. /\ UNCHANGED <<port, fields, mode, child, model, held>>
      /\ handed' \in BOOLEAN /\ odd' \in {odd, odd \union {"port"}} /\ ServedAsTold'
      /\ Inside(t) /\ step[t] \in {"start", "spawn", "stop", "end", "await"}
  BY DEF MustSpawn, SpawnFails, NothingToStop, StopHeld, HeldIsGone, AlreadyDead, Awaited, Kill,
         Goes, launcher, history, Inside, RuntimeInv, TypeOK, ServedAsTold
<1>2. TypeOK /\ ("overlap" \notin odd => HeldInv(t))
  BY DEF RuntimeInv, OwnInv
<1> USE DEF port, fields
<1>3. CASE MustSpawn(t)
  <2>1. step' = [step EXCEPT ![t] = "spawn"] /\ step[t] = "start" /\ step'[t] = "spawn"
    BY <1>2, <1>3 DEF MustSpawn, Goes, TypeOK
  <2>2. "overlap" \notin odd => HeldInv(t)'
    BY <1>1, <1>2, <2>1 DEF HeldInv
  <2> QED
    BY <1>1, <2>1, <2>2, Moves
<1>4. CASE SpawnFails(t) \/ HeldIsGone(t)
  <2>1. Fail(t)
    BY <1>4 DEF SpawnFails, HeldIsGone
  <2>2. HeldInv(t)' /\ step'[t] # "forget"
    BY <1>2, <2>1, Leaves DEF HeldInv
  <2> QED
    BY <1>1, <1>2, <2>1, <2>2, Leaves, Moves
<1>5. CASE NothingToStop(t)
  <2>1. Stopped(t) /\ _proc = 0
    BY <1>5 DEF NothingToStop
  <2>2. HeldInv(t)' /\ step'[t] # "forget"
    BY <1>1, <1>2, <2>1, Restarts DEF HeldInv
  <2> QED
    BY <1>1, <1>2, <2>1, <2>2, Restarts, Moves
<1>6. CASE StopHeld(t)
  <2>1. step' = [step EXCEPT ![t] = "end"] /\ step'[t] = "end" /\ _proc # 0
    BY <1>2, <1>6 DEF StopHeld, Goes, TypeOK
  <2>2. HeldInv(t)'
    BY <1>1, <2>1 DEF HeldInv
  <2> QED
    BY <1>1, <2>1, <2>2, Moves
<1>7. CASE AlreadyDead(t)
  <2>1. step' = [step EXCEPT ![t] = "forget"] /\ step'[t] = "forget" /\ _proc # 0 /\ Gone(_proc)
    BY <1>2, <1>7 DEF AlreadyDead, Goes, TypeOK
  <2>2. HeldInv(t)'
    BY <1>1, <2>1 DEF HeldInv, Gone
  <2> QED
    BY <1>1, <2>1, <2>2, Moves
<1>8. CASE Awaited(t) \/ Kill(t)
  <2>1. step' = [step EXCEPT ![t] = "forget"] /\ step[t] = "await" /\ step'[t] = "forget"
    BY <1>2, <1>8 DEF Awaited, Kill, Goes, TypeOK
  <2>2. "overlap" \notin odd => HeldInv(t)'
    BY <1>1, <1>2, <2>1 DEF HeldInv
  <2>3. odd' = {} => Gone(_proc)
    <3> SUFFICES ASSUME odd' = {} PROVE Gone(_proc)
      OBVIOUS
    <3>1. Awaited(t) /\ odd = {}
      BY <1>1, <1>8 DEF Kill
    <3> QED
      BY <1>2, <2>1, <3>1 DEF Awaited, HeldInv
  <2> QED
    BY <1>1, <2>1, <2>2, <2>3, Moves
<1> QED
  BY <1>3, <1>4, <1>5, <1>6, <1>7, <1>8

\* A server that is there already is taken for the runtime's.
LEMMA AdoptStep ==
    ASSUME RuntimeInv, NEW t \in Threads, Adopt(t)
    PROVE  RuntimeInv'
<1> USE DEF port, launcher, history, Adopt
<1>1. TypeOK /\ OwnInv /\ Inside(t) /\ _proc' = 0 /\ odd' = odd
  BY DEF RuntimeInv, Goes, Inside
<1>2. step' = [step EXCEPT ![t] = "wait"] /\ step[t] = "start" /\ step'[t] = "wait"
  BY <1>1 DEF Goes, TypeOK
<1>3. TypeOK'
  BY <1>1, <1>2 DEF TypeOK
<1>4. OwnInv'
  <2>1. HeldInv(t)' /\ ("overlap" \notin odd => NoneLeft')
    BY <1>1, <1>2 DEF HeldInv, OwnInv, NoneLeft, Gone
  <2> QED
    BY <1>1, <1>2, <2>1, WorksAlone
<1>5. ChildInv' /\ ServedAsTold'
  BY <1>2 DEF RuntimeInv, ChildInv, ServedAsTold, TypeOK, Threads
<1>6. PortInv'
  BY <1>1, <1>2 DEF RuntimeInv, PortInv, Gone
<1> QED
  BY <1>3, <1>4, <1>5, <1>6 DEF RuntimeInv

\* Popen: one more server, which the runtime holds.
LEMMA SpawnStep ==
    ASSUME RuntimeInv, NEW t \in Threads, Spawn(t)
    PROVE  RuntimeInv'
<1> DEFINE n == Len(servers) + 1
           s == [model |-> model[t], at |-> "loading", told |-> FALSE]
<1> USE DEF launcher, history
<1>1. TypeOK /\ OwnInv /\ Inside(t) /\ odd' = odd /\ servers \in Seq(Servers) /\ Len(servers) \in Nat
  BY DEF RuntimeInv, Spawn, Goes, Inside, TypeOK
<1>2. step' = [step EXCEPT ![t] = "wait"] /\ step[t] = "spawn" /\ step'[t] = "wait"
  BY <1>1 DEF Spawn, Goes, TypeOK
<1>3. s \in Servers /\ model[t] \in Models
  BY <1>1 DEF Servers, TypeOK
<1>4. /\ servers' = Append(servers, s) /\ servers' \in Seq(Servers) /\ Len(servers') = n
      /\ DOMAIN servers' = 1..n /\ servers'[n] = s
      /\ \A p \in DOMAIN servers' \ {n} : p \in DOMAIN servers /\ servers'[p] = servers[p]
      /\ _proc' = n /\ _active' = model[t]
  BY <1>1, <1>3 DEF Spawn
<1>5. TypeOK'
  <2>1. held' \in [Threads -> 0..Len(servers')]
    <3>1. 0..Len(servers) \subseteq 0..n
      BY <1>1
    <3> QED
      BY <1>1, <1>4, <3>1 DEF Spawn, TypeOK
  <2>2. _proc' \in 0..Len(servers')
    BY <1>1, <1>4
  <2>3. step' \in [Threads -> {"idle", "stop", "end", "await", "forget", "start", "spawn", "wait",
                            "serve", "up", "exited"}]
    BY <1>1, <1>2 DEF TypeOK
  <2> QED
    BY <1>1, <1>3, <1>4, <2>1, <2>2, <2>3 DEF Spawn, TypeOK
<1>6. OwnInv'
  <2>1. HeldInv(t)'
    BY <1>2 DEF HeldInv
  <2>2. ASSUME "overlap" \notin odd PROVE NoneLeft'
    <3>1. NoneLeft /\ _proc = 0
      BY <1>1, <1>2, <2>2 DEF OwnInv, HeldInv
    <3>2. ASSUME NEW p \in DOMAIN servers', ~Gone(p)', ~servers'[p].told, p # n PROVE FALSE
      <4>1. p \in DOMAIN servers /\ servers'[p] = servers[p] /\ p # 0
        BY <1>1, <1>4, <3>2
      <4> QED
        BY <3>1, <3>2, <4>1 DEF NoneLeft, Gone
    <3> QED
      BY <1>4, <3>2 DEF NoneLeft
  <2> QED
    BY <1>1, <1>2, <2>1, <2>2, WorksAlone
<1>7. ChildInv' /\ ServedAsTold'
  BY <1>2 DEF Spawn, RuntimeInv, ChildInv, ServedAsTold, TypeOK, Threads
<1>8. PortInv'
  <2> SUFFICES ASSUME odd = {} PROVE PortInv'
    BY <1>1 DEF PortInv
  <2>1. _proc = 0 /\ Alone
    BY <1>1, <1>2 DEF OwnInv, HeldInv
  <2>2. ASSUME NEW p \in DOMAIN servers', ~Gone(p)', p # n PROVE FALSE
    <3>1. p \in DOMAIN servers /\ servers'[p] = servers[p] /\ p # 0
      BY <1>1, <1>4, <2>2
    <3> QED
      BY <2>1, <2>2, <3>1 DEF RuntimeInv, PortInv, Gone
  <2>3. ~foreign'
    BY DEF Spawn, RuntimeInv, PortInv
  <2>4. \A u \in Threads : step'[u] # "forget"
    BY <1>1, <1>2, <2>1 DEF Alone, Inside, TypeOK
  <2>5. servers'[_proc'].model = _active'
    BY <1>4
  <2> QED
    BY <1>4, <2>2, <2>3, <2>4, <2>5 DEF PortInv
<1> QED
  BY <1>5, <1>6, <1>7, <1>8 DEF RuntimeInv

\* The server the runtime holds is told to end.
LEMMA TerminateStep ==
    ASSUME RuntimeInv, NEW t \in Threads, Terminate(t)
    PROVE  RuntimeInv'
<1> USE DEF fields, launcher, history, counts
<1>1. TypeOK /\ OwnInv /\ Inside(t) /\ odd' = odd /\ servers \in Seq(Servers)
  BY DEF RuntimeInv, Terminate, Goes, Inside, TypeOK
<1>2. step' = [step EXCEPT ![t] = "await"] /\ step[t] = "end" /\ step'[t] = "await"
  BY <1>1 DEF Terminate, Goes, TypeOK
<1>3. _proc \in DOMAIN servers /\ _proc # 0 /\ _proc' = _proc
  BY <1>1, HeldPlace DEF Terminate
<1>4. /\ servers' \in Seq(Servers) /\ DOMAIN servers' = DOMAIN servers /\ Len(servers') = Len(servers)
      /\ servers'[_proc].told
      /\ \A p \in DOMAIN servers : /\ servers'[p].at = servers[p].at
                                   /\ servers'[p].model = servers[p].model
                                   /\ servers[p].told => servers'[p].told
  <2>1. servers' = [servers EXCEPT ![_proc] = [servers[_proc] EXCEPT !.told = TRUE]]
    BY DEF Terminate
  <2>2. \A p \in DOMAIN servers : servers[p] \in Servers
    BY <1>1
  <2>3. [servers[_proc] EXCEPT !.told = TRUE] \in Servers
    BY <1>3, <2>2 DEF Servers
  <2>4. servers' \in Seq(Servers) /\ DOMAIN servers' = DOMAIN servers /\ Len(servers') = Len(servers)
    <3>1. servers \in [1..Len(servers) -> Servers] /\ Len(servers) \in Nat
      BY <1>1
    <3>2. servers' \in [1..Len(servers) -> Servers]
      BY <2>1, <2>3, <3>1
    <3> QED
      BY <3>1, <3>2
  <2>5. \A p \in DOMAIN servers : servers'[p] = IF p = _proc THEN [servers[p] EXCEPT !.told = TRUE]
                                                ELSE servers[p]
    BY <2>1
  <2> QED
    BY <1>3, <2>2, <2>4, <2>5 DEF Servers
<1>5. held' = [held EXCEPT ![t] = _proc] /\ held'[t] = _proc
  BY <1>1 DEF Terminate, TypeOK
<1>6. TypeOK'
  <2>1. step' \in [Threads -> {"idle", "stop", "end", "await", "forget", "start", "spawn", "wait",
                            "serve", "up", "exited"}]
    BY <1>1, <1>2 DEF TypeOK
  <2>2. held' \in [Threads -> 0..Len(servers')]
    BY <1>1, <1>4, <1>5 DEF TypeOK
  <2> QED
    BY <1>1, <1>4, <2>1, <2>2 DEF Terminate, TypeOK
<1>7. OwnInv'
  <2>1. HeldInv(t)'
    BY <1>2, <1>3, <1>4, <1>5 DEF HeldInv
  <2>2. "overlap" \notin odd => NoneLeft'
    BY <1>1, <1>3, <1>4 DEF OwnInv, NoneLeft, Gone
  <2> QED
    BY <1>1, <1>2, <2>1, <2>2, WorksAlone
<1>8. ChildInv' /\ ServedAsTold'
  BY <1>2 DEF Terminate, RuntimeInv, ChildInv, ServedAsTold, TypeOK, Threads
<1>9. PortInv'
  <2> SUFFICES ASSUME odd = {} PROVE PortInv'
    BY <1>1 DEF PortInv
  <2>1. \A u \in Threads : step'[u] # "forget"
    BY <1>1, <1>2 DEF OwnInv, Alone, Inside, TypeOK
  <2> QED
    BY <1>3, <1>4, <2>1 DEF Terminate, RuntimeInv, PortInv, Gone
<1> QED
  BY <1>6, <1>7, <1>8, <1>9 DEF RuntimeInv

\* The runtime holds no server any more: the one it held has ended, or will.
LEMMA ForgetStep ==
    ASSUME RuntimeInv, NEW t \in Threads, Forget(t)
    PROVE  RuntimeInv'
<1> USE DEF port, launcher, history, counts
<1>1. TypeOK /\ OwnInv /\ Inside(t) /\ odd' = odd /\ step[t] = "forget" /\ Stopped(t) /\ _proc' = 0
  BY DEF RuntimeInv, Forget, Inside
<1>2. /\ \A u \in Threads \ {t} : step'[u] \in {step[u], "idle"}
      /\ step'[t] \in {"start", "exited"}
      /\ t # "main" => step' = [step EXCEPT ![t] = "start"]
      /\ step' \in [Threads -> {"idle", "stop", "end", "await", "forget", "start", "spawn", "wait",
                                "serve", "up", "exited"}]
  <2>1. step \in [Threads -> {"idle", "stop", "end", "await", "forget", "start", "spawn", "wait",
                            "serve", "up", "exited"}]
    BY <1>1 DEF TypeOK
  <2>2. CASE step' = [step EXCEPT ![t] = "start"]
    BY <2>1, <2>2
  <2>3. CASE t = "main" /\ Exit
    BY <2>1, <2>3 DEF Exit
  <2> QED
    BY <1>1, <2>2, <2>3, Restarts
<1>3. TypeOK'
  BY <1>1, <1>2 DEF Forget, TypeOK
<1>4. OwnInv'
  <2>1. HeldInv(t)'
    BY <1>1, <1>2 DEF HeldInv
  <2>2. "overlap" \notin odd => NoneLeft'
    BY <1>1 DEF Forget, OwnInv, NoneLeft, HeldInv, Gone
  <2> QED
    BY <1>1, <1>2, <2>1, <2>2, WorksAlone
<1>5. ChildInv' /\ ServedAsTold'
  <2>1. t = "main" => child # "running"
    BY <1>1 DEF RuntimeInv, ChildInv
  <2>2. t # "main" => step'["main"] = step["main"]
    BY <1>2 DEF TypeOK, Threads
  <2> QED
    BY <2>1, <2>2 DEF Forget, RuntimeInv, ChildInv, ServedAsTold
<1>6. PortInv'
  <2> SUFFICES ASSUME odd = {} PROVE PortInv'
    BY <1>1 DEF PortInv
  <2>1. \A u \in Threads : step'[u] # "forget"
    BY <1>1, <1>2 DEF OwnInv, Alone, Inside
  <2> QED
    BY <1>1, <2>1 DEF Forget, RuntimeInv, PortInv, Gone
<1> QED
  BY <1>3, <1>4, <1>5, <1>6 DEF RuntimeInv

\* A thread begins to work on the runtime: it is the only one, or that is recorded.
LEMMA EnterStep ==
    ASSUME RuntimeInv, NEW t \in Threads, ~Inside(t), Entering(t),
           step' = [step EXCEPT ![t] = "stop"],
           UNCHANGED <<port, fields, held, answers, mode, handed>>,
           model' \in [Threads -> Models], child' = child \/ child' = "gone",
           t = "main" => child' # "running"
    PROVE  RuntimeInv'
<1> USE DEF port, fields
<1>1. TypeOK /\ OwnInv /\ t \in Threads /\ odd' \in {odd, odd \union {"overlap"}}
  BY DEF RuntimeInv, Entering
<1>2. /\ step' \in [Threads -> {"idle", "stop", "end", "await", "forget", "start", "spawn", "wait",
                                "serve", "up", "exited"}]
      /\ step'[t] = "stop" /\ \A u \in Threads \ {t} : step'[u] = step[u]
  BY <1>1 DEF TypeOK
<1>3. TypeOK'
  BY <1>1, <1>2 DEF TypeOK
<1>4. OwnInv'
  <2> SUFFICES ASSUME "overlap" \notin odd' PROVE (Alone /\ NoneLeft /\ \A u \in Threads : HeldInv(u))'
    BY DEF OwnInv
  <2>1. "overlap" \notin odd /\ \A u \in Threads \ {t} : ~Inside(u)
    BY DEF Entering
  <2>2. Alone'
    BY <1>2, <2>1 DEF Alone, Inside
  <2>3. NoneLeft'
    BY <1>1, <2>1 DEF OwnInv, NoneLeft, Gone
  <2>4. ASSUME NEW u \in Threads PROVE HeldInv(u)'
    BY <1>1, <1>2, <2>1 DEF OwnInv, HeldInv, Gone, Inside
  <2> QED
    BY <2>2, <2>3, <2>4
<1>5. ChildInv' /\ ServedAsTold'
  BY <1>2 DEF RuntimeInv, ChildInv, ServedAsTold, Threads
<1>6. PortInv'
  <2> SUFFICES ASSUME odd' = {} PROVE PortInv'
    BY DEF PortInv
  <2>1. odd = {}
    BY <1>1
  <2>2. \A u \in Threads : step'[u] = "forget" => step[u] = "forget"
    BY <1>2
  <2> QED
    BY <2>1, <2>2 DEF RuntimeInv, PortInv, Gone
<1> QED
  BY <1>3, <1>4, <1>5, <1>6 DEF RuntimeInv

\* What happens outside of the runtime: the launcher and its gateway process.
LEMMA LauncherStep ==
    ASSUME RuntimeInv, StartGateway \/ Quit \/ ChildDies
    PROVE  RuntimeInv'
<1> USE DEF port, fields, threads, counts, history
<1>1. TypeOK /\ OwnInv /\ "main" \in Threads
  BY DEF RuntimeInv, Threads
<1>2. CASE Quit /\ handed
  <2>1. step["main"] = "up" /\ step' = [step EXCEPT !["main"] = "stop"] /\ Entering("main")
    BY <1>2 DEF Quit, Goes
  <2>2. UNCHANGED <<port, fields, held, answers, mode, handed>> /\ model' \in [Threads -> Models]
    BY <1>1, <1>2 DEF Quit, TypeOK
  <2>3. child' # "running" /\ (child' = child \/ child' = "gone")
    BY <1>2 DEF Quit
  <2>4. ~Inside("main")
    BY <2>1 DEF Inside
  <2> QED
    BY <1>1, <2>1, <2>2, <2>3, <2>4, EnterStep
<1>3. CASE StartGateway \/ ChildDies \/ (Quit /\ ~handed)
  <2>1. /\ UNCHANGED <<port, fields, mode, handed, model, held, odd, answers>>
        /\ child' \in {"none", "running", "gone"}
    BY <1>1, <1>3 DEF StartGateway, ChildDies, Quit, TypeOK
  <2>2. /\ step' \in [Threads -> {"idle", "stop", "end", "await", "forget", "start", "spawn", "wait",
                                  "serve", "up", "exited"}]
        /\ \A u \in Threads : step'[u] \in {step[u], "idle", "up", "exited"}
        /\ child' = "running" => step'["main"] = "up"
    BY <1>1, <1>3 DEF StartGateway, ChildDies, Quit, Exit, Goes, TypeOK, RuntimeInv, ChildInv
  <2>3. TypeOK'
    BY <1>1, <2>1, <2>2 DEF TypeOK
  <2>4. OwnInv'
    <3> SUFFICES ASSUME "overlap" \notin odd PROVE (Alone /\ NoneLeft /\ \A u \in Threads : HeldInv(u))'
      BY <2>1 DEF OwnInv
    <3>1. Alone'
      BY <1>1, <2>2 DEF OwnInv, Alone, Inside
    <3>2. NoneLeft'
      BY <1>1, <2>1 DEF OwnInv, NoneLeft, Gone
    <3>3. ASSUME NEW u \in Threads PROVE HeldInv(u)'
      BY <1>1, <2>1, <2>2 DEF OwnInv, HeldInv, Gone
    <3> QED
      BY <3>1, <3>2, <3>3
  <2>5. ChildInv' /\ ServedAsTold'
    BY <2>1, <2>2 DEF RuntimeInv, ChildInv, ServedAsTold
  <2>6. PortInv'
    <3>1. \A u \in Threads : step'[u] = "forget" => step[u] = "forget"
      BY <2>2
    <3> QED
      BY <2>1, <3>1 DEF RuntimeInv, PortInv, Gone
  <2> QED
    BY <2>3, <2>4, <2>5, <2>6 DEF RuntimeInv
<1> QED
  BY <1>2, <1>3

\* A request to select a model.
LEMMA SelectStep ==
    ASSUME RuntimeInv, NEW t \in Threads, Select(t)
    PROVE  RuntimeInv'
<1>1. /\ step[t] = "idle" /\ step' = [step EXCEPT ![t] = "stop"] /\ Entering(t) /\ t # "main"
      /\ UNCHANGED <<port, fields, held, answers, mode, handed, child>>
  BY RuntimeAssumption DEF Select, Goes, launcher
<1>2. model' \in [Threads -> Models] /\ ~Inside(t)
  BY <1>1 DEF Select, RuntimeInv, TypeOK, Inside
<1> QED
  BY <1>1, <1>2, EnterStep

\* A server listens, or ends; another program takes the port, or leaves it.
LEMMA PortStep ==
    ASSUME RuntimeInv,
           (\E p \in DOMAIN servers : Bind(p) \/ End(p)) \/ ForeignComes \/ ForeignLeaves
    PROVE  RuntimeInv'
<1> USE DEF fields, launcher, threads, counts, history
<1>1. TypeOK /\ OwnInv /\ servers \in Seq(Servers)
  BY DEF RuntimeInv, TypeOK
<1>2. UNCHANGED <<fields, launcher, threads, answers>> /\ odd' \in {odd, odd \union {"port"}}
  BY DEF Bind, End, ForeignComes, ForeignLeaves
<1>3. CASE \E p \in DOMAIN servers : Bind(p) \/ End(p)
  <2>1. PICK p \in DOMAIN servers, s \in {"serving", "gone"} :
          /\ servers' = [servers EXCEPT ![p] = [servers[p] EXCEPT !.at = s]]
          /\ s = "serving" => ~Gone(p)
    BY <1>3 DEF Bind, End, Gone
  <2>2. [servers[p] EXCEPT !.at = s] \in Servers /\ \A q \in DOMAIN servers : servers[q] \in Servers
    <3>1. \A q \in DOMAIN servers : servers[q] \in Servers
      BY <1>1
    <3> QED
      BY <3>1 DEF Servers
  <2>3. servers' \in Seq(Servers) /\ DOMAIN servers' = DOMAIN servers /\ Len(servers') = Len(servers)
    <3>1. servers \in [1..Len(servers) -> Servers] /\ Len(servers) \in Nat
      BY <1>1
    <3>2. servers' \in [1..Len(servers) -> Servers]
      BY <2>1, <2>2, <3>1
    <3> QED
      BY <3>1, <3>2
  <2>4. \A q \in DOMAIN servers : /\ servers'[q].model = servers[q].model
                                  /\ servers'[q].told = servers[q].told
                                  /\ Gone(q) => Gone(q)'
    <3>1. \A q \in DOMAIN servers : servers'[q] = IF q = p THEN [servers[q] EXCEPT !.at = s]
                                                  ELSE servers[q]
      BY <2>1
    <3> QED
      BY <2>1, <2>2, <3>1 DEF Servers, Gone
  <2>5. foreign' = foreign /\ odd' = odd
    BY <1>3 DEF Bind, End
  <2>6. TypeOK'
    BY <1>1, <1>2, <2>3, <2>5 DEF TypeOK
  <2>7. OwnInv'
    <3> SUFFICES ASSUME "overlap" \notin odd PROVE (Alone /\ NoneLeft /\ \A u \in Threads : HeldInv(u))'
      BY <2>5 DEF OwnInv
    <3>1. Alone' /\ NoneLeft'
      BY <1>1, <1>2, <2>3, <2>4 DEF OwnInv, Alone, Inside, NoneLeft
    <3>2. _proc # 0 => _proc \in DOMAIN servers
      BY <1>1, HeldPlace
    <3>3. ASSUME NEW u \in Threads PROVE HeldInv(u)'
      BY <1>1, <1>2, <2>4, <3>2 DEF OwnInv, HeldInv
    <3> QED
      BY <3>1, <3>3
  <2>8. PortInv'
    <3> SUFFICES ASSUME odd = {} PROVE PortInv'
      BY <2>5 DEF PortInv
    <3>1. _proc # 0 => _proc \in DOMAIN servers
      BY <1>1, HeldPlace
    <3>2. \A u \in Threads : step[u] = "forget" => _proc # 0 /\ Gone(_proc)
      BY <1>1 DEF RuntimeInv, PortInv, OwnInv, HeldInv
    <3> QED
      BY <1>2, <2>3, <2>4, <2>5, <3>1, <3>2 DEF RuntimeInv, PortInv
  <2>9. ChildInv' /\ ServedAsTold'
    BY <1>2 DEF RuntimeInv, ChildInv, ServedAsTold
  <2> QED
    BY <2>6, <2>7, <2>8, <2>9 DEF RuntimeInv
<1>4. CASE ForeignComes \/ ForeignLeaves
  <2>1. /\ servers' = servers /\ foreign' \in BOOLEAN
        /\ ForeignComes => odd' # {}
        /\ ForeignLeaves => odd' = odd /\ ~foreign'
    BY <1>4 DEF ForeignComes, ForeignLeaves
  <2>2. TypeOK'
    BY <1>1, <1>2, <2>1 DEF TypeOK
  <2>3. OwnInv'
    BY <1>1, <1>2, <2>1 DEF OwnInv, Alone, Inside, NoneLeft, HeldInv, Gone
  <2>4. PortInv'
    BY <1>2, <1>4, <2>1 DEF RuntimeInv, PortInv, Gone
  <2>5. ChildInv' /\ ServedAsTold'
    BY <1>2 DEF RuntimeInv, ChildInv, ServedAsTold
  <2> QED
    BY <2>2, <2>3, <2>4, <2>5 DEF RuntimeInv
<1> QED
  BY <1>3, <1>4

\* Every step keeps the invariant.
LEMMA RuntimeInductive == RuntimeInv /\ [RuntimeNext]_runtimeVars => RuntimeInv'
<1> SUFFICES ASSUME RuntimeInv, [RuntimeNext]_runtimeVars PROVE RuntimeInv'
  OBVIOUS
<1>1. ASSUME NEW t \in Threads, Work(t) PROVE RuntimeInv'
  <2>1. CASE Start(t)
    BY <2>1, AdoptStep, SpawnStep, WaitStep, QuietStep DEF Start
  <2>2. CASE Stop(t)
    BY <2>2, TerminateStep, ForgetStep, QuietStep DEF Stop
  <2> QED
    BY <1>1, <2>1, <2>2 DEF Work
<1>2. ASSUME NEW t \in Threads, Select(t) PROVE RuntimeInv'
  BY <1>2, SelectStep
<1>3. CASE StartGateway \/ Quit \/ ChildDies
  BY <1>3, LauncherStep
<1>4. CASE (\E p \in DOMAIN servers : Bind(p) \/ End(p)) \/ ForeignComes \/ ForeignLeaves
  BY <1>4, PortStep
<1>5. CASE UNCHANGED runtimeVars
  <2> USE <1>5 DEF runtimeVars, port, fields, launcher, threads, counts, history
  <2>1. TypeOK'
    BY DEF RuntimeInv, TypeOK
  <2>2. OwnInv'
    BY DEF RuntimeInv, OwnInv, Alone, Inside, NoneLeft, HeldInv, Gone
  <2>3. ChildInv' /\ PortInv' /\ ServedAsTold'
    BY DEF RuntimeInv, ChildInv, PortInv, ServedAsTold, Gone
  <2> QED
    BY <2>1, <2>2, <2>3 DEF RuntimeInv
<1> QED
  BY <1>1, <1>2, <1>3, <1>4, <1>5 DEF RuntimeNext

--------------------------------------------------------------------------------
(* LlamaRuntime: the theorems.                                                 *)

\* The inductive invariant: types; unless two threads were at work at once, one thread
\* at work at a time, and no wanted server but the one held; and as long as nothing odd
\* happened, no server at all but that one, which has the active model.
THEOREM RuntimeInvariant == RuntimeSpec => []RuntimeInv
<1>1. RuntimeInit => RuntimeInv
  BY RuntimeStarts
<1>2. RuntimeInv /\ [RuntimeNext]_runtimeVars => RuntimeInv'
  BY RuntimeInductive
<1> QED
  BY <1>1, <1>2, PTL DEF RuntimeSpec

\* The launcher is handed the runtime when its wait is over; where it has ended, so have
\* the threads of its process and, if it was handed the runtime, the runtime holds no server.
ExitInv == /\ step["main"] \in {"start", "spawn", "wait"} => ~handed
           /\ ("overlap" \notin odd /\ handed /\ step["main"] = "exited") => _proc = 0
           /\ step["main"] = "exited" => \A t \in Selectors : step[t] = "idle"

\* A thread at work on the runtime keeps it.
LEMMA ExitWork ==
    ASSUME TypeOK, ExitInv, NEW t \in Threads, Work(t)
    PROVE  ExitInv'
<1> USE DEF port, fields, launcher, threads, counts, history
<1>0. /\ step \in [Threads -> {"idle", "stop", "end", "await", "forget", "start", "spawn",
                              "wait", "serve", "up", "exited"}]
      /\ "main" \in Threads /\ Selectors \subseteq Threads /\ "main" \notin Selectors
  BY RuntimeAssumption DEF TypeOK, Threads
<1>1. step[t] \notin {"idle", "exited"}
  BY DEF Work, Start, Stop, Adopt, MustSpawn, Spawn, SpawnFails, Ready, Died, TimesOut,
         NothingToStop, StopHeld, HeldIsGone, AlreadyDead, Terminate, Awaited, Kill, Forget, Goes
<1>2. step["main"] # "exited"
  <2>1. CASE t = "main"
    BY <1>1, <2>1
  <2>2. CASE t # "main"
    BY <1>0, <1>1, <2>2 DEF ExitInv, Threads
  <2> QED
    BY <2>1, <2>2
<1>3. CASE Adopt(t) \/ MustSpawn(t) \/ Spawn(t) \/ StopHeld(t) \/ AlreadyDead(t) \/ Terminate(t)
          \/ Awaited(t) \/ Kill(t)
  <2>1. handed' = handed
    BY <1>3 DEF Adopt, MustSpawn, Spawn, StopHeld, AlreadyDead, Terminate, Awaited, Kill
  <2>2. PICK b \in {"spawn", "wait", "end", "forget", "await"} :
          /\ step' = [step EXCEPT ![t] = b]
          /\ step[t] \in {"start", "spawn"} \/ b \notin {"spawn", "wait"}
    BY <1>3 DEF Adopt, MustSpawn, Spawn, StopHeld, AlreadyDead, Terminate, Awaited, Kill, Goes
  <2>3. step'["main"] # "exited"
    BY <1>0, <1>2, <2>2
  <2>4. step'["main"] \in {"start", "spawn", "wait"} => step["main"] \in {"start", "spawn", "wait"}
    BY <1>0, <2>2
  <2> QED
    BY <2>1, <2>3, <2>4 DEF ExitInv
<1>4. CASE Ready(t) \/ Died(t) \/ TimesOut(t)
  <2>1. \E ready \in BOOLEAN : Waited(t, ready)
    BY <1>4 DEF Ready, Died, TimesOut
  <2>2. /\ step' = [step EXCEPT ![t] = IF t = "main" THEN "serve" ELSE "idle"]
        /\ t # "main" => handed' = handed
    BY <2>1 DEF Waited
  <2>3. step'["main"] # "exited" /\ (t = "main" => step'["main"] = "serve")
        /\ (t # "main" => step'["main"] = step["main"])
    BY <1>0, <1>2, <2>2
  <2> QED
    BY <2>2, <2>3 DEF ExitInv
<1>5. CASE NothingToStop(t) \/ Forget(t)
  <2>1. handed' = handed /\ _proc' = 0 /\ Stopped(t) /\ step[t] \in {"stop", "forget"}
    BY <1>5 DEF NothingToStop, Forget
  <2>2. CASE t = "main"
    BY <1>0, <2>1, <2>2 DEF Stopped, Exit, ExitInv
  <2>3. CASE t # "main"
    <3>1. step'["main"] = step["main"]
      BY <1>0, <2>1, <2>3 DEF Stopped
    <3> QED
      BY <1>2, <2>1, <3>1 DEF ExitInv
  <2> QED
    BY <2>2, <2>3
<1>6. CASE SpawnFails(t) \/ HeldIsGone(t)
  <2>1. /\ handed' = handed /\ _proc' = _proc /\ Fail(t)
        /\ step[t] = "spawn" \/ (step[t] = "end" /\ _proc = 0)
    BY <1>6 DEF SpawnFails, HeldIsGone
  <2>2. CASE t = "main"
    <3>1. step'["main"] \in {"up", "exited"} /\ (step'["main"] = "exited" => Exit)
      BY <1>0, <2>1, <2>2 DEF Fail, Exit
    <3>2. (handed /\ step'["main"] = "exited") => _proc = 0
      BY <2>1, <2>2 DEF ExitInv
    <3>3. step'["main"] = "exited" => \A u \in Selectors : step'[u] = "idle"
      BY <1>0, <3>1 DEF Exit
    <3> QED
      BY <2>1, <3>1, <3>2, <3>3 DEF ExitInv
  <2>3. CASE t # "main"
    <3>1. step'["main"] = step["main"]
      BY <1>0, <2>1, <2>3 DEF Fail, Threads
    <3> QED
      BY <1>2, <2>1, <3>1 DEF ExitInv
  <2> QED
    BY <2>2, <2>3
<1> QED
  BY <1>3, <1>4, <1>5, <1>6 DEF Work, Start, Stop

\* Every step keeps it.
LEMMA ExitInductive == TypeOK /\ ExitInv /\ [RuntimeNext]_runtimeVars => ExitInv'
<1> SUFFICES ASSUME TypeOK, ExitInv, [RuntimeNext]_runtimeVars PROVE ExitInv'
  OBVIOUS
<1> USE DEF port, fields, launcher, threads, counts, history
<1>0. /\ step \in [Threads -> {"idle", "stop", "end", "await", "forget", "start", "spawn",
                              "wait", "serve", "up", "exited"}]
      /\ "main" \in Threads /\ Selectors \subseteq Threads /\ "main" \notin Selectors
  BY RuntimeAssumption DEF TypeOK, Threads
<1>1. CASE \E t \in Threads : Work(t)
  BY <1>1, ExitWork
<1>2. ASSUME NEW t \in Threads, Select(t) PROVE ExitInv'
  <2>1. /\ t \in Selectors /\ step["main"] # "exited" /\ step' = [step EXCEPT ![t] = "stop"]
        /\ handed' = handed
    BY <1>2 DEF Select, GatewayUp, Goes
  <2>2. step'["main"] = step["main"]
    BY <1>0, <2>1
  <2> QED
    BY <2>1, <2>2 DEF ExitInv
<1>3. CASE StartGateway
  <2>1. handed' = handed /\ step'["main"] = "up"
    BY <1>0, <1>3 DEF StartGateway, Goes
  <2> QED
    BY <2>1 DEF ExitInv
<1>4. CASE Quit
  <2>1. handed' = handed /\ step["main"] = "up"
    BY <1>4 DEF Quit
  <2>2. CASE handed
    <3>1. step'["main"] = "stop"
      BY <1>0, <1>4, <2>2 DEF Quit, Goes
    <3> QED
      BY <3>1 DEF ExitInv
  <2>3. CASE ~handed
    <3>1. step'["main"] = "exited" /\ \A u \in Selectors : step'[u] = "idle"
      BY <1>0, <1>4, <2>3 DEF Quit, Exit
    <3> QED
      BY <2>1, <2>3, <3>1 DEF ExitInv
  <2> QED
    BY <2>2, <2>3
<1>5. CASE ChildDies \/ (\E p \in DOMAIN servers : Bind(p) \/ End(p)) \/ ForeignComes \/ ForeignLeaves
           \/ UNCHANGED runtimeVars
  <2>1. step' = step /\ handed' = handed /\ _proc' = _proc /\ odd \subseteq odd'
    BY <1>5 DEF ChildDies, Bind, End, ForeignComes, ForeignLeaves, runtimeVars
  <2> QED
    BY <2>1 DEF ExitInv
<1> QED
  BY <1>1, <1>2, <1>3, <1>4, <1>5 DEF RuntimeNext

\* Every server started and not told to end is the one the runtime holds; a launcher that
\* was handed the runtime and has ended leaves none, and no launcher leaves a gateway
\* process, whatever the number of selects, their order, and the servers that die or never
\* listen.
THEOREM NoStrayHolds == RuntimeSpec => []NoStray
<1>1. RuntimeInit => ExitInv
  BY RuntimeAssumption DEF RuntimeInit, ExitInv, Threads
<1>2. TypeOK /\ ExitInv /\ [RuntimeNext]_runtimeVars => ExitInv'
  BY ExitInductive
<1>3. RuntimeInv => TypeOK
  BY DEF RuntimeInv
<1>4. ASSUME RuntimeInv, ExitInv PROVE NoStray
  <2>1. "overlap" \notin odd => \A p \in DOMAIN servers : Wanted(p) => p = _proc
    BY <1>4 DEF RuntimeInv, OwnInv, NoneLeft, Wanted
  <2>2. ("overlap" \notin odd /\ handed /\ step["main"] = "exited")
            => \A p \in DOMAIN servers : ~Wanted(p)
    <3>1. servers \in Seq(Servers)
      BY <1>4 DEF RuntimeInv, TypeOK
    <3>2. 0 \notin DOMAIN servers
      BY <3>1
    <3> QED
      BY <1>4, <2>1, <3>2 DEF ExitInv
  <2>3. step["main"] = "exited" => child # "running"
    BY <1>4 DEF RuntimeInv, ChildInv
  <2> QED
    BY <2>1, <2>2, <2>3 DEF NoStray
<1> QED
  BY <1>1, <1>2, <1>3, <1>4, RuntimeInvariant, PTL DEF RuntimeSpec

\* Where a select or the launcher says that a model is ready, that model listens and no
\* other: the old server has ended before the new one is started.
THEOREM ServedAsToldHolds == RuntimeSpec => []ServedAsTold
<1>1. RuntimeInv => ServedAsTold
  BY DEF RuntimeInv
<1> QED
  BY <1>1, RuntimeInvariant, PTL
================================================================================
