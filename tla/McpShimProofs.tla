----------------------------- MODULE McpShimProofs -----------------------------
(* Theorems about McpShim, for every number of request ids, any length of the    *)
(* pipes, any content of the answers and any number of messages.                 *)
EXTENDS McpShim, TLAPS

--------------------------------------------------------------------------------
(* The inductive invariant.  A request, and then its answer, is in one place at a *)
(* time: with the first thread, in the pipe to the child, with the child, in the *)
(* pipe from it, or with the second thread.  The client waits for it all along.  *)

Elems(s) == {s[k] : k \in DOMAIN s}
Answers(s) == {m \in Elems(s) : IsAnswer(m)}

Reading == IF inbound.todo # <<>> THEN {inbound.msg} ELSE {}
Passing == {m \in {outbound.msg} : outbound.st \in {"sanitizing", "writing"} /\ IsAnswer(m)}

Awaited(M) == \A m \in M : asked[m.id] = m.kind
Apart(M, N) == \A m \in M, n \in N : m.id # n.id
Distinct(s) == \A j, k \in DOMAIN s :
                  IsAnswer(s[j]) /\ IsAnswer(s[k]) /\ s[j].id = s[k].id => j = k

\* What the threads have at hand.
ThreadInv ==
    /\ inbound.todo \in {<<>>, <<"forward">>, <<"record", "forward">>}
    /\ inbound.todo # <<>> => inbound.msg \in Requests
    /\ inbound.todo = <<"record", "forward">> => inbound.msg.kind = "call"
    /\ outbound.st \in {"sanitizing", "writing"} => outbound.msg \in Messages
    /\ outbound.st = "sanitizing" => IsAnswer(outbound.msg)
    /\ outbound.at >= 1

AwaitedInv == /\ Awaited(Reading) /\ Awaited(Elems(toChild)) /\ Awaited(serving)
              /\ Awaited(Answers(toShim)) /\ Awaited(Passing)

\* No id is in two places.
OnceInv ==
    /\ Distinct(toChild) /\ Distinct(toShim)
    /\ \A p, q \in serving : p.id = q.id => p = q
    /\ Apart(Reading, Elems(toChild)) /\ Apart(Reading, serving)
    /\ Apart(Reading, Answers(toShim)) /\ Apart(Reading, Passing)
    /\ Apart(Elems(toChild), serving) /\ Apart(Elems(toChild), Answers(toShim))
    /\ Apart(Elems(toChild), Passing)
    /\ Apart(serving, Answers(toShim)) /\ Apart(serving, Passing)
    /\ Apart(Answers(toShim), Passing)

\* An answer that is being passed on has left pending_calls.
PendingInv == PendingIsAsked /\ \A m \in Passing : m.id \notin pending

\* A call stays recorded from before it is passed to the child until its answer is read.
Recorded(M) == \A m \in M : m.kind = "call" => m.id \in pending
RecordedInv == /\ inbound.todo = <<"forward">> => Recorded(Reading)
               /\ Recorded(Elems(toChild)) /\ Recorded(serving)
               /\ Recorded(Answers(toShim))

\* The items of an answer that have been sanitized.
CleanInv ==
    /\ outbound.st = "sanitizing" =>
          \A k \in DOMAIN outbound.msg.items :
              k < outbound.at => outbound.msg.items[k] \notin RawKinds
    /\ outbound.st = "writing" /\ outbound.msg.kind = "call" =>
          \A k \in DOMAIN outbound.msg.items : outbound.msg.items[k] \notin RawKinds

--------------------------------------------------------------------------------
(* Pipes and messages.                                                         *)

\* What is written to a pipe joins what is in it, and ids stay distinct if the new
\* one is new.
LEMMA AppendElems ==
    ASSUME NEW S, NEW s \in Seq(S), NEW m \in S
    PROVE  /\ Append(s, m) \in Seq(S) /\ Len(Append(s, m)) = Len(s) + 1
           /\ Elems(Append(s, m)) = Elems(s) \union {m}
           /\ Distinct(s) /\ (IsAnswer(m) => \A x \in Answers(s) : x.id # m.id)
                 => Distinct(Append(s, m))
<1>1. /\ Append(s, m) \in Seq(S) /\ Len(Append(s, m)) = Len(s) + 1
      /\ DOMAIN Append(s, m) = DOMAIN s \union {Len(s) + 1}
      /\ \A k \in DOMAIN s : Append(s, m)[k] = s[k]
      /\ Append(s, m)[Len(s) + 1] = m
  OBVIOUS
<1> DEFINE t == Append(s, m)
<1> HIDE DEF t
<1>2. Elems(t) = Elems(s) \union {m}
  BY <1>1 DEF Elems, t
<1>3. ASSUME Distinct(s), IsAnswer(m) => \A x \in Answers(s) : x.id # m.id,
             NEW j \in DOMAIN t, NEW k \in DOMAIN t,
             IsAnswer(t[j]), IsAnswer(t[k]), t[j].id = t[k].id
      PROVE  j = k
  <2>1. \A i \in DOMAIN s : s[i] \in Elems(s)
    BY DEF Elems
  <2>2. CASE j \in DOMAIN s /\ k \in DOMAIN s
    BY <1>1, <1>3, <2>2 DEF Distinct, t
  <2>3. CASE j \in DOMAIN s /\ k \notin DOMAIN s
    <3>1. t[k] = m /\ t[j] \in Answers(s)
      BY <1>1, <1>3, <2>1, <2>3 DEF Answers, t
    <3> QED
      BY <1>3, <3>1
  <2>4. CASE j \notin DOMAIN s /\ k \in DOMAIN s
    <3>1. t[j] = m /\ t[k] \in Answers(s)
      BY <1>1, <1>3, <2>1, <2>4 DEF Answers, t
    <3> QED
      BY <1>3, <3>1
  <2>5. CASE j \notin DOMAIN s /\ k \notin DOMAIN s
    BY <1>1, <1>3, <2>5 DEF t
  <2> QED
    BY <2>2, <2>3, <2>4, <2>5
<1> QED
  BY <1>1, <1>2, <1>3 DEF Distinct, t

\* What is read from a pipe was the first of its messages, and has an id of its own.
LEMMA TailElems ==
    ASSUME NEW S, NEW s \in Seq(S), s # <<>>
    PROVE  /\ Head(s) \in S /\ Tail(s) \in Seq(S) /\ Len(Tail(s)) = Len(s) - 1
           /\ Elems(s) = Elems(Tail(s)) \union {Head(s)}
           /\ Distinct(s) => /\ Distinct(Tail(s))
                             /\ IsAnswer(Head(s)) =>
                                   \A x \in Answers(Tail(s)) : x.id # Head(s).id
<1>1. /\ Head(s) \in S /\ Tail(s) \in Seq(S) /\ Len(Tail(s)) = Len(s) - 1
      /\ Len(s) \in Nat \ {0} /\ DOMAIN s = 1..Len(s)
      /\ DOMAIN Tail(s) = 1..(Len(s) - 1)
      /\ Head(s) = s[1]
      /\ \A k \in 1..(Len(s) - 1) : Tail(s)[k] = s[k + 1]
  OBVIOUS
<1> DEFINE t == Tail(s)
           h == Head(s)
<1> HIDE DEF t, h
<1>2. \A k \in DOMAIN s : k = 1 \/ (k - 1 \in DOMAIN t /\ s[k] = t[k - 1])
  BY <1>1 DEF t
<1>3. \A k \in DOMAIN t : k + 1 \in DOMAIN s /\ t[k] = s[k + 1]
  BY <1>1 DEF t
<1>4. Elems(s) = Elems(t) \union {h}
  <2>1. \A k \in DOMAIN s : s[k] \in Elems(t) \union {h}
    BY <1>1, <1>2 DEF Elems, h
  <2>2. h \in Elems(s) /\ \A k \in DOMAIN t : t[k] \in Elems(s)
    BY <1>1, <1>3 DEF Elems, h
  <2> QED
    BY <2>1, <2>2 DEF Elems
<1>5. ASSUME Distinct(s)
      PROVE  Distinct(t)
  <2>1. ASSUME NEW j \in DOMAIN t, NEW k \in DOMAIN t,
               IsAnswer(t[j]), IsAnswer(t[k]), t[j].id = t[k].id
        PROVE  j = k
    <3>1. j + 1 = k + 1
      BY <1>3, <1>5, <2>1 DEF Distinct
    <3> QED
      BY <1>1, <2>1, <3>1 DEF t
  <2> QED
    BY <2>1 DEF Distinct
<1>6. ASSUME Distinct(s), IsAnswer(h), NEW x \in Answers(t)
      PROVE  x.id # h.id
  <2>1. PICK k \in DOMAIN t : x = t[k] /\ IsAnswer(x)
    BY <1>6 DEF Answers, Elems
  <2>2. /\ k + 1 \in DOMAIN s /\ 1 \in DOMAIN s /\ k + 1 # 1
        /\ x = s[k + 1] /\ h = s[1]
    BY <1>1, <1>3, <2>1 DEF t, h
  <2> QED
    BY <1>6, <2>1, <2>2 DEF Distinct
<1> QED
  BY <1>1, <1>4, <1>5, <1>6 DEF t, h

\* Answers carry the id of a request, items and a size; other messages are no answers.
AnswerMessages == [kind : {"call", "list"}, id : Ids, items : Seq(Items),
                   size : {"fits", "large"}]
OtherMessages == [kind : {"request"}, id : ChildIds]
                 \union [kind : {"notification"}, id : {"none"}]
                 \union [kind : {"garbage"}, id : {"none"}]

\* The two kinds of messages: answers, and all others.
LEMMA MessageKinds ==
    /\ Messages = AnswerMessages \union OtherMessages
    /\ \A m \in AnswerMessages : IsAnswer(m)
    /\ \A m \in OtherMessages : ~IsAnswer(m)
    /\ \A m \in Requests : IsAnswer(m)
<1>1. Messages = AnswerMessages \union OtherMessages
  BY DEF Messages, AnswerMessages, OtherMessages
<1>2. \A m \in AnswerMessages : IsAnswer(m)
  BY DEF AnswerMessages, IsAnswer
<1>3. \A m \in OtherMessages : ~IsAnswer(m)
  BY DEF OtherMessages, IsAnswer
<1>4. \A m \in Requests : IsAnswer(m)
  BY DEF Requests, IsAnswer
<1> QED
  BY <1>1, <1>2, <1>3, <1>4

\* All requests of a pipe to the child are answers to come.
LEMMA AllAnswers ==
    ASSUME NEW s \in Seq(Requests)
    PROVE  Answers(s) = Elems(s)
  BY MessageKinds DEF Answers, Elems

\* The first thread's work is one of three lists.
LEMMA TodoSteps ==
    ASSUME ThreadInv
    PROVE  /\ NextIs("record") => inbound.todo = <<"record", "forward">>
           /\ NextIs("forward") => inbound.todo = <<"forward">>
           /\ Tail(<<"record", "forward">>) = <<"forward">>
           /\ Tail(<<"forward">>) = <<>>
           /\ <<"forward">> # <<>> /\ <<"record", "forward">> # <<>>
           /\ <<"forward">> # <<"record", "forward">>
<1>1. /\ Head(<<"record", "forward">>) = "record" /\ Head(<<"forward">>) = "forward"
      /\ Tail(<<"record", "forward">>) = <<"forward">> /\ Tail(<<"forward">>) = <<>>
      /\ <<"forward">> # <<>> /\ <<"record", "forward">> # <<>>
      /\ <<"forward">> # <<"record", "forward">>
  OBVIOUS
<1> QED
  BY <1>1 DEF ThreadInv, NextIs

--------------------------------------------------------------------------------
(* Types.                                                                      *)

TypedInv == TypeOK /\ ThreadInv

\* The variables of the first thread, of the pipes and the child, of the second thread.
InTyped == /\ inbound \in [todo : Seq({"record", "forward"}),
                           msg : Requests \union {NoMessage}, open : BOOLEAN]
           /\ inbound.todo \in {<<>>, <<"forward">>, <<"record", "forward">>}
           /\ inbound.todo # <<>> => inbound.msg \in Requests
           /\ inbound.todo = <<"record", "forward">> => inbound.msg.kind = "call"
ChildTyped == /\ toChild \in Seq(Requests) /\ Len(toChild) <= PipeCap
              /\ serving \subseteq Requests
              /\ toShim \in Seq(Messages) /\ Len(toShim) <= PipeCap
              /\ alive \in BOOLEAN /\ extra \in Nat
OutTyped == /\ outbound \in [st : {"reading", "sanitizing", "writing", "ended"},
                             msg : Messages \union {NoMessage}, at : Nat]
            /\ outbound.st \in {"sanitizing", "writing"} => outbound.msg \in Messages
            /\ outbound.st = "sanitizing" => IsAnswer(outbound.msg)
            /\ outbound.at >= 1
ShimTyped == /\ asked \in [Ids -> {"nothing", "call", "list"}]
             /\ pending \subseteq Ids
             /\ heard \in Messages \union {NoMessage}
             /\ up \in BOOLEAN /\ sent \in Nat

\* What a step types splits into the four places of a message.
LEMMA TypedParts ==
    /\ TypedInv <=> InTyped /\ ChildTyped /\ OutTyped /\ ShimTyped
    /\ TypedInv' <=> InTyped' /\ ChildTyped' /\ OutTyped' /\ ShimTyped'
  BY DEF TypedInv, TypeOK, ThreadInv, InTyped, ChildTyped, OutTyped, ShimTyped

\* The lists of things to do.
LEMMA TodoTyped ==
    /\ <<>> \in Seq({"record", "forward"})
    /\ <<"forward">> \in Seq({"record", "forward"})
    /\ <<"record", "forward">> \in Seq({"record", "forward"})
  OBVIOUS

\* A thread whose parts have their types is typed.
LEMMA InboundMade ==
    ASSUME InTyped, NEW todo \in {<<>>, <<"forward">>, <<"record", "forward">>},
           NEW msg \in Requests \union {NoMessage}, NEW open \in BOOLEAN,
           inbound' = [inbound EXCEPT !.todo = todo, !.msg = msg, !.open = open],
           todo # <<>> => msg \in Requests,
           todo = <<"record", "forward">> => msg.kind = "call"
    PROVE  /\ InTyped'
           /\ inbound'.todo = todo /\ inbound'.msg = msg /\ inbound'.open = open
<1>1. todo \in Seq({"record", "forward"})
  BY TodoTyped
<1>2. inbound'.todo = todo /\ inbound'.msg = msg /\ inbound'.open = open
  BY DEF InTyped
<1>3. inbound' \in [todo : Seq({"record", "forward"}),
                    msg : Requests \union {NoMessage}, open : BOOLEAN]
  BY <1>1 DEF InTyped
<1> QED
  BY <1>2, <1>3 DEF InTyped

\* The first thread keeps the types.
LEMMA InboundTyped ==
    ASSUME TypedInv,
           \/ \E i \in Ids, kind \in {"call", "list"}, size \in Sizes : Ask(i, kind, size)
           \/ Record \/ Forward \/ ForwardBreaks \/ CloseInput
    PROVE  TypedInv'
<1>0. InTyped /\ ChildTyped /\ OutTyped /\ ShimTyped
  BY TypedParts
<1>1. ASSUME NEW i \in Ids, NEW kind \in {"call", "list"}, NEW size \in Sizes,
             Ask(i, kind, size)
      PROVE  TypedInv'
  <2> DEFINE m == [kind |-> kind, id |-> i, size |-> size]
  <2>1. m \in Requests /\ m.kind = kind
    BY <1>1, ShimAssumption DEF Requests
  <2>2. /\ Todo(kind) \in {<<"forward">>, <<"record", "forward">>}
        /\ Todo(kind) = <<"record", "forward">> => kind = "call"
    BY TodoSteps DEF Todo, TypedInv
  <2>3. /\ inbound' = [inbound EXCEPT !.todo = Todo(kind), !.msg = m,
                                     !.open = inbound.open]
        /\ inbound.open \in BOOLEAN
    BY <1>0, <1>1 DEF Ask, InTyped
  <2> HIDE DEF m
  <2>4. InTyped'
    BY <1>0, <2>1, <2>2, <2>3, InboundMade
  <2>5. ShimTyped'
    <3>1. asked' = [asked EXCEPT ![i] = kind] /\ sent' = sent + 1
          /\ pending' = pending /\ heard' = heard /\ up' = up
      BY <1>1 DEF Ask
    <3> QED
      BY <1>0, <3>1 DEF ShimTyped
  <2>6. ChildTyped' /\ OutTyped'
    BY <1>0, <1>1 DEF ChildTyped, OutTyped, Ask, childVars
  <2> QED
    BY <2>4, <2>5, <2>6, TypedParts
<1>2. CASE Record
  <2>1. /\ inbound.todo = <<"record", "forward">> /\ Tail(inbound.todo) = <<"forward">>
        /\ inbound' = [inbound EXCEPT !.todo = Tail(inbound.todo)]
        /\ <<"forward">> # <<"record", "forward">>
    BY <1>0, <1>2, TodoSteps, TypedParts DEF Record, Did, TypedInv
  <2>2. InTyped'
    <3>1. /\ inbound' = [inbound EXCEPT !.todo = <<"forward">>, !.msg = inbound.msg,
                                        !.open = inbound.open]
          /\ inbound.msg \in Requests /\ inbound.open \in BOOLEAN
      BY <1>0, <2>1, TodoSteps DEF InTyped, TypedInv
    <3> QED
      BY <1>0, <2>1, <3>1, InboundMade
  <2>3. inbound.msg.id \in Ids
    BY <1>0, <2>1, TodoSteps DEF InTyped, Requests
  <2>4. ShimTyped' /\ ChildTyped' /\ OutTyped'
    BY <1>0, <1>2, <2>3 DEF ShimTyped, ChildTyped, OutTyped, Record, childVars
  <2> QED
    BY <2>2, <2>4, TypedParts
<1>3. CASE Forward
  <2>1. /\ inbound.todo = <<"forward">> /\ Tail(inbound.todo) = <<>>
        /\ inbound' = [inbound EXCEPT !.todo = Tail(inbound.todo)]
        /\ <<"record", "forward">> # <<>> /\ inbound.todo # <<>>
    BY <1>0, <1>3, TodoSteps, TypedParts DEF Forward, Did, TypedInv
  <2>2. InTyped'
    <3>1. /\ inbound' = [inbound EXCEPT !.todo = <<>>, !.msg = inbound.msg,
                                        !.open = inbound.open]
          /\ inbound.msg \in Requests /\ inbound.open \in BOOLEAN
      BY <1>0, <2>1 DEF InTyped
    <3> QED
      BY <1>0, <2>1, <3>1, InboundMade
  <2>3. inbound.msg \in Requests
    BY <1>0, <2>1 DEF InTyped
  <2>4. toChild' \in Seq(Requests) /\ Len(toChild') <= PipeCap
    <3>1. CASE inbound.msg.size = "fits"
      <4>1. Len(toChild) < PipeCap /\ toChild' = Append(toChild, inbound.msg)
        BY <1>3, <3>1 DEF Forward
      <4> QED
        BY <1>0, <2>3, <4>1, AppendElems, ShimAssumption DEF ChildTyped
    <3>2. CASE inbound.msg.size # "fits"
      BY <1>0, <1>3, <3>2 DEF Forward, ChildTyped
    <3> QED
      BY <3>1, <3>2
  <2>5. ShimTyped' /\ ChildTyped' /\ OutTyped'
    BY <1>0, <1>3, <2>4 DEF ShimTyped, ChildTyped, OutTyped, Forward
  <2> QED
    BY <2>2, <2>5, TypedParts
<1>4. CASE ForwardBreaks \/ CloseInput
  <2>1. \/ inbound' = [inbound EXCEPT !.todo = <<>>, !.open = FALSE]
        \/ inbound' = [inbound EXCEPT !.open = FALSE]
    BY <1>4 DEF ForwardBreaks, CloseInput
  <2>2. InTyped'
    <3>1. \E todo \in {<<>>, inbound.todo} :
             inbound' = [inbound EXCEPT !.todo = todo, !.msg = inbound.msg, !.open = FALSE]
      BY <1>0, <2>1 DEF InTyped
    <3>2. inbound.msg \in Requests \union {NoMessage}
      BY <1>0 DEF InTyped
    <3>3. <<>> # <<"record", "forward">>
      OBVIOUS
    <3> QED
      BY <1>0, <3>1, <3>2, <3>3, InboundMade DEF InTyped
  <2>3. ShimTyped' /\ ChildTyped' /\ OutTyped'
    BY <1>0, <1>4 DEF ShimTyped, ChildTyped, OutTyped, ForwardBreaks, CloseInput, childVars
  <2> QED
    BY <2>2, <2>3, TypedParts
<1> QED
  BY <1>1, <1>2, <1>3, <1>4

\* What a child answers is a message.
LEMMA AnswerIsMessage ==
    ASSUME NEW q \in Requests, NEW size \in Sizes,
           NEW content \in (IF q.kind = "call" THEN Contents ELSE {<<>>})
    PROVE  LET m == [kind |-> q.kind, id |-> q.id, items |-> content, size |-> size] IN
           m \in AnswerMessages /\ m \in Messages
<1>1. content \in Seq(Items)
  <2>1. content \in Seq(RawKinds \union {"other"})
    <3>1. CASE q.kind = "call"
      BY <3>1, ShimAssumption
    <3>2. CASE q.kind # "call"
      BY <3>2
    <3> QED
      BY <3>1, <3>2
  <2> QED
    BY <2>1 DEF Items
<1>2. q.kind \in {"call", "list"} /\ q.id \in Ids /\ size \in {"fits", "large"}
  BY ShimAssumption DEF Requests
<1> QED
  BY <1>1, <1>2, MessageKinds DEF AnswerMessages

\* The child keeps the types.
LEMMA ChildStepsTyped ==
    ASSUME TypedInv, ChildReads \/ ChildAnswers \/ ChildSpeaks \/ ChildExits \/ Exit
    PROVE  TypedInv'
<1>0. InTyped /\ ChildTyped /\ OutTyped /\ ShimTyped
  BY TypedParts
<1>1. InTyped' /\ OutTyped' /\ ShimTyped'
  BY <1>0 DEF InTyped, OutTyped, ShimTyped, ChildReads, ChildAnswers, ChildSpeaks, ChildExits, Exit
<1>2. ASSUME NEW m \in Messages, Emit(m)
      PROVE  toShim' \in Seq(Messages) /\ Len(toShim') <= PipeCap
  <2>1. Len(toShim) < PipeCap /\ toShim' = Append(toShim, m)
    BY <1>2 DEF Emit
  <2> QED
    BY <1>0, <2>1, AppendElems, ShimAssumption DEF ChildTyped
<1>3. CASE ChildReads
  <2>1. /\ Head(toChild) \in Requests /\ toChild' \in Seq(Requests)
        /\ Len(toChild') = Len(toChild) - 1
    BY <1>0, <1>3, TailElems DEF ChildReads, ChildTyped
  <2> QED
    BY <1>0, <1>1, <1>3, <2>1, TypedParts, ShimAssumption DEF ChildReads, ChildTyped
<1>4. CASE ChildAnswers
  <2>1. PICK q \in serving, size \in Sizes :
           /\ serving' = serving \ {q}
           /\ \E content \in (IF q.kind = "call" THEN Contents ELSE {<<>>}) :
                 Emit([kind |-> q.kind, id |-> q.id, items |-> content, size |-> size])
    BY <1>4 DEF ChildAnswers
  <2>2. PICK content \in (IF q.kind = "call" THEN Contents ELSE {<<>>}) :
           Emit([kind |-> q.kind, id |-> q.id, items |-> content, size |-> size])
    BY <2>1
  <2>3. [kind |-> q.kind, id |-> q.id, items |-> content, size |-> size] \in Messages
    BY <1>0, AnswerIsMessage DEF ChildTyped
  <2>4. toShim' \in Seq(Messages) /\ Len(toShim') <= PipeCap
    BY <1>2, <2>2, <2>3
  <2> QED
    BY <1>0, <1>1, <1>4, <2>1, <2>4, TypedParts DEF ChildAnswers, ChildTyped
<1>5. CASE ChildSpeaks
  <2>1. PICK m \in OtherMessages : Emit(m)
    BY <1>5 DEF ChildSpeaks, OtherMessages
  <2>2. toShim' \in Seq(Messages) /\ Len(toShim') <= PipeCap
    BY <1>2, <2>1, MessageKinds
  <2> QED
    BY <1>0, <1>1, <1>5, <2>2, TypedParts DEF ChildSpeaks, ChildTyped
<1>6. CASE ChildExits \/ Exit
  <2>1. toChild' = <<>> /\ serving' = {} /\ toShim' = toShim /\ alive' = FALSE /\ extra' = extra
    BY <1>6 DEF ChildExits, Exit
  <2>2. toChild' \in Seq(Requests) /\ Len(toChild') <= PipeCap
    <3>1. PipeCap \in Nat
      BY ShimAssumption
    <3> QED
      BY <2>1, <3>1
  <2>3. ChildTyped'
    BY <1>0, <2>1, <2>2 DEF ChildTyped
  <2> QED
    BY <1>1, <2>3, TypedParts
<1> QED
  BY <1>3, <1>4, <1>5, <1>6

\* Sanitizing an item changes neither the id of the answer nor its other items.
LEMMA ItemDoes ==
    ASSUME TypedInv, SanitizeItem
    PROVE  /\ outbound.msg \in AnswerMessages /\ outbound'.msg \in AnswerMessages
           /\ outbound'.msg.id = outbound.msg.id /\ outbound'.msg.kind = outbound.msg.kind
           /\ outbound'.st = "sanitizing" /\ outbound'.at = outbound.at + 1
           /\ outbound.at \in DOMAIN outbound.msg.items
           /\ DOMAIN outbound'.msg.items = DOMAIN outbound.msg.items
           /\ \A k \in DOMAIN outbound.msg.items : k # outbound.at =>
                 outbound'.msg.items[k] = outbound.msg.items[k]
           /\ outbound'.msg.items[outbound.at] \notin RawKinds
<1>0. InTyped /\ ChildTyped /\ OutTyped /\ ShimTyped
  BY TypedParts
<1>1. /\ outbound.st = "sanitizing" /\ outbound.at \in DOMAIN outbound.msg.items
      /\ \E item \in Sanitized(outbound.msg.items[outbound.at]) :
            outbound' = [outbound EXCEPT !.msg.items[outbound.at] = item, !.at = @ + 1]
  BY DEF SanitizeItem, At
<1>2. outbound.msg \in AnswerMessages
  <2>1. outbound.msg \in Messages /\ IsAnswer(outbound.msg)
    BY <1>0, <1>1 DEF OutTyped
  <2> QED
    BY <2>1, MessageKinds
<1>3. PICK item \in Sanitized(outbound.msg.items[outbound.at]) :
         outbound' = [outbound EXCEPT !.msg.items[outbound.at] = item, !.at = @ + 1]
  BY <1>1
<1>4. outbound.msg.items \in Seq(Items) /\ outbound.msg.items[outbound.at] \in Items
  BY <1>1, <1>2 DEF AnswerMessages
<1>5. item \in Items /\ item \notin RawKinds
  BY <1>4 DEF Sanitized, Items, RawKinds
<1> DEFINE its == [outbound.msg.items EXCEPT ![outbound.at] = item]
           m == [outbound.msg EXCEPT !.items = its]
<1>6. /\ its \in Seq(Items) /\ DOMAIN its = DOMAIN outbound.msg.items
      /\ its[outbound.at] = item
      /\ \A k \in DOMAIN outbound.msg.items : k # outbound.at => its[k] = outbound.msg.items[k]
  BY <1>1, <1>4, <1>5
<1>7. /\ outbound'.msg = m /\ outbound'.st = outbound.st /\ outbound'.at = outbound.at + 1
  BY <1>0, <1>2, <1>3 DEF OutTyped, AnswerMessages
<1> HIDE DEF its
<1>8. m \in AnswerMessages /\ m.id = outbound.msg.id /\ m.kind = outbound.msg.kind /\ m.items = its
  BY <1>2, <1>6 DEF AnswerMessages
<1> HIDE DEF m
<1> QED
  BY <1>1, <1>2, <1>5, <1>6, <1>7, <1>8

\* The second thread keeps the types.
LEMMA OutboundTyped ==
    ASSUME TypedInv, Outbound
    PROVE  TypedInv'
<1>0. InTyped /\ ChildTyped /\ OutTyped /\ ShimTyped
  BY TypedParts
<1>1. CASE Take
  <2>1. /\ toShim # <<>> /\ toShim' = Tail(toShim)
        /\ outbound' = [st |-> IF IsAnswer(Head(toShim)) /\ Head(toShim).id \in pending
                               THEN "sanitizing" ELSE "writing",
                        msg |-> Head(toShim), at |-> 1]
        /\ pending' = pending \ {Head(toShim).id}
    BY <1>1 DEF Take, Receive
  <2>2. /\ Head(toShim) \in Messages /\ toShim' \in Seq(Messages)
        /\ Len(toShim') = Len(toShim) - 1
    BY <1>0, <2>1, TailElems DEF ChildTyped
  <2>3. OutTyped'
    BY <2>1, <2>2 DEF OutTyped
  <2>4. ChildTyped'
    BY <1>0, <1>1, <2>2, ShimAssumption DEF ChildTyped, Take, Receive
  <2>5. InTyped' /\ ShimTyped'
    BY <1>0, <1>1, <2>1 DEF InTyped, ShimTyped, Take, Receive
  <2> QED
    BY <2>3, <2>4, <2>5, TypedParts
<1>2. CASE SanitizeItem
  <2>1. /\ outbound.msg \in AnswerMessages /\ outbound'.msg \in AnswerMessages
        /\ outbound'.st = "sanitizing" /\ outbound'.at = outbound.at + 1
    BY <1>2, ItemDoes
  <2>2. PICK item : outbound' = [outbound EXCEPT !.msg.items[outbound.at] = item, !.at = @ + 1]
    BY <1>2 DEF SanitizeItem
  <2>3. \E m : outbound' = [outbound EXCEPT !.msg = m, !.at = outbound.at + 1]
    BY <1>0, <2>2 DEF OutTyped
  <2>4. OutTyped'
    <3>1. PICK m : outbound' = [outbound EXCEPT !.msg = m, !.at = outbound.at + 1]
      BY <2>3
    <3>2. m \in Messages /\ IsAnswer(m)
      BY <1>0, <2>1, <3>1, MessageKinds DEF OutTyped
    <3>3. outbound' \in [st : {"reading", "sanitizing", "writing", "ended"},
                         msg : Messages \union {NoMessage}, at : Nat]
      <4>1. /\ outbound \in [st : {"reading", "sanitizing", "writing", "ended"},
                             msg : Messages \union {NoMessage}, at : Nat]
            /\ outbound.at + 1 \in Nat
        BY <1>0 DEF OutTyped
      <4>2. m \in Messages \union {NoMessage}
        BY <3>2
      <4> QED
        BY <3>1, <4>1, <4>2
    <3> QED
      BY <1>0, <2>1, <3>1, <3>2, <3>3 DEF OutTyped
  <2>5. InTyped' /\ ChildTyped' /\ ShimTyped'
    BY <1>0, <1>2 DEF InTyped, ChildTyped, ShimTyped, SanitizeItem, childVars
  <2> QED
    BY <2>4, <2>5, TypedParts
<1>3. CASE StopReading \/ EndSanitize \/ SanitizeRaises
  <2>1. /\ \/ outbound' = [outbound EXCEPT !.st = "ended"]
           \/ outbound.st = "sanitizing" /\ outbound' = [outbound EXCEPT !.st = "writing"]
        /\ UNCHANGED <<asked, inbound, pending, heard, up, sent, childVars>>
    BY <1>3 DEF StopReading, EndSanitize, SanitizeRaises, At
  <2>2. OutTyped'
    BY <1>0, <2>1 DEF OutTyped
  <2>3. InTyped' /\ ChildTyped' /\ ShimTyped'
    BY <1>0, <2>1 DEF InTyped, ChildTyped, ShimTyped, childVars
  <2> QED
    BY <2>2, <2>3, TypedParts
<1>4. CASE Write
  <2>1. /\ outbound' = [st |-> "reading", msg |-> NoMessage, at |-> 1]
        /\ UNCHANGED <<inbound, pending, up, sent, childVars>>
        /\ outbound.msg \in Messages
    BY <1>0, <1>4 DEF Write, At, OutTyped
  <2>2. OutTyped'
    BY <2>1 DEF OutTyped
  <2>3. InTyped' /\ ChildTyped'
    BY <1>0, <2>1 DEF InTyped, ChildTyped, childVars
  <2>4. heard' \in Messages \union {NoMessage}
    BY <1>0, <1>4, <2>1 DEF Write, ShimTyped
  <2>5. asked' \in [Ids -> {"nothing", "call", "list"}]
    BY <1>0, <1>4 DEF Write, ShimTyped
  <2>6. ShimTyped'
    BY <1>0, <2>1, <2>4, <2>5 DEF ShimTyped
  <2> QED
    BY <2>2, <2>3, <2>6, TypedParts
<1> QED
  BY <1>1, <1>2, <1>3, <1>4 DEF Outbound

\* Every step keeps the types.
LEMMA StepTyped == TypedInv /\ [Next]_vars => TypedInv'
<1> SUFFICES ASSUME TypedInv, [Next]_vars PROVE TypedInv'
  OBVIOUS
<1>1. CASE UNCHANGED vars
  BY <1>1 DEF vars, TypedInv, TypeOK, ThreadInv
<1> QED
  BY <1>1, InboundTyped, ChildStepsTyped, OutboundTyped DEF Next

\* So do the initial values.
LEMMA InitTyped == Init => TypedInv
  BY ShimAssumption DEF Init, TypedInv, TypeOK, ThreadInv

\* Every variable of the shim keeps its type, and no pipe holds more than it can.
THEOREM TypeCorrect == Spec => []TypeOK
<1>1. Init => TypedInv
  BY InitTyped
<1>2. TypedInv /\ [Next]_vars => TypedInv'
  BY StepTyped
<1>3. TypedInv => TypeOK
  BY DEF TypedInv
<1> QED
  BY <1>1, <1>2, <1>3, PTL DEF Spec

--------------------------------------------------------------------------------
(* Where the messages go.                                                      *)

\* What no step of the first thread touches, and no step of the second one.
ChildStays == UNCHANGED <<toChild, serving, toShim>>
PassingStays == Passing' = Passing
ReadingStays == Reading' = Reading

\* The first thread moves what it reads to the pipe to the child, or drops it.
LEMMA InboundMoves ==
    ASSUME TypedInv
    PROVE  /\ \A i \in Ids, kind \in {"call", "list"}, size \in Sizes :
                 Ask(i, kind, size) =>
                    /\ Reading = {} /\ asked[i] = "nothing"
                    /\ \E m \in Requests : Reading' = {m} /\ m.id = i /\ m.kind = kind
                    /\ asked' = [asked EXCEPT ![i] = kind]
                    /\ pending' = pending /\ ChildStays /\ PassingStays
           /\ Record => /\ \E m \in Requests : /\ Reading = {m} /\ m.kind = "call"
                                               /\ pending' = pending \union {m.id}
                        /\ inbound'.todo = <<"forward">>
                        /\ asked' = asked /\ ReadingStays /\ ChildStays /\ PassingStays
           /\ Forward => /\ \E m \in Requests : /\ Reading = {m}
                                                /\ toChild' \in {toChild, Append(toChild, m)}
                         /\ Reading' = {} /\ inbound.todo = <<"forward">>
                         /\ asked' = asked /\ pending' = pending /\ PassingStays
                         /\ UNCHANGED <<serving, toShim>>
           /\ ForwardBreaks \/ CloseInput =>
                         /\ Reading' \subseteq Reading
                         /\ asked' = asked /\ pending' = pending
                         /\ ChildStays /\ PassingStays
                         /\ inbound'.todo \in {<<>>, inbound.todo}
<1>0. InTyped /\ inbound \in [todo : Seq({"record", "forward"}),
                              msg : Requests \union {NoMessage}, open : BOOLEAN]
  BY TypedParts DEF InTyped
<1>1. /\ NextIs("record") => inbound.todo = <<"record", "forward">>
      /\ NextIs("forward") => inbound.todo = <<"forward">>
      /\ Tail(<<"record", "forward">>) = <<"forward">> /\ Tail(<<"forward">>) = <<>>
      /\ <<"forward">> # <<>> /\ <<"record", "forward">> # <<>>
  BY TodoSteps DEF TypedInv
<1>2. ASSUME NEW i \in Ids, NEW kind \in {"call", "list"}, NEW size \in Sizes,
             Ask(i, kind, size)
      PROVE  /\ Reading = {} /\ asked[i] = "nothing"
             /\ \E m \in Requests : Reading' = {m} /\ m.id = i /\ m.kind = kind
             /\ asked' = [asked EXCEPT ![i] = kind]
             /\ pending' = pending /\ ChildStays /\ PassingStays
  <2> DEFINE m == [kind |-> kind, id |-> i, size |-> size]
  <2>1. /\ inbound.todo = <<>> /\ asked[i] = "nothing"
        /\ asked' = [asked EXCEPT ![i] = kind]
        /\ inbound' = [inbound EXCEPT !.todo = Todo(kind), !.msg = m]
        /\ pending' = pending /\ ChildStays /\ outbound' = outbound
    BY <1>2 DEF Ask, ChildStays, childVars
  <2>2. m \in Requests /\ m.id = i /\ m.kind = kind
    BY <1>2, ShimAssumption DEF Requests
  <2>3. Todo(kind) # <<>>
    BY <1>1 DEF Todo
  <2> HIDE DEF m
  <2>4. inbound'.todo # <<>> /\ inbound'.msg = m
    BY <1>0, <2>1, <2>3
  <2> QED
    BY <2>1, <2>2, <2>4 DEF Reading, PassingStays, Passing
<1>3. ASSUME Record
      PROVE  /\ \E m \in Requests : /\ Reading = {m} /\ m.kind = "call"
                                    /\ pending' = pending \union {m.id}
             /\ inbound'.todo = <<"forward">>
             /\ asked' = asked /\ ReadingStays /\ ChildStays /\ PassingStays
  <2>1. /\ inbound.todo = <<"record", "forward">>
        /\ inbound' = [inbound EXCEPT !.todo = Tail(inbound.todo)]
        /\ pending' = pending \union {inbound.msg.id}
        /\ asked' = asked /\ ChildStays /\ outbound' = outbound
    BY <1>1, <1>3 DEF Record, Did, ChildStays, childVars
  <2>2. /\ inbound.msg \in Requests /\ inbound.msg.kind = "call"
        /\ inbound'.todo = <<"forward">> /\ inbound'.msg = inbound.msg
    BY <1>0, <1>1, <2>1 DEF InTyped
  <2> QED
    BY <1>1, <2>1, <2>2 DEF Reading, ReadingStays, PassingStays, Passing
<1>4. ASSUME Forward
      PROVE  /\ \E m \in Requests : /\ Reading = {m}
                                    /\ toChild' \in {toChild, Append(toChild, m)}
             /\ Reading' = {} /\ inbound.todo = <<"forward">>
             /\ asked' = asked /\ pending' = pending /\ PassingStays
             /\ UNCHANGED <<serving, toShim>>
  <2>1. /\ inbound.todo = <<"forward">>
        /\ inbound' = [inbound EXCEPT !.todo = Tail(inbound.todo)]
        /\ toChild' \in {toChild, Append(toChild, inbound.msg)}
        /\ UNCHANGED <<asked, pending, serving, toShim, outbound>>
    BY <1>1, <1>4 DEF Forward, Did
  <2>2. inbound.msg \in Requests /\ inbound'.todo = <<>>
    BY <1>0, <1>1, <2>1 DEF InTyped
  <2> QED
    BY <1>1, <2>1, <2>2 DEF Reading, PassingStays, Passing
<1>5. ASSUME ForwardBreaks \/ CloseInput
      PROVE  /\ Reading' \subseteq Reading
             /\ asked' = asked /\ pending' = pending
             /\ ChildStays /\ PassingStays
             /\ inbound'.todo \in {<<>>, inbound.todo}
  <2>1. /\ \/ inbound' = [inbound EXCEPT !.todo = <<>>, !.open = FALSE]
           \/ inbound' = [inbound EXCEPT !.open = FALSE]
        /\ UNCHANGED <<asked, pending, outbound>> /\ ChildStays
    BY <1>5 DEF ForwardBreaks, CloseInput, ChildStays, childVars
  <2>2. inbound'.todo \in {<<>>, inbound.todo} /\ inbound'.msg = inbound.msg
    BY <1>0, <2>1
  <2> QED
    BY <2>1, <2>2 DEF Reading, PassingStays, Passing
<1> QED
  BY <1>2, <1>3, <1>4, <1>5

\* The child moves requests to its own, and then their answers to the shim.
LEMMA ChildMoves ==
    ASSUME TypedInv
    PROVE  /\ ChildReads => /\ toChild # <<>> /\ toChild' = Tail(toChild)
                            /\ serving' = serving \union {Head(toChild)} /\ toShim' = toShim
           /\ ChildAnswers => \E q \in serving, m \in AnswerMessages :
                            /\ m.id = q.id /\ m.kind = q.kind
                            /\ serving' = serving \ {q}
                            /\ toShim' = Append(toShim, m) /\ toChild' = toChild
           /\ ChildSpeaks => \E m \in OtherMessages :
                            toShim' = Append(toShim, m) /\ UNCHANGED <<serving, toChild>>
           /\ ChildExits \/ Exit => toChild' = <<>> /\ serving' = {} /\ toShim' = toShim
           /\ ChildReads \/ ChildAnswers \/ ChildSpeaks \/ ChildExits \/ Exit =>
                 /\ asked' = asked /\ pending' = pending /\ inbound' = inbound
                 /\ outbound' = outbound /\ heard' = heard
<1>0. serving \subseteq Requests
  BY DEF TypedInv, TypeOK
<1>1. ASSUME ChildAnswers
      PROVE  \E q \in serving, m \in AnswerMessages :
                /\ m.id = q.id /\ m.kind = q.kind
                /\ serving' = serving \ {q}
                /\ toShim' = Append(toShim, m) /\ toChild' = toChild
  <2>1. PICK q \in serving, size \in Sizes :
           /\ serving' = serving \ {q}
           /\ \E content \in (IF q.kind = "call" THEN Contents ELSE {<<>>}) :
                 Emit([kind |-> q.kind, id |-> q.id, items |-> content, size |-> size])
    BY <1>1 DEF ChildAnswers
  <2>2. PICK content \in (IF q.kind = "call" THEN Contents ELSE {<<>>}) :
           Emit([kind |-> q.kind, id |-> q.id, items |-> content, size |-> size])
    BY <2>1
  <2> DEFINE m == [kind |-> q.kind, id |-> q.id, items |-> content, size |-> size]
  <2>3. m \in AnswerMessages /\ m.id = q.id /\ m.kind = q.kind
    BY <1>0, AnswerIsMessage
  <2>4. toShim' = Append(toShim, m) /\ toChild' = toChild
    BY <1>1, <2>2 DEF Emit, ChildAnswers
  <2> HIDE DEF m
  <2> QED
    BY <2>1, <2>3, <2>4
<1>2. ASSUME ChildSpeaks
      PROVE  \E m \in OtherMessages :
                toShim' = Append(toShim, m) /\ UNCHANGED <<serving, toChild>>
  <2>1. PICK m \in OtherMessages : Emit(m)
    BY <1>2 DEF ChildSpeaks, OtherMessages
  <2> QED
    BY <1>2, <2>1 DEF Emit, ChildSpeaks
<1>3. ChildReads => /\ toChild # <<>> /\ toChild' = Tail(toChild)
                    /\ serving' = serving \union {Head(toChild)} /\ toShim' = toShim
  BY DEF ChildReads
<1>4. ChildExits \/ Exit => toChild' = <<>> /\ serving' = {} /\ toShim' = toShim
  BY DEF ChildExits, Exit
<1>5. ChildReads \/ ChildAnswers \/ ChildSpeaks \/ ChildExits \/ Exit =>
         /\ asked' = asked /\ pending' = pending /\ inbound' = inbound
         /\ outbound' = outbound /\ heard' = heard
  BY DEF ChildReads, ChildAnswers, ChildSpeaks, ChildExits, Exit
<1> QED
  BY <1>1, <1>2, <1>3, <1>4, <1>5

\* The second thread takes the first message, passes it on and forgets it.
LEMMA OutboundMoves ==
    ASSUME TypedInv
    PROVE  /\ Take => /\ toShim # <<>> /\ toShim' = Tail(toShim)
                      /\ UNCHANGED <<toChild, serving, asked, heard>> /\ ReadingStays
                      /\ Passing = {}
                      /\ Passing' = {m \in {Head(toShim)} : IsAnswer(m)}
                      /\ pending' = pending \ {Head(toShim).id}
           /\ SanitizeItem => \E m, n \in AnswerMessages :
                      /\ Passing = {m} /\ Passing' = {n} /\ m.id = n.id /\ m.kind = n.kind
           /\ StopReading \/ EndSanitize \/ SanitizeRaises => Passing' \subseteq Passing
           /\ StopReading \/ SanitizeItem \/ EndSanitize \/ SanitizeRaises =>
                      /\ ChildStays /\ UNCHANGED <<asked, pending, heard>> /\ ReadingStays
           /\ Write => /\ Passing' = {} /\ pending' = pending /\ ChildStays /\ ReadingStays
                       /\ heard' = heard \/ heard' = outbound.msg
                       /\ \/ asked' = asked
                          \/ \E m \in Passing : /\ m.id \in Ids
                                                /\ asked' = [asked EXCEPT ![m.id] = "nothing"]
<1>0. OutTyped /\ outbound \in [st : {"reading", "sanitizing", "writing", "ended"},
                                msg : Messages \union {NoMessage}, at : Nat]
  BY TypedParts DEF OutTyped
<1>1. ASSUME Take
      PROVE  /\ toShim # <<>> /\ toShim' = Tail(toShim)
             /\ UNCHANGED <<toChild, serving, asked, heard>> /\ ReadingStays
             /\ Passing = {}
             /\ Passing' = {m \in {Head(toShim)} : IsAnswer(m)}
             /\ pending' = pending \ {Head(toShim).id}
  <2>1. /\ outbound.st = "reading" /\ outbound'.st \in {"sanitizing", "writing"}
        /\ outbound'.msg = Head(toShim) /\ inbound' = inbound
    BY <1>1 DEF Take, Receive, At
  <2>2. Passing = {}
    BY <2>1 DEF Passing
  <2>3. Passing' = {m \in {Head(toShim)} : IsAnswer(m)}
    BY <2>1 DEF Passing
  <2> QED
    BY <1>1, <2>1, <2>2, <2>3 DEF Take, Receive, Reading, ReadingStays
<1>2. ASSUME SanitizeItem
      PROVE  \E m, n \in AnswerMessages :
                /\ Passing = {m} /\ Passing' = {n} /\ m.id = n.id /\ m.kind = n.kind
  <2>1. /\ outbound.msg \in AnswerMessages /\ outbound'.msg \in AnswerMessages
        /\ outbound'.msg.id = outbound.msg.id /\ outbound'.msg.kind = outbound.msg.kind
        /\ outbound.st = "sanitizing" /\ outbound'.st = "sanitizing"
    BY <1>2, ItemDoes DEF SanitizeItem, At
  <2>2. Passing = {outbound.msg} /\ Passing' = {outbound'.msg}
    BY <2>1, MessageKinds DEF Passing
  <2> QED
    BY <2>1, <2>2
<1>3. ASSUME StopReading \/ EndSanitize \/ SanitizeRaises
      PROVE  Passing' \subseteq Passing
  <2>1. \/ outbound' = [outbound EXCEPT !.st = "ended"]
        \/ outbound.st = "sanitizing" /\ outbound' = [outbound EXCEPT !.st = "writing"]
    BY <1>3 DEF StopReading, EndSanitize, SanitizeRaises, At
  <2> QED
    BY <1>0, <2>1 DEF Passing
<1>4. StopReading \/ SanitizeItem \/ EndSanitize \/ SanitizeRaises =>
         /\ ChildStays /\ UNCHANGED <<asked, pending, heard>> /\ ReadingStays
  BY DEF StopReading, SanitizeItem, EndSanitize, SanitizeRaises, ChildStays, childVars,
         Reading, ReadingStays
<1>5. ASSUME Write
      PROVE  /\ Passing' = {} /\ pending' = pending /\ ChildStays /\ ReadingStays
             /\ heard' = heard \/ heard' = outbound.msg
             /\ \/ asked' = asked
                \/ \E m \in Passing : /\ m.id \in Ids
                                      /\ asked' = [asked EXCEPT ![m.id] = "nothing"]
  <2>1. /\ outbound.st = "writing" /\ outbound'.st = "reading"
        /\ UNCHANGED <<inbound, pending>> /\ ChildStays
        /\ heard' = heard \/ heard' = outbound.msg
        /\ \/ asked' = asked
           \/ IsAnswer(outbound.msg) /\ asked' = [asked EXCEPT ![outbound.msg.id] = "nothing"]
    BY <1>5 DEF Write, At, ChildStays, childVars
  <2>2. IsAnswer(outbound.msg) => outbound.msg \in Passing /\ outbound.msg.id \in Ids
    BY <1>0, <2>1, MessageKinds DEF OutTyped, AnswerMessages, Passing
  <2>3. Passing' = {}
    BY <2>1 DEF Passing
  <2> QED
    BY <2>1, <2>2, <2>3 DEF Reading, ReadingStays
<1> QED
  BY <1>1, <1>2, <1>3, <1>4, <1>5

\* What a step that reads a pipe or writes to it does to the messages in it.
LEMMA PlacesMove ==
    ASSUME TypedInv, Distinct(toChild), Distinct(toShim)
    PROVE  /\ ChildStays => /\ Elems(toChild)' = Elems(toChild) /\ serving' = serving
                            /\ Answers(toShim)' = Answers(toShim)
                            /\ Distinct(toChild)' /\ Distinct(toShim)'
           /\ \A m \in Requests : toChild' = Append(toChild, m) =>
                 /\ Elems(toChild)' = Elems(toChild) \union {m}
                 /\ (\A x \in Elems(toChild) : x.id # m.id) => Distinct(toChild)'
           /\ toChild # <<>> /\ toChild' = Tail(toChild) =>
                 /\ Head(toChild) \in Requests
                 /\ Elems(toChild) = Elems(toChild)' \union {Head(toChild)}
                 /\ Distinct(toChild)'
                 /\ \A x \in Elems(toChild)' : x.id # Head(toChild).id
           /\ toChild' = <<>> => Elems(toChild)' = {} /\ Distinct(toChild)'
           /\ \A m \in AnswerMessages : toShim' = Append(toShim, m) =>
                 /\ Answers(toShim)' = Answers(toShim) \union {m}
                 /\ (\A x \in Answers(toShim) : x.id # m.id) => Distinct(toShim)'
           /\ \A m \in OtherMessages : toShim' = Append(toShim, m) =>
                 Answers(toShim)' = Answers(toShim) /\ Distinct(toShim)'
           /\ toShim # <<>> /\ toShim' = Tail(toShim) =>
                 /\ Head(toShim) \in Messages
                 /\ Answers(toShim) = Answers(toShim)'
                                      \union {m \in {Head(toShim)} : IsAnswer(m)}
                 /\ Distinct(toShim)'
                 /\ IsAnswer(Head(toShim)) =>
                       \A x \in Answers(toShim)' : x.id # Head(toShim).id
           /\ toChild' = toChild => Elems(toChild)' = Elems(toChild) /\ Distinct(toChild)'
           /\ toShim' = toShim => Answers(toShim)' = Answers(toShim) /\ Distinct(toShim)'
<1>0. toChild \in Seq(Requests) /\ toShim \in Seq(Messages)
  BY DEF TypedInv, TypeOK
<1>1. toChild' = toChild => Elems(toChild)' = Elems(toChild) /\ Distinct(toChild)'
  BY DEF Elems, Distinct
<1>2. toShim' = toShim => Answers(toShim)' = Answers(toShim) /\ Distinct(toShim)'
  BY DEF Elems, Answers, Distinct
<1>3. ASSUME NEW m \in Requests, toChild' = Append(toChild, m)
      PROVE  /\ Elems(toChild)' = Elems(toChild) \union {m}
             /\ (\A x \in Elems(toChild) : x.id # m.id) => Distinct(toChild)'
  <2>1. /\ Elems(Append(toChild, m)) = Elems(toChild) \union {m}
        /\ (\A x \in Answers(toChild) : x.id # m.id) => Distinct(Append(toChild, m))
    BY <1>0, AppendElems
  <2>2. /\ Elems(toChild)' = Elems(Append(toChild, m))
        /\ Distinct(toChild)' <=> Distinct(Append(toChild, m))
    BY <1>3 DEF Elems, Distinct
  <2> QED
    BY <1>0, <2>1, <2>2, AllAnswers
<1>4. ASSUME toChild # <<>>, toChild' = Tail(toChild)
      PROVE  /\ Head(toChild) \in Requests
             /\ Elems(toChild) = Elems(toChild)' \union {Head(toChild)}
             /\ Distinct(toChild)'
             /\ \A x \in Elems(toChild)' : x.id # Head(toChild).id
  <2>1. /\ Head(toChild) \in Requests /\ Tail(toChild) \in Seq(Requests)
        /\ Elems(toChild) = Elems(Tail(toChild)) \union {Head(toChild)}
        /\ Distinct(Tail(toChild))
        /\ IsAnswer(Head(toChild)) =>
              \A x \in Answers(Tail(toChild)) : x.id # Head(toChild).id
    BY <1>0, <1>4, TailElems
  <2>2. /\ Elems(toChild)' = Elems(Tail(toChild))
        /\ Distinct(toChild)' <=> Distinct(Tail(toChild))
    BY <1>4 DEF Elems, Distinct
  <2>3. IsAnswer(Head(toChild)) /\ Answers(Tail(toChild)) = Elems(Tail(toChild))
    BY <2>1, AllAnswers, MessageKinds
  <2> QED
    BY <2>1, <2>2, <2>3
<1>5. toChild' = <<>> => Elems(toChild)' = {} /\ Distinct(toChild)'
  BY DEF Elems, Distinct
<1>6. ASSUME NEW m \in Messages, toShim' = Append(toShim, m)
      PROVE  /\ Elems(toShim)' = Elems(toShim) \union {m}
             /\ (IsAnswer(m) => \A x \in Answers(toShim) : x.id # m.id) => Distinct(toShim)'
  <2>1. /\ Elems(Append(toShim, m)) = Elems(toShim) \union {m}
        /\ (IsAnswer(m) => \A x \in Answers(toShim) : x.id # m.id)
              => Distinct(Append(toShim, m))
    BY <1>0, AppendElems
  <2>2. /\ Elems(toShim)' = Elems(Append(toShim, m))
        /\ Distinct(toShim)' <=> Distinct(Append(toShim, m))
    BY <1>6 DEF Elems, Distinct
  <2> QED
    BY <2>1, <2>2
<1>7. Answers(toShim)' = {m \in Elems(toShim)' : IsAnswer(m)}
  BY DEF Answers, Elems
<1>8. ASSUME toShim # <<>>, toShim' = Tail(toShim)
      PROVE  /\ Head(toShim) \in Messages
             /\ Answers(toShim) = Answers(toShim)' \union {m \in {Head(toShim)} : IsAnswer(m)}
             /\ Distinct(toShim)'
             /\ IsAnswer(Head(toShim)) =>
                   \A x \in Answers(toShim)' : x.id # Head(toShim).id
  <2>1. /\ Head(toShim) \in Messages
        /\ Elems(toShim) = Elems(Tail(toShim)) \union {Head(toShim)}
        /\ Distinct(Tail(toShim))
        /\ IsAnswer(Head(toShim)) =>
              \A x \in Answers(Tail(toShim)) : x.id # Head(toShim).id
    BY <1>0, <1>8, TailElems
  <2>2. /\ Elems(toShim)' = Elems(Tail(toShim)) /\ Answers(toShim)' = Answers(Tail(toShim))
        /\ Distinct(toShim)' <=> Distinct(Tail(toShim))
    BY <1>8 DEF Elems, Answers, Distinct
  <2> QED
    BY <1>7, <2>1, <2>2 DEF Answers
<1>9. ASSUME NEW m \in AnswerMessages, toShim' = Append(toShim, m)
      PROVE  /\ Answers(toShim)' = Answers(toShim) \union {m}
             /\ (\A x \in Answers(toShim) : x.id # m.id) => Distinct(toShim)'
  BY <1>6, <1>7, <1>9, MessageKinds DEF Answers
<1>10. ASSUME NEW m \in OtherMessages, toShim' = Append(toShim, m)
       PROVE  Answers(toShim)' = Answers(toShim) /\ Distinct(toShim)'
  BY <1>6, <1>7, <1>10, MessageKinds DEF Answers
<1>11. ChildStays => toChild' = toChild /\ toShim' = toShim /\ serving' = serving
  BY DEF ChildStays
<1> QED
  BY <1>1, <1>2, <1>3, <1>4, <1>5, <1>8, <1>9, <1>10, <1>11

--------------------------------------------------------------------------------
(* The invariant.                                                              *)

WaitInv == AwaitedInv /\ OnceInv /\ PendingInv

\* All messages in a place have ids the client asked under.
LEMMA PlacesTyped ==
    ASSUME TypedInv
    PROVE  /\ Reading \subseteq Requests /\ Elems(toChild) \subseteq Requests
           /\ serving \subseteq Requests /\ Answers(toShim) \subseteq AnswerMessages
           /\ Passing \subseteq AnswerMessages
           /\ \A m \in Requests \union AnswerMessages :
                 m.id \in Ids /\ m.kind \in {"call", "list"}
           /\ asked \in [Ids -> {"nothing", "call", "list"}] /\ pending \subseteq Ids
<1>1. Reading \subseteq Requests
  BY DEF TypedInv, ThreadInv, Reading
<1>2. Elems(toChild) \subseteq Requests /\ serving \subseteq Requests
  BY DEF TypedInv, TypeOK, Elems
<1>3. Elems(toShim) \subseteq Messages
  BY DEF TypedInv, TypeOK, Elems
<1>4. Answers(toShim) \subseteq AnswerMessages
  BY <1>3, MessageKinds DEF Answers
<1>5. Passing \subseteq AnswerMessages
  BY MessageKinds DEF TypedInv, ThreadInv, Passing
<1>6. \A m \in Requests \union AnswerMessages : m.id \in Ids /\ m.kind \in {"call", "list"}
  BY DEF Requests, AnswerMessages
<1>7. asked \in [Ids -> {"nothing", "call", "list"}] /\ pending \subseteq Ids
  BY DEF TypedInv, TypeOK
<1> QED
  BY <1>1, <1>2, <1>4, <1>5, <1>6, <1>7

\* A new request has an id under which nothing is under way.
LEMMA AskKeeps ==
    ASSUME TypedInv, WaitInv, NEW i \in Ids, NEW kind \in {"call", "list"},
           NEW size \in Sizes, Ask(i, kind, size)
    PROVE  WaitInv'
<1>1. /\ Reading = {} /\ asked[i] = "nothing"
      /\ asked' = [asked EXCEPT ![i] = kind]
      /\ pending' = pending /\ ChildStays /\ Passing' = Passing
  BY InboundMoves DEF PassingStays
<1>2. PICK m \in Requests : Reading' = {m} /\ m.id = i /\ m.kind = kind
  BY InboundMoves
<1>3. /\ Elems(toChild)' = Elems(toChild) /\ serving' = serving
      /\ Answers(toShim)' = Answers(toShim)
      /\ Distinct(toChild)' /\ Distinct(toShim)'
  BY <1>1, PlacesMove DEF WaitInv, OnceInv
<1>4. \A x \in Elems(toChild) \union serving \union Answers(toShim) \union Passing :
         x.id # i /\ x.id \in Ids /\ asked'[x.id] = asked[x.id]
  BY <1>1, PlacesTyped DEF WaitInv, AwaitedInv, Awaited
<1>5. AwaitedInv'
  BY <1>1, <1>2, <1>3, <1>4, PlacesTyped DEF WaitInv, AwaitedInv, Awaited
<1>6. OnceInv'
  BY <1>1, <1>2, <1>3, <1>4 DEF WaitInv, OnceInv, Apart
<1>7. PendingInv'
  BY <1>1, PlacesTyped DEF WaitInv, PendingInv, PendingIsAsked
<1> QED
  BY <1>5, <1>6, <1>7 DEF WaitInv

\* The first thread records and passes on what the client waits for.
LEMMA InboundKeeps ==
    ASSUME TypedInv, WaitInv, Record \/ Forward \/ ForwardBreaks \/ CloseInput
    PROVE  WaitInv'
<1>0. AwaitedInv /\ OnceInv /\ PendingInv /\ Distinct(toChild) /\ Distinct(toShim)
  BY DEF WaitInv, OnceInv
<1>1. CASE Record
  <2>1. PICK m \in Requests : Reading = {m} /\ m.kind = "call" /\ pending' = pending \union {m.id}
    BY <1>1, InboundMoves
  <2>2. asked' = asked /\ Reading' = Reading /\ ChildStays /\ Passing' = Passing
    BY <1>1, InboundMoves DEF ReadingStays, PassingStays
  <2>3. /\ Elems(toChild)' = Elems(toChild) /\ serving' = serving
        /\ Answers(toShim)' = Answers(toShim) /\ Distinct(toChild)' /\ Distinct(toShim)'
    BY <1>0, <2>2, PlacesMove
  <2>4. asked[m.id] = "call" /\ \A x \in Passing : x.id # m.id
    BY <1>0, <2>1 DEF AwaitedInv, Awaited, OnceInv, Apart
  <2>5. AwaitedInv' /\ OnceInv'
    BY <1>0, <2>2, <2>3 DEF AwaitedInv, Awaited, OnceInv, Apart
  <2>6. PendingInv'
    BY <1>0, <2>1, <2>2, <2>4 DEF PendingInv, PendingIsAsked
  <2> QED
    BY <2>5, <2>6 DEF WaitInv
<1>2. CASE Forward
  <2>1. PICK m \in Requests : Reading = {m} /\ toChild' \in {toChild, Append(toChild, m)}
    BY <1>2, InboundMoves
  <2>2. /\ asked' = asked /\ pending' = pending /\ Reading' = {} /\ Passing' = Passing
        /\ serving' = serving /\ toShim' = toShim
    BY <1>2, InboundMoves DEF PassingStays
  <2>3. Answers(toShim)' = Answers(toShim) /\ Distinct(toShim)'
    BY <1>0, <2>2, PlacesMove
  <2>4. \A x \in Elems(toChild) : x.id # m.id
    BY <1>0, <2>1 DEF OnceInv, Apart
  <2>5. /\ Elems(toChild)' \subseteq Elems(toChild) \union {m}
        /\ Distinct(toChild)'
    BY <1>0, <2>1, <2>4, PlacesMove
  <2>6. AwaitedInv'
    BY <1>0, <2>1, <2>2, <2>3, <2>5 DEF AwaitedInv, Awaited
  <2>7. OnceInv'
    BY <1>0, <2>1, <2>2, <2>3, <2>5 DEF OnceInv, Apart
  <2>8. PendingInv'
    BY <1>0, <2>2 DEF PendingInv, PendingIsAsked
  <2> QED
    BY <2>6, <2>7, <2>8 DEF WaitInv
<1>3. CASE ForwardBreaks \/ CloseInput
  <2>1. /\ Reading' \subseteq Reading
        /\ asked' = asked /\ pending' = pending /\ ChildStays /\ Passing' = Passing
    BY <1>3, InboundMoves DEF PassingStays
  <2>2. /\ Elems(toChild)' = Elems(toChild) /\ serving' = serving
        /\ Answers(toShim)' = Answers(toShim) /\ Distinct(toChild)' /\ Distinct(toShim)'
    BY <1>0, <2>1, PlacesMove
  <2>3. AwaitedInv' /\ OnceInv' /\ PendingInv'
    BY <1>0, <2>1, <2>2 DEF AwaitedInv, Awaited, OnceInv, Apart, PendingInv, PendingIsAsked
  <2> QED
    BY <2>3 DEF WaitInv
<1> QED
  BY <1>1, <1>2, <1>3

\* The child answers each request once.
LEMMA ChildKeeps ==
    ASSUME TypedInv, WaitInv, ChildReads \/ ChildAnswers \/ ChildSpeaks \/ ChildExits \/ Exit
    PROVE  WaitInv'
<1>0. AwaitedInv /\ OnceInv /\ PendingInv /\ Distinct(toChild) /\ Distinct(toShim)
  BY DEF WaitInv, OnceInv
<1>1. asked' = asked /\ pending' = pending /\ Reading' = Reading /\ Passing' = Passing
  BY ChildMoves DEF Reading, Passing
<1>2. PendingInv'
  BY <1>0, <1>1 DEF PendingInv, PendingIsAsked
<1>3. CASE ChildReads
  <2>1. /\ toChild # <<>> /\ toChild' = Tail(toChild)
        /\ serving' = serving \union {Head(toChild)} /\ toShim' = toShim
    BY <1>3, ChildMoves
  <2>2. /\ Elems(toChild) = Elems(toChild)' \union {Head(toChild)}
        /\ Distinct(toChild)' /\ \A x \in Elems(toChild)' : x.id # Head(toChild).id
        /\ Answers(toShim)' = Answers(toShim) /\ Distinct(toShim)'
    BY <1>0, <2>1, PlacesMove
  <2>3. AwaitedInv'
    BY <1>0, <1>1, <2>1, <2>2 DEF AwaitedInv, Awaited
  <2>4. OnceInv'
    BY <1>0, <1>1, <2>1, <2>2 DEF OnceInv, Apart
  <2> QED
    BY <1>2, <2>3, <2>4 DEF WaitInv
<1>4. CASE ChildAnswers
  <2>1. PICK q \in serving, m \in AnswerMessages :
           /\ m.id = q.id /\ m.kind = q.kind /\ serving' = serving \ {q}
           /\ toShim' = Append(toShim, m) /\ toChild' = toChild
    BY <1>4, ChildMoves
  <2>2. \A x \in Answers(toShim) : x.id # m.id
    BY <1>0, <2>1 DEF OnceInv, Apart
  <2>3. /\ Answers(toShim)' = Answers(toShim) \union {m} /\ Distinct(toShim)'
        /\ Elems(toChild)' = Elems(toChild) /\ Distinct(toChild)'
    BY <1>0, <2>1, <2>2, PlacesMove
  <2>4. AwaitedInv'
    BY <1>0, <1>1, <2>1, <2>3 DEF AwaitedInv, Awaited
  <2>5. \A x \in serving' : x.id # m.id
    BY <1>0, <2>1 DEF OnceInv
  <2>6. OnceInv'
    BY <1>0, <1>1, <2>1, <2>3, <2>5 DEF OnceInv, Apart
  <2> QED
    BY <1>2, <2>4, <2>6 DEF WaitInv
<1>5. CASE ChildSpeaks
  <2>1. PICK m \in OtherMessages : toShim' = Append(toShim, m)
    BY <1>5, ChildMoves
  <2>2. serving' = serving /\ toChild' = toChild
    BY <1>5, ChildMoves
  <2>3. /\ Answers(toShim)' = Answers(toShim) /\ Distinct(toShim)'
        /\ Elems(toChild)' = Elems(toChild) /\ Distinct(toChild)'
    BY <1>0, <2>1, <2>2, PlacesMove
  <2>4. AwaitedInv' /\ OnceInv'
    BY <1>0, <1>1, <2>2, <2>3 DEF AwaitedInv, Awaited, OnceInv, Apart
  <2> QED
    BY <1>2, <2>4 DEF WaitInv
<1>6. CASE ChildExits \/ Exit
  <2>1. toChild' = <<>> /\ serving' = {} /\ toShim' = toShim
    BY <1>6, ChildMoves
  <2>2. /\ Answers(toShim)' = Answers(toShim) /\ Distinct(toShim)'
        /\ Elems(toChild)' = {} /\ Distinct(toChild)'
    BY <1>0, <2>1, PlacesMove
  <2>3. AwaitedInv' /\ OnceInv'
    BY <1>0, <1>1, <2>1, <2>2 DEF AwaitedInv, Awaited, OnceInv, Apart
  <2> QED
    BY <1>2, <2>3 DEF WaitInv
<1> QED
  BY <1>3, <1>4, <1>5, <1>6

\* The second thread takes an id out of pending_calls before it passes the answer on,
\* and when the client has it, no message of that id is left anywhere.
LEMMA OutboundKeeps ==
    ASSUME TypedInv, WaitInv, Outbound
    PROVE  WaitInv'
<1>0. AwaitedInv /\ OnceInv /\ PendingInv /\ Distinct(toChild) /\ Distinct(toShim)
  BY DEF WaitInv, OnceInv
<1>1. CASE Take
  <2>1. /\ toShim # <<>> /\ toShim' = Tail(toShim)
        /\ toChild' = toChild /\ serving' = serving /\ asked' = asked /\ Reading' = Reading
        /\ Passing' = {m \in {Head(toShim)} : IsAnswer(m)}
        /\ pending' = pending \ {Head(toShim).id}
    BY <1>1, OutboundMoves DEF ReadingStays
  <2>2. /\ Answers(toShim) = Answers(toShim)' \union Passing'
        /\ Distinct(toShim)'
        /\ \A x \in Answers(toShim)', y \in Passing' : x.id # y.id
        /\ Elems(toChild)' = Elems(toChild) /\ Distinct(toChild)'
    BY <1>0, <2>1, PlacesMove
  <2>3. AwaitedInv'
    BY <1>0, <2>1, <2>2 DEF AwaitedInv, Awaited
  <2>4. OnceInv'
    BY <1>0, <2>1, <2>2 DEF OnceInv, Apart
  <2>5. PendingInv'
    BY <1>0, <2>1 DEF PendingInv, PendingIsAsked
  <2> QED
    BY <2>3, <2>4, <2>5 DEF WaitInv
<1>2. ASSUME ChildStays, asked' = asked, pending' = pending, Reading' = Reading,
             \A y \in Passing' : \E x \in Passing : y.id = x.id /\ y.kind = x.kind
      PROVE  WaitInv'
  <2>1. /\ Elems(toChild)' = Elems(toChild) /\ serving' = serving
        /\ Answers(toShim)' = Answers(toShim) /\ Distinct(toChild)' /\ Distinct(toShim)'
    BY <1>0, <1>2, PlacesMove
  <2>2. AwaitedInv'
    BY <1>0, <1>2, <2>1 DEF AwaitedInv, Awaited
  <2>3. OnceInv'
    BY <1>0, <1>2, <2>1 DEF OnceInv, Apart
  <2>4. PendingInv'
    BY <1>0, <1>2 DEF PendingInv, PendingIsAsked
  <2> QED
    BY <2>2, <2>3, <2>4 DEF WaitInv
<1>3. CASE SanitizeItem
  <2>1. PICK m, n \in AnswerMessages :
           Passing = {m} /\ Passing' = {n} /\ m.id = n.id /\ m.kind = n.kind
    BY <1>3, OutboundMoves
  <2> QED
    BY <1>2, <1>3, <2>1, OutboundMoves DEF ReadingStays
<1>4. CASE StopReading \/ EndSanitize \/ SanitizeRaises
  BY <1>2, <1>4, OutboundMoves DEF ReadingStays
<1>5. CASE Write
  <2>1. Passing' = {} /\ pending' = pending /\ ChildStays /\ Reading' = Reading
    BY <1>5, OutboundMoves DEF ReadingStays
  <2>2. CASE asked' = asked
    BY <1>2, <2>1, <2>2
  <2>3. CASE \E m \in Passing : m.id \in Ids /\ asked' = [asked EXCEPT ![m.id] = "nothing"]
    <3>1. PICK m \in Passing : m.id \in Ids /\ asked' = [asked EXCEPT ![m.id] = "nothing"]
      BY <2>3
    <3>2. /\ Elems(toChild)' = Elems(toChild) /\ serving' = serving
          /\ Answers(toShim)' = Answers(toShim) /\ Distinct(toChild)' /\ Distinct(toShim)'
      BY <1>0, <2>1, PlacesMove
    <3>3. \A x \in Reading \union Elems(toChild) \union serving \union Answers(toShim) :
             x.id # m.id /\ x.id \in Ids
      BY <1>0, <3>1, PlacesTyped DEF OnceInv, Apart
    <3>4. \A i \in Ids : i # m.id => asked'[i] = asked[i]
      BY <3>1, PlacesTyped
    <3>5. AwaitedInv'
      BY <1>0, <2>1, <3>2, <3>3, <3>4 DEF AwaitedInv, Awaited
    <3>6. OnceInv'
      BY <1>0, <2>1, <3>2 DEF OnceInv, Apart
    <3>7. PendingInv'
      BY <1>0, <2>1, <3>1, <3>4, PlacesTyped DEF PendingInv, PendingIsAsked
    <3> QED
      BY <3>5, <3>6, <3>7 DEF WaitInv
  <2> QED
    BY <1>5, <2>2, <2>3, OutboundMoves
<1> QED
  BY <1>1, <1>3, <1>4, <1>5 DEF Outbound

\* Calls are recorded before they are passed on, and stay so until their answers are
\* taken: no other message takes their ids away.
LEMMA RecordedKeeps ==
    ASSUME TypedInv, WaitInv, RecordedInv, Ids \intersect ChildIds = {}, Next
    PROVE  RecordedInv'
<1>0. /\ AwaitedInv /\ OnceInv /\ PendingInv /\ Distinct(toChild) /\ Distinct(toShim)
  BY DEF WaitInv, OnceInv
<1>1. ASSUME NEW i \in Ids, NEW kind \in {"call", "list"}, NEW size \in Sizes,
             Ask(i, kind, size)
      PROVE  RecordedInv'
  <2>1. /\ pending' = pending /\ ChildStays
        /\ \E m \in Requests : Reading' = {m} /\ m.id = i /\ m.kind = kind
    BY <1>1, InboundMoves
  <2>2. inbound'.todo = Todo(kind)
    BY <1>1 DEF Ask, TypedInv, TypeOK
  <2>3. inbound'.todo = <<"forward">> => kind # "call"
    BY <2>2, TodoSteps DEF Todo, TypedInv
  <2>4. /\ Elems(toChild)' = Elems(toChild) /\ serving' = serving
        /\ Answers(toShim)' = Answers(toShim)
    BY <1>0, <2>1, PlacesMove
  <2> QED
    BY <2>1, <2>3, <2>4 DEF RecordedInv, Recorded
<1>2. CASE Record
  <2>1. /\ ChildStays /\ Reading' = Reading
        /\ \E m \in Requests : Reading = {m} /\ pending' = pending \union {m.id}
    BY <1>2, InboundMoves DEF ReadingStays
  <2>2. /\ Elems(toChild)' = Elems(toChild) /\ serving' = serving
        /\ Answers(toShim)' = Answers(toShim)
    BY <1>0, <2>1, PlacesMove
  <2> QED
    BY <2>1, <2>2 DEF RecordedInv, Recorded
<1>3. CASE Forward
  <2>1. /\ inbound.todo = <<"forward">> /\ Reading' = {} /\ pending' = pending
        /\ serving' = serving /\ toShim' = toShim
    BY <1>3, InboundMoves
  <2>2. PICK m \in Requests : Reading = {m} /\ toChild' \in {toChild, Append(toChild, m)}
    BY <1>3, InboundMoves
  <2>3. /\ Elems(toChild)' \subseteq Elems(toChild) \union {m}
        /\ Answers(toShim)' = Answers(toShim)
    BY <1>0, <2>1, <2>2, PlacesMove
  <2> QED
    BY <2>1, <2>2, <2>3 DEF RecordedInv, Recorded
<1>4. CASE ForwardBreaks \/ CloseInput
  <2>1. /\ Reading' \subseteq Reading /\ pending' = pending /\ ChildStays
        /\ inbound'.todo \in {<<>>, inbound.todo}
    BY <1>4, InboundMoves
  <2>2. /\ Elems(toChild)' = Elems(toChild) /\ serving' = serving
        /\ Answers(toShim)' = Answers(toShim)
    BY <1>0, <2>1, PlacesMove
  <2> QED
    BY <2>1, <2>2, TodoSteps DEF RecordedInv, Recorded, TypedInv
<1>5. CASE ChildReads \/ ChildAnswers \/ ChildSpeaks \/ ChildExits \/ Exit
  <2>1. pending' = pending /\ inbound' = inbound /\ Reading' = Reading
    BY <1>5, ChildMoves DEF Reading
  <2>2. CASE ChildReads
    <3>1. /\ toChild # <<>> /\ toChild' = Tail(toChild)
          /\ serving' = serving \union {Head(toChild)} /\ toShim' = toShim
      BY <2>2, ChildMoves
    <3>2. /\ Elems(toChild) = Elems(toChild)' \union {Head(toChild)}
          /\ Answers(toShim)' = Answers(toShim)
      BY <1>0, <3>1, PlacesMove
    <3> QED
      BY <2>1, <3>1, <3>2 DEF RecordedInv, Recorded
  <2>3. CASE ChildAnswers
    <3>1. PICK q \in serving, m \in AnswerMessages :
             /\ m.id = q.id /\ m.kind = q.kind /\ serving' = serving \ {q}
             /\ toShim' = Append(toShim, m) /\ toChild' = toChild
      BY <2>3, ChildMoves
    <3>2. /\ Answers(toShim)' = Answers(toShim) \union {m}
          /\ Elems(toChild)' = Elems(toChild)
      BY <1>0, <3>1, PlacesMove
    <3> QED
      BY <2>1, <3>1, <3>2 DEF RecordedInv, Recorded
  <2>4. CASE ChildSpeaks
    <3>1. PICK m \in OtherMessages : toShim' = Append(toShim, m)
      BY <2>4, ChildMoves
    <3>2. serving' = serving /\ toChild' = toChild
      BY <2>4, ChildMoves
    <3>3. Answers(toShim)' = Answers(toShim) /\ Elems(toChild)' = Elems(toChild)
      BY <1>0, <3>1, <3>2, PlacesMove
    <3> QED
      BY <2>1, <3>2, <3>3 DEF RecordedInv, Recorded
  <2>5. CASE ChildExits \/ Exit
    <3>1. toChild' = <<>> /\ serving' = {} /\ toShim' = toShim
      BY <2>5, ChildMoves
    <3>2. Answers(toShim)' = Answers(toShim) /\ Elems(toChild)' = {}
      BY <1>0, <3>1, PlacesMove
    <3> QED
      BY <2>1, <3>1, <3>2 DEF RecordedInv, Recorded
  <2> QED
    BY <1>5, <2>2, <2>3, <2>4, <2>5
<1>6. CASE Take
  <2>1. /\ toShim # <<>> /\ toShim' = Tail(toShim)
        /\ toChild' = toChild /\ serving' = serving /\ Reading' = Reading
        /\ pending' = pending \ {Head(toShim).id}
    BY <1>6, OutboundMoves DEF ReadingStays
  <2>2. inbound' = inbound
    BY <1>6 DEF Take, Receive
  <2>3. /\ Head(toShim) \in Messages
        /\ Answers(toShim) = Answers(toShim)' \union {m \in {Head(toShim)} : IsAnswer(m)}
        /\ IsAnswer(Head(toShim)) => \A x \in Answers(toShim)' : x.id # Head(toShim).id
        /\ Elems(toChild)' = Elems(toChild)
    BY <1>0, <2>1, PlacesMove
  <2>4. \A x \in Reading \union Elems(toChild) \union serving \union Answers(toShim)' :
           x.id # Head(toShim).id
    <3>1. CASE IsAnswer(Head(toShim))
      BY <1>0, <2>3, <3>1 DEF OnceInv, Apart
    <3>2. CASE ~IsAnswer(Head(toShim))
      <4>1. Head(toShim).id \in ChildIds \union {"none"}
        BY <2>3, <3>2, MessageKinds DEF OtherMessages
      <4>2. Head(toShim).id \notin Ids
        BY <4>1, ShimAssumption
      <4> QED
        BY <2>3, <4>2, PlacesTyped
    <3> QED
      BY <3>1, <3>2
  <2> QED
    BY <2>1, <2>2, <2>3, <2>4 DEF RecordedInv, Recorded
<1>7. CASE StopReading \/ SanitizeItem \/ EndSanitize \/ SanitizeRaises \/ Write
  <2>1. /\ pending' = pending /\ ChildStays /\ Reading' = Reading
    BY <1>7, OutboundMoves DEF ReadingStays
  <2>2. inbound' = inbound
    BY <1>7 DEF StopReading, SanitizeItem, EndSanitize, SanitizeRaises, Write
  <2>3. /\ Elems(toChild)' = Elems(toChild) /\ serving' = serving
        /\ Answers(toShim)' = Answers(toShim)
    BY <1>0, <2>1, PlacesMove
  <2> QED
    BY <2>1, <2>2, <2>3 DEF RecordedInv, Recorded
<1> QED
  BY <1>1, <1>2, <1>3, <1>4, <1>5, <1>6, <1>7 DEF Next, Outbound

\* Items are sanitized from the first to the last, and nothing is written before.
LEMMA CleanKeeps ==
    ASSUME TypedInv, RecordedInv, CleanInv, OnlySanitized, Next
    PROVE  CleanInv' /\ OnlySanitized'
<1>0. outbound.at \in Nat /\ outbound.at >= 1 /\ toShim \in Seq(Messages)
  BY DEF TypedInv, TypeOK, ThreadInv
<1>1. ASSUME outbound' = outbound, heard' = heard
      PROVE  CleanInv' /\ OnlySanitized'
  BY <1>1 DEF CleanInv, OnlySanitized
<1>2. CASE Take
  <2>1. /\ outbound'.st = IF IsAnswer(Head(toShim)) /\ Head(toShim).id \in pending
                          THEN "sanitizing" ELSE "writing"
        /\ outbound'.msg = Head(toShim) /\ outbound'.at = 1 /\ heard' = heard
        /\ toShim # <<>>
    BY <1>2 DEF Take, Receive
  <2>2. Head(toShim) \in Messages /\ Head(toShim) \in Elems(toShim)
    BY <1>0, <2>1, TailElems
  <2>3. Head(toShim).kind = "call" => outbound'.st = "sanitizing"
    BY <2>1, <2>2 DEF RecordedInv, Recorded, Answers, IsAnswer
  <2>4. outbound'.st = "sanitizing" =>
           \A k \in DOMAIN Head(toShim).items : ~(k < 1)
    <3>1. ASSUME IsAnswer(Head(toShim))
          PROVE  Head(toShim).items \in Seq(Items)
      BY <2>2, <3>1, MessageKinds DEF AnswerMessages
    <3> QED
      BY <2>1, <3>1
  <2> QED
    BY <2>1, <2>3, <2>4 DEF CleanInv, OnlySanitized
<1>3. CASE SanitizeItem
  <2>1. /\ outbound.msg \in AnswerMessages
        /\ outbound'.st = "sanitizing" /\ outbound'.at = outbound.at + 1
        /\ outbound.at \in DOMAIN outbound.msg.items
        /\ DOMAIN outbound'.msg.items = DOMAIN outbound.msg.items
        /\ \A k \in DOMAIN outbound.msg.items : k # outbound.at =>
              outbound'.msg.items[k] = outbound.msg.items[k]
        /\ outbound'.msg.items[outbound.at] \notin RawKinds
    BY <1>3, ItemDoes
  <2>2. outbound.st = "sanitizing" /\ heard' = heard
    BY <1>3 DEF SanitizeItem, At
  <2>3. DOMAIN outbound.msg.items \subseteq Nat
    BY <2>1 DEF AnswerMessages
  <2>4. ASSUME NEW k \in DOMAIN outbound.msg.items, k < outbound.at + 1
        PROVE  outbound'.msg.items[k] \notin RawKinds
    <3>1. CASE k = outbound.at
      BY <2>1, <3>1
    <3>2. CASE k # outbound.at
      BY <1>0, <2>1, <2>2, <2>3, <2>4, <3>2 DEF CleanInv
    <3> QED
      BY <3>1, <3>2
  <2> QED
    BY <2>1, <2>2, <2>4 DEF CleanInv, OnlySanitized
<1>4. CASE EndSanitize
  <2>1. /\ outbound.st = "sanitizing" /\ outbound.at \notin DOMAIN outbound.msg.items
        /\ outbound'.st = "writing" /\ outbound'.msg = outbound.msg /\ heard' = heard
    BY <1>4 DEF EndSanitize, At, TypedInv, TypeOK
  <2>2. outbound.msg \in AnswerMessages
    BY <2>1, MessageKinds DEF TypedInv, ThreadInv
  <2>3. \A k \in DOMAIN outbound.msg.items : k < outbound.at
    <3>1. outbound.msg.items \in Seq(Items)
      BY <2>2 DEF AnswerMessages
    <3> QED
      BY <1>0, <2>1, <3>1
  <2> QED
    BY <2>1, <2>3 DEF CleanInv, OnlySanitized
<1>5. CASE StopReading \/ SanitizeRaises
  <2>1. outbound'.st = "ended" /\ heard' = heard
    BY <1>5 DEF StopReading, SanitizeRaises, TypedInv, TypeOK
  <2> QED
    BY <2>1 DEF CleanInv, OnlySanitized
<1>6. CASE Write
  <2>1. outbound.st = "writing" /\ outbound'.st = "reading"
    BY <1>6 DEF Write, At
  <2>2. heard' = heard \/ heard' = outbound.msg
    BY <1>6 DEF Write
  <2> QED
    BY <2>1, <2>2 DEF CleanInv, OnlySanitized
<1>7. CASE \/ \E i \in Ids, kind \in {"call", "list"}, size \in Sizes : Ask(i, kind, size)
           \/ Record \/ Forward \/ ForwardBreaks \/ CloseInput
           \/ ChildReads \/ ChildAnswers \/ ChildSpeaks \/ ChildExits \/ Exit
  <2>1. outbound' = outbound /\ heard' = heard
    BY <1>7 DEF Ask, Record, Forward, ForwardBreaks, CloseInput, ChildReads, ChildAnswers,
                ChildSpeaks, ChildExits, Exit
  <2> QED
    BY <1>1, <2>1
<1> QED
  BY <1>2, <1>3, <1>4, <1>5, <1>6, <1>7 DEF Next, Outbound

\* The initial values, and steps that change nothing.
LEMMA InitWaits == Init => WaitInv /\ RecordedInv /\ CleanInv /\ OnlySanitized
<1> SUFFICES ASSUME Init PROVE WaitInv /\ RecordedInv /\ CleanInv /\ OnlySanitized
  OBVIOUS
<1>1. /\ Reading = {} /\ Elems(toChild) = {} /\ serving = {} /\ Elems(toShim) = {}
      /\ Passing = {} /\ pending = {}
  BY DEF Init, Reading, Elems, Passing
<1>2. Distinct(toChild) /\ Distinct(toShim)
  BY DEF Init, Distinct
<1>3. WaitInv
  BY <1>1, <1>2 DEF WaitInv, AwaitedInv, Awaited, OnceInv, Apart, PendingInv, PendingIsAsked,
                    Answers
<1>4. RecordedInv
  BY <1>1 DEF RecordedInv, Recorded, Answers
<1>5. CleanInv /\ OnlySanitized
  BY DEF Init, CleanInv, OnlySanitized, NoMessage
<1> QED
  BY <1>3, <1>4, <1>5

\* A step that changes nothing keeps everything.
LEMMA Stutters ==
    ASSUME UNCHANGED vars
    PROVE  /\ WaitInv => WaitInv'
           /\ RecordedInv /\ CleanInv /\ OnlySanitized
                 => RecordedInv' /\ CleanInv' /\ OnlySanitized'
<1>1. /\ Reading' = Reading /\ Elems(toChild)' = Elems(toChild) /\ serving' = serving
      /\ Answers(toShim)' = Answers(toShim) /\ Passing' = Passing
      /\ asked' = asked /\ pending' = pending /\ inbound' = inbound
      /\ (Distinct(toChild) => Distinct(toChild)') /\ (Distinct(toShim) => Distinct(toShim)')
  BY DEF vars, Reading, Elems, Answers, Passing, Distinct
<1>2. WaitInv => WaitInv'
  BY <1>1 DEF WaitInv, AwaitedInv, Awaited, OnceInv, Apart, PendingInv, PendingIsAsked
<1>3. RecordedInv => RecordedInv'
  BY <1>1 DEF RecordedInv, Recorded
<1>4. CleanInv /\ OnlySanitized => CleanInv' /\ OnlySanitized'
  BY DEF vars, CleanInv, OnlySanitized
<1> QED
  BY <1>2, <1>3, <1>4

\* A request or its answer is in one place at a time, and while it is, the client waits
\* for it.
THEOREM Waits == Spec => [](TypedInv /\ WaitInv)
<1>1. Init => TypedInv /\ WaitInv
  BY InitTyped, InitWaits
<1>2. TypedInv /\ WaitInv /\ [Next]_vars => (TypedInv /\ WaitInv)'
  <2> SUFFICES ASSUME TypedInv, WaitInv, [Next]_vars PROVE TypedInv' /\ WaitInv'
    OBVIOUS
  <2>1. TypedInv'
    BY StepTyped
  <2>2. WaitInv'
    BY AskKeeps, InboundKeeps, ChildKeeps, OutboundKeeps, Stutters DEF Next
  <2> QED
    BY <2>1, <2>2
<1> QED
  BY <1>1, <1>2, PTL DEF Spec

\* pending_calls holds ids of calls the client waits for, and no others.
THEOREM PendingIsAskedHolds == Spec => []PendingIsAsked
<1>1. WaitInv => PendingIsAsked
  BY DEF WaitInv, PendingInv
<1> QED
  BY <1>1, Waits, PTL

\* Where the child does not use an id of the client's for a request of its own, no
\* answer to a tools/call reaches the client with raw text or content in it.
THEOREM OnlySanitizedHolds ==
    ASSUME Ids \intersect ChildIds = {}
    PROVE  Spec => []OnlySanitized
<1> DEFINE Safe == RecordedInv /\ CleanInv /\ OnlySanitized
           Base == TypedInv /\ WaitInv
<1>1. Init => Safe
  BY InitWaits
<1>2. Base /\ Safe /\ [Next]_vars => Safe'
  <2> SUFFICES ASSUME Base, Safe, [Next]_vars PROVE Safe'
    OBVIOUS
  <2>1. CASE Next
    BY <2>1, RecordedKeeps, CleanKeeps
  <2>2. CASE UNCHANGED vars
    BY <2>2, Stutters
  <2> QED
    BY <2>1, <2>2
<1>3. Safe => OnlySanitized
  OBVIOUS
<1>4. Spec => []Base
  BY Waits
<1> HIDE DEF Safe, Base
<1> QED
  BY <1>1, <1>2, <1>3, <1>4, PTL DEF Spec
================================================================================
