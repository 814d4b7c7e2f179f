------------------------------- MODULE TextProofs ------------------------------
(* Proofs about what becomes of a text on its way out, Redaction, for a text of *)
(* any length and any findings, and on its way back, SseStream, for any answer   *)
(* in any pieces.  No invariant speaks of both: each part stands for itself.     *)
EXTENDS Redaction, SseStream, SequenceTheorems, FiniteSetTheorems, WellFoundedInduction, TLAPS

\* The passes that run a loop over findings in order of rank.
Passes == {"secrets", "pii", "both", "merge", "spans"}

Spread(F) == \A f, g \in F : f # g => Apart(f, g)

\* TypeOK without the bound on the length of the text.
Typed == /\ path \in Paths
         /\ reports \subseteq Found(Catalogue)
         /\ pass \in Passes \union {"ask", "sanitize", "replace", "done"}
         /\ given \subseteq Findings /\ todo \subseteq Findings /\ kept \subseteq Findings
         /\ found \subseteq Findings
         /\ verdicts \subseteq Found(Answers)
         /\ spans \subseteq Findings
         /\ text \in Seq(Pieces)
         /\ outcome \in {"none", "redacted", "allowed", "blocked", "failed"}
         /\ (pass = "done") <=> (outcome # "none")

\* The loop: what is kept is apart, nothing that is left comes before it, and what
\* is dropped is in the way of something kept.
LoopInv == /\ kept \subseteq given
           /\ Spread(kept)
           /\ pass \in Passes =>
                 /\ todo \subseteq given
                 /\ \A k \in kept, f \in todo : ~Precedes(f, k)
                 /\ \A f \in given \ (todo \union kept) :
                       \E k \in kept : ~Apart(f, k) /\ ~Precedes(f, k)

SureSecret(f) == f.kind.tier = SECRET /\ ~NeedsEscalation(f)

\* Every sure secret of the rules has been found, or another one on its characters.
SecretsFound == \A r \in From("secrets") :
                   SureSecret(r) => \E s \in found : SureSecret(s) /\ ~Apart(r, s)

GoesOut == outcome \in {"allowed", "redacted"}

\* What each pass has before it and leaves behind it.
PassInv == /\ Spread(found)
           /\ pass = "secrets" => given = From("secrets")
           /\ pass = "pii" => given = From("pii")
           /\ pass = "both" => /\ found \subseteq given
                               /\ \A g \in given \ found : g.kind.tier < SECRET
           /\ pass = "merge" => given = Merged(found, verdicts)
           /\ pass \in {"both", "ask", "merge", "sanitize"} => path = "protect"
           /\ pass = "spans" \/ outcome = "allowed" => path = "proxy"
           /\ (path = "proxy" /\ (pass \in {"pii", "spans", "replace"} \/ GoesOut))
                 => From("secrets") = {}
           /\ (path = "protect" /\ (pass \notin {"secrets", "done"} \/ GoesOut))
                 => SecretsFound

MergeInv == ConfidentStays /\ UnsureAccounted

\* Up to the edge the text is the old one, and what is left to replace is before it;
\* behind it everything is done.
Shape(edge) ==
    /\ edge <= Len(text) /\ Len(text) # 0 /\ Len(text) <= TextLen
    /\ \A t \in todo : t.to <= edge
    /\ \A s \in spans \ todo : s.from >= edge
    /\ \A i \in 1..edge : text[i] = Character(i)
    /\ \A k \in (edge + 1)..Len(text) :
          /\ text[k].from = IF k = 1 THEN 0 ELSE text[k - 1].to
          /\ IF text[k].raw THEN \A s \in spans : text[k].from \notin Chars(s)
                            ELSE \E s \in spans : text[k] = Replacement(s)
    /\ text[Len(text)].to = TextLen

TextInv == /\ pass \in {"sanitize", "replace"} => Spread(spans)
           /\ pass \notin {"replace", "done"} => text = [i \in 1..TextLen |-> Character(i)]
           /\ pass = "replace" => /\ todo \subseteq spans
                                  /\ \E edge \in 0..TextLen : Shape(edge)
           /\ Len(text) <= TextLen
           /\ RightText

IInv == Typed /\ LoopInv /\ PassInv /\ MergeInv /\ TextInv
--------------------------------------------------------------------------------
(* Findings                                                                    *)

\* What is found is a finding.
LEMMA FoundTyped ==
    ASSUME NEW kinds, kinds \subseteq Kinds
    PROVE  Found(kinds) \subseteq Findings
  BY DEF Found, Findings

\* Two findings are apart exactly if they share no character.
LEMMA SharesApart ==
    ASSUME NEW f \in Findings, NEW g \in Findings
    PROVE  Shares(f, g) <=> ~Apart(f, g)
  <1>1. /\ f.from \in Int /\ f.to \in Int /\ g.from \in Int /\ g.to \in Int
        /\ f.from < f.to /\ g.from < g.to
    BY RedactionAssumption DEF Findings
  <1>2. CASE Apart(f, g)
    BY <1>1, <1>2 DEF Apart, Shares, Chars
  <1>3. CASE ~Apart(f, g)
    <2>1. CASE f.from <= g.from
      <3>1. g.from \in Chars(f) \intersect Chars(g)
        BY <1>1, <1>3, <2>1 DEF Apart, Chars
      <3> QED BY <3>1, <1>3 DEF Shares
    <2>2. CASE g.from < f.from
      <3>1. f.from \in Chars(f) \intersect Chars(g)
        BY <1>1, <1>3, <2>2 DEF Apart, Chars
      <3> QED BY <3>1, <1>3 DEF Shares
    <2> QED BY <1>1, <2>1, <2>2
  <1> QED BY <1>2, <1>3

\* To lie apart is symmetric, and no finding lies apart from itself.
LEMMA ApartSymmetric ==
    ASSUME NEW f \in Findings, NEW g \in Findings
    PROVE  /\ Apart(f, g) <=> Apart(g, f)
           /\ ~Apart(f, f)
  BY RedactionAssumption DEF Findings, Apart

\* The kinds of findings the catalogues list.
LEMMA CataloguesTyped ==
    /\ Found(Catalogue) \subseteq Findings
    /\ Found(Answers) \subseteq Findings
    /\ \A f \in Found(Catalogue) :
          \/ f.kind.source = "secrets" /\ f.kind.tier = SECRET
          \/ f.kind.source = "pii" /\ f.kind.tier \in 1..3
  <1>1. Catalogue \subseteq Kinds /\ Answers \subseteq Kinds
    BY RedactionAssumption
  <1>2. \A f \in Found(Catalogue) : f.kind \in Catalogue
    BY DEF Found
  <1>3. \A k \in Catalogue : \/ k.source = "secrets" /\ k.tier = SECRET
                             \/ k.source = "pii" /\ k.tier \in 1..3
    BY RedactionAssumption
  <1> QED BY <1>1, <1>2, <1>3, FoundTyped

\* A finding that is not preceded by a sure secret is one, if it is in its way as a
\* secret.
LEMMA NotBehind ==
    ASSUME NEW f \in Findings, NEW g \in Findings,
           pass # "spans", SureSecret(f), g.kind.tier = SECRET, f.kind.source # "llm",
           ~Precedes(f, g)
    PROVE  SureSecret(g)
  <1>1. /\ f.kind.conf \in Nat /\ g.kind.conf \in Nat
        /\ f.kind.tier = 4 /\ g.kind.tier = 4
        /\ f.kind.conf >= 2
    BY DEF Findings, Kinds, SureSecret, NeedsEscalation, SECRET, ConfidentAt
  <1>2. CASE g.kind.conf >= 2
    BY <1>1, <1>2 DEF SureSecret, NeedsEscalation, SECRET, ConfidentAt
  <1>3. CASE g.kind.conf < 2
    <2>1. /\ Rank(f)[2] < Rank(g)[2]
          /\ Rank(f)[1] = Rank(g)[1]
          /\ 2 \in DOMAIN Rank(f)
      BY <1>1, <1>3 DEF Rank
    <2>2. Less(Rank(f), Rank(g))
      BY <2>1 DEF Less
    <2> QED BY <2>2 DEF Precedes
  <1> QED BY <1>1, <1>2, <1>3
--------------------------------------------------------------------------------
(* The beginning                                                               *)

\* The sets a detector may report are subsets of what it can find.
LEMMA UpToSubsets ==
    ASSUME NEW n, NEW S, NEW T \in UpTo(n, S)
    PROVE  T \subseteq S
  <1>1. CASE T = {}
    BY <1>1
  <1>2. CASE \E f \in [1..n -> S] : T = {f[i] : i \in 1..n}
    BY <1>2
  <1> QED BY <1>1, <1>2 DEF UpTo

\* The types hold at the start.
LEMMA InitTyped == Init => Typed
  <1> SUFFICES ASSUME Init PROVE Typed
    OBVIOUS
  <1>1. TextLen \in Nat \ {0} /\ Catalogue \subseteq Kinds
    BY RedactionAssumption
  <1>2. reports \subseteq Found(Catalogue)
    BY UpToSubsets DEF Init
  <1>3. From("secrets") \subseteq Findings
    BY <1>2, CataloguesTyped DEF From
  <1>4. text \in Seq(Pieces)
    <2>1. \A i \in 1..TextLen : Character(i) \in Pieces
      BY <1>1 DEF Character, Pieces
    <2> QED BY <1>1, <2>1 DEF Init
  <1> QED BY <1>2, <1>3, <1>4 DEF Init, Typed, Passes

\* The inductive invariant holds at the start.
LEMMA InitIInv == Init => IInv
  <1> SUFFICES ASSUME Init PROVE IInv
    OBVIOUS
  <1>1. Typed
    BY InitTyped
  <1>2. LoopInv
    BY DEF Init, LoopInv, Spread
  <1>3. PassInv
    BY RedactionAssumption DEF Init, PassInv, Spread, GoesOut
  <1>4. MergeInv
    BY DEF Init, MergeInv, ConfidentStays, UnsureAccounted, Merging
  <1>5. TextInv
    <2>1. Len(text) = TextLen
      BY RedactionAssumption DEF Init
    <2> QED BY <2>1, RedactionAssumption DEF Init, TextInv, RightText
  <1> QED BY <1>1, <1>2, <1>3, <1>4, <1>5 DEF IInv
--------------------------------------------------------------------------------
(* A step keeps the types                                                      *)

\* A merge of findings and verdicts yields findings.
LEMMA MergedTyped ==
    ASSUME NEW F, NEW V, F \subseteq Findings, V \subseteq Findings
    PROVE  Merged(F, V) \subseteq Findings
  BY DEF Merged, Confident

\* A splice puts one piece in the place of some, and leaves those on either side.
LEMMA SpliceTyped ==
    ASSUME text \in Seq(Pieces), NEW from \in Nat, NEW to \in Nat, NEW piece \in Pieces,
           from < to, to <= Len(text)
    PROVE  /\ Splice(from, to, piece) \in Seq(Pieces)
           /\ Len(Splice(from, to, piece)) = from + 1 + (Len(text) - to)
           /\ \A k \in 1..from : Splice(from, to, piece)[k] = text[k]
           /\ Splice(from, to, piece)[from + 1] = piece
           /\ \A k \in (from + 2)..(from + 1 + (Len(text) - to)) :
                 Splice(from, to, piece)[k] = text[k - (from + 1) + to]
  <1> DEFINE a == SubSeq(text, 1, from)
             c == SubSeq(text, to + 1, Len(text))
  <1>1. Len(text) \in Nat
    OBVIOUS
  <1>2. a \in Seq(Pieces) /\ Len(a) = from /\ \A k \in 1..from : a[k] = text[k]
    BY <1>1
  <1>3. /\ c \in Seq(Pieces) /\ Len(c) = Len(text) - to
        /\ \A k \in 1..(Len(text) - to) : c[k] = text[k + to]
    BY <1>1
  <1>4. <<piece>> \in Seq(Pieces) /\ Len(<<piece>>) = 1 /\ <<piece>>[1] = piece
    OBVIOUS
  <1> DEFINE b == a \o <<piece>>
  <1> HIDE DEF a, c
  <1>5. /\ b \in Seq(Pieces) /\ Len(b) = from + 1
        /\ \A k \in 1..from : b[k] = text[k]
        /\ b[from + 1] = piece
    BY <1>2, <1>4
  <1> HIDE DEF b
  <1>6. /\ b \o c \in Seq(Pieces) /\ Len(b \o c) = Len(b) + Len(c)
        /\ \A i \in 1..(Len(b) + Len(c)) :
              (b \o c)[i] = IF i <= Len(b) THEN b[i] ELSE c[i - Len(b)]
    BY <1>3, <1>5, ConcatProperties
  <1>7. /\ Len(b \o c) = from + 1 + (Len(text) - to)
        /\ \A k \in 1..(from + 1) : (b \o c)[k] = b[k]
    BY <1>1, <1>3, <1>5, <1>6
  <1>8. \A k \in (from + 2)..(from + 1 + (Len(text) - to)) :
              (b \o c)[k] = text[k - (from + 1) + to]
    <2> SUFFICES ASSUME NEW k \in (from + 2)..(from + 1 + (Len(text) - to))
                 PROVE  (b \o c)[k] = text[k - (from + 1) + to]
      OBVIOUS
    <2>1. (b \o c)[k] = c[k - (from + 1)]
      BY <1>1, <1>3, <1>5, <1>6
    <2>2. k - (from + 1) \in 1..(Len(text) - to)
      BY <1>1
    <2> QED BY <2>1, <2>2, <1>3
  <1>9. Splice(from, to, piece) = b \o c
    BY DEF Splice, a, b, c
  <1>10. \A k \in 1..from : (b \o c)[k] = text[k]
    BY <1>5, <1>7
  <1>11. (b \o c)[from + 1] = piece /\ b \o c \in Seq(Pieces)
    BY <1>5, <1>6, <1>7
  <1> QED BY <1>7, <1>8, <1>9, <1>10, <1>11

\* A finding that is moved inside the text is a finding.
LEMMA AtTyped ==
    ASSUME NEW f \in Findings, NEW i \in 0..TextLen, At(f, i).to <= TextLen
    PROVE  At(f, i) \in Findings
  BY RedactionAssumption DEF At, Findings

\* What the replacement of a span needs: the span lies in the old text.
LEMMA EdgeReach ==
    ASSUME IInv, pass = "replace", NEW s \in todo
    PROVE  /\ s \in Findings /\ s \in spans
           /\ s.from \in Nat /\ s.to \in Nat /\ s.from < s.to
           /\ s.to <= Len(text)
           /\ Replacement(s) \in Pieces
  <1>1. PICK edge \in 0..TextLen : Shape(edge)
    BY DEF IInv, TextInv
  <1>2. s \in Findings /\ s \in spans
    BY DEF IInv, Typed, TextInv
  <1>3. s.from \in 0..TextLen /\ s.to \in 0..TextLen /\ s.from < s.to
    BY <1>2 DEF Findings
  <1>4. TextLen \in Nat /\ Len(text) \in Nat
    BY RedactionAssumption DEF IInv, Typed
  <1>5. s.to <= Len(text)
    BY <1>1, <1>3, <1>4 DEF Shape
  <1> QED BY <1>2, <1>3, <1>4, <1>5 DEF Replacement, Pieces

\* A step keeps the types.
LEMMA TypedStep ==
    ASSUME IInv, [Next]_vars
    PROVE  Typed'
  <1> USE DEF IInv, Typed, Passes
  <1>1. CASE Consider
    BY <1>1 DEF Consider
  <1>2. /\ From("pii") \subseteq Findings
        /\ \A V : V \subseteq Found(Answers) => Merged(found, V) \subseteq Findings
    BY CataloguesTyped, MergedTyped DEF From
  <1>3. CASE SecretsDone
    BY <1>2, <1>3 DEF SecretsDone, Ended, Start
  <1>4. CASE Block
    BY <1>4 DEF Block, Ended, Stop
  <1>5. CASE Join
    BY <1>5 DEF Join, Ended, Start
  <1>6. CASE Classify
    BY <1>6 DEF Classify, Ended, Start
  <1>7. CASE Allow
    BY <1>7 DEF Allow, Ended, Stop
  <1>8. CASE Refuse
    BY <1>8 DEF Refuse, Stop
  <1>9. CASE JoinDone
    BY <1>9 DEF JoinDone, Ended
  <1>10. CASE Skip
    BY <1>10 DEF Skip
  <1>11. CASE Ask
    <2>1. PICK V \in UpTo(MaxVerdicts, Found(Answers)) :
             verdicts' = V /\ Start("merge", Merged(found, V))
      BY <1>11 DEF Ask
    <2>2. V \subseteq Found(Answers)
      BY UpToSubsets
    <2> QED BY <1>2, <1>11, <2>1, <2>2 DEF Ask, Start
  <1>12. CASE MergeDone
    BY <1>12 DEF MergeDone, Ended
  <1>13. CASE SpansDone
    BY <1>13 DEF SpansDone, Ended
  <1>14. CASE Occurrence
    <2>1. PICK f \in spans, i \in 0..TextLen :
             At(f, i).to <= TextLen /\ spans' = spans \union {At(f, i)}
      BY <1>14 DEF Occurrence
    <2>2. f \in Findings /\ TextLen \in Nat
      BY RedactionAssumption
    <2>3. At(f, i) \in Findings
      BY <2>1, <2>2, AtTyped
    <2>4. spans' \subseteq Findings
      BY <2>1, <2>3
    <2> QED BY <1>14, <2>4 DEF Occurrence
  <1>15. CASE Sanitize
    BY <1>15 DEF Sanitize
  <1>16. CASE Replace
    <2>1. PICK s \in todo : /\ text' = Splice(s.from, s.to, Replacement(s))
                            /\ todo' = todo \ {s}
      BY <1>16 DEF Replace
    <2>2. text' \in Seq(Pieces)
      BY <1>16, <2>1, EdgeReach, SpliceTyped DEF Replace
    <2> QED BY <1>16, <2>1, <2>2 DEF Replace
  <1>17. CASE Finish
    BY <1>17 DEF Finish, Ended, Stop
  <1>18. CASE UNCHANGED vars
    BY <1>18 DEF vars
  <1> QED BY <1>1, <1>3, <1>4, <1>5, <1>6, <1>7, <1>8, <1>9, <1>10, <1>11, <1>12, <1>13,
             <1>14, <1>15, <1>16, <1>17, <1>18 DEF Next
--------------------------------------------------------------------------------
(* A step keeps the loop in order                                              *)

\* One turn: what is taken comes after all that is kept and before all that is left.
LEMMA ConsiderLoop ==
    ASSUME IInv, Consider
    PROVE  LoopInv'
  <1>1. PICK f \in todo : /\ \A g \in todo : ~Precedes(g, f)
                          /\ todo' = todo \ {f}
                          /\ kept' = IF Clear(f) THEN kept \union {f} ELSE kept
    BY DEF Consider
  <1>2. pass \in Passes /\ pass' = pass /\ given' = given
    BY DEF Consider, Passes
  <1>3. \A a, b : Precedes(a, b)' <=> Precedes(a, b)
    BY <1>2 DEF Precedes
  <1>4. /\ kept \subseteq given /\ todo \subseteq given
        /\ kept \subseteq Findings /\ todo \subseteq Findings /\ given \subseteq Findings
        /\ Spread(kept)
        /\ \A k \in kept, g \in todo : ~Precedes(g, k)
        /\ \A g \in given \ (todo \union kept) : \E k \in kept : ~Apart(g, k) /\ ~Precedes(g, k)
    BY <1>2 DEF IInv, LoopInv, Typed
  <1>5. Spread(kept')
    <2>1. CASE Clear(f)
      <3>1. \A k \in kept : Apart(f, k) /\ Apart(k, f)
        BY <1>4, <2>1, ApartSymmetric DEF Clear
      <3> QED BY <1>1, <1>4, <2>1, <3>1 DEF Spread
    <2>2. CASE ~Clear(f)
      BY <1>1, <1>4, <2>2
    <2> QED BY <2>1, <2>2
  <1>6. \A k \in kept', g \in todo' : ~Precedes(g, k)
    BY <1>1, <1>4
  <1>7. ASSUME NEW g \in given \ (todo' \union kept')
        PROVE  \E k \in kept' : ~Apart(g, k) /\ ~Precedes(g, k)
    <2>1. CASE g \in todo
      <3>1. g = f /\ ~Clear(f)
        BY <1>1, <1>7, <2>1
      <3> QED BY <1>1, <1>4, <3>1 DEF Clear
    <2>2. CASE g \notin todo
      BY <1>1, <1>4, <1>7, <2>2
    <2> QED BY <2>1, <2>2
  <1>8. kept' \subseteq given' /\ todo' \subseteq given'
    BY <1>1, <1>2, <1>4
  <1> QED BY <1>2, <1>3, <1>5, <1>6, <1>7, <1>8 DEF LoopInv, Spread, Apart

\* A pass that begins has kept nothing yet.
LEMMA StartLoop ==
    ASSUME NEW p, NEW F, Start(p, F)
    PROVE  LoopInv'
  BY DEF Start, LoopInv, Spread

\* Outside the passes only what has been kept counts.
LEMMA RestLoop ==
    ASSUME IInv, given' = given, kept' = kept, pass' \notin Passes
    PROVE  LoopInv'
  BY DEF IInv, LoopInv, Spread, Apart

\* A step keeps the invariant of the loop over the spans.
LEMMA LoopStep ==
    ASSUME IInv, [Next]_vars
    PROVE  LoopInv'
  <1>1. CASE Consider
    BY <1>1, ConsiderLoop
  <1>2. CASE SecretsDone
    BY <1>2, StartLoop DEF SecretsDone
  <1>3. CASE Join
    BY <1>3, StartLoop DEF Join
  <1>4. CASE Classify
    BY <1>4, StartLoop DEF Classify
  <1>5. CASE Ask
    BY <1>5, StartLoop DEF Ask
  <1>6. CASE Block \/ Allow \/ Refuse \/ Finish
    <2>1. given' = given /\ kept' = kept /\ pass' \notin Passes
      BY <1>6 DEF Block, Allow, Refuse, Finish, Stop, Passes
    <2> QED BY <2>1, RestLoop
  <1>7. CASE JoinDone \/ Skip \/ MergeDone \/ SpansDone \/ Occurrence \/ Sanitize \/ Replace
    <2>1. given' = given /\ kept' = kept /\ pass' \notin Passes
      BY <1>7 DEF JoinDone, Skip, MergeDone, SpansDone, Occurrence, Sanitize, Replace, Passes
    <2> QED BY <2>1, RestLoop
  <1>8. CASE UNCHANGED vars
    BY <1>8 DEF vars, IInv, LoopInv, Spread, Apart, Precedes
  <1> QED BY <1>1, <1>2, <1>3, <1>4, <1>5, <1>6, <1>7, <1>8 DEF Next
--------------------------------------------------------------------------------
(* What each pass has before it and leaves behind it                           *)

\* What a secret does not precede is a secret.
LEMMA BehindSecret ==
    ASSUME NEW f \in Findings, NEW g \in Findings,
           pass # "spans", f.kind.tier = SECRET, ~Precedes(f, g)
    PROVE  g.kind.tier = SECRET
  <1>1. f.kind.tier = 4 /\ g.kind.tier \in 0..4
    BY DEF Findings, Kinds, SECRET, BENIGN
  <1>2. CASE g.kind.tier < 4
    <2>1. Rank(f)[1] < Rank(g)[1] /\ 1 \in DOMAIN Rank(f)
      BY <1>1, <1>2 DEF Rank
    <2>2. Less(Rank(f), Rank(g))
      BY <2>1 DEF Less
    <2> QED BY <2>2 DEF Precedes
  <1> QED BY <1>1, <1>2 DEF SECRET

\* After the rules every sure secret of theirs is kept, or another on its characters.
LEMMA SecretsDonePass ==
    ASSUME IInv, SecretsDone
    PROVE  PassInv'
  <1>1. /\ pass = "secrets" /\ todo = {} /\ given = From("secrets")
        /\ found' = kept /\ pass' = "pii" /\ given' = From("pii")
        /\ path = "proxy" => kept = {}
        /\ path' = path /\ reports' = reports /\ outcome' = outcome
    BY DEF SecretsDone, Ended, Start, IInv, PassInv
  <1>2. /\ kept \subseteq given /\ Spread(kept)
        /\ \A f \in given \ kept : \E k \in kept : ~Apart(f, k) /\ ~Precedes(f, k)
    BY <1>1 DEF IInv, LoopInv, Passes
  <1>3. /\ given \subseteq Findings
        /\ \A f \in given : f.kind.source = "secrets" /\ f.kind.tier = SECRET
    BY <1>1, CataloguesTyped DEF From, IInv, Typed
  <1>4. path = "proxy" => From("secrets") = {}
    BY <1>1, <1>2
  <1>5. ASSUME NEW r \in From("secrets"), SureSecret(r)
        PROVE  \E s \in kept : SureSecret(s) /\ ~Apart(r, s)
    <2>1. CASE r \in kept
      BY <1>1, <1>3, <1>5, <2>1, ApartSymmetric
    <2>2. CASE r \notin kept
      <3>1. PICK k \in kept : ~Apart(r, k) /\ ~Precedes(r, k)
        BY <1>1, <1>2, <1>5, <2>2
      <3>2. r \in Findings /\ k \in Findings /\ k.kind.tier = SECRET
            /\ r.kind.source = "secrets"
        BY <1>1, <1>2, <1>3
      <3>3. SureSecret(k)
        BY <1>1, <1>5, <3>1, <3>2, NotBehind
      <3> QED BY <3>1, <3>3
    <2> QED BY <2>1, <2>2
  <1>6. SecretsFound'
    BY <1>1, <1>5 DEF SecretsFound, SureSecret, NeedsEscalation, Apart, From
  <1>7. Spread(found')
    BY <1>1, <1>2
  <1>8. outcome' = "none"
    BY <1>1 DEF IInv, Typed
  <1> QED BY <1>1, <1>4, <1>6, <1>7, <1>8 DEF PassInv, Spread, Apart, From, GoesOut

\* Both lists together keep the sure secrets: only a secret could take the place of
\* one, and the secrets among them are apart already.
LEMMA JoinDonePass ==
    ASSUME IInv, JoinDone
    PROVE  PassInv'
  <1>1. /\ pass = "both" /\ todo = {} /\ found' = kept /\ pass' = "ask"
        /\ path' = path /\ reports' = reports /\ outcome' = outcome
        /\ path = "protect"
    BY DEF JoinDone, Ended, IInv, PassInv
  <1>2. /\ kept \subseteq given /\ Spread(kept)
        /\ \A f \in given \ kept : \E k \in kept : ~Apart(f, k) /\ ~Precedes(f, k)
    BY <1>1 DEF IInv, LoopInv, Passes
  <1>3. /\ given \subseteq Findings /\ found \subseteq given /\ Spread(found)
        /\ \A g \in given \ found : g.kind.tier < SECRET
        /\ SecretsFound
        /\ outcome = "none"
    BY <1>1 DEF IInv, PassInv, Typed
  <1>4. ASSUME NEW s \in found, SureSecret(s)
        PROVE  s \in kept
    <2> SUFFICES ASSUME s \notin kept PROVE FALSE
      OBVIOUS
    <2>1. PICK k \in kept : ~Apart(s, k) /\ ~Precedes(s, k)
      BY <1>2, <1>3
    <2>2. s \in Findings /\ k \in Findings /\ s.kind.tier = SECRET
      BY <1>2, <1>3, <1>4 DEF SureSecret
    <2>3. k.kind.tier = SECRET
      BY <1>1, <2>1, <2>2, BehindSecret
    <2>4. k \in found
      BY <1>2, <1>3, <2>3 DEF SECRET
    <2> QED BY <1>3, <2>1, <2>4 DEF Spread
  <1>5. SecretsFound'
    BY <1>1, <1>3, <1>4 DEF SecretsFound, SureSecret, NeedsEscalation, Apart, From
  <1>6. Spread(found')
    BY <1>1, <1>2
  <1> QED BY <1>1, <1>3, <1>5, <1>6 DEF PassInv, Spread, Apart, From, GoesOut

\* Where nothing is found anew, only the place and what is given change.
LEMMA PassStep ==
    ASSUME IInv, [Next]_vars
    PROVE  PassInv'
  <1>1. /\ Spread(found) /\ (pass = "done" <=> outcome # "none") /\ PassInv
    BY DEF IInv, PassInv, Typed
  <1> USE DEF PassInv, Spread, Apart, From, GoesOut, SecretsFound, SureSecret, NeedsEscalation
  <1>2. CASE SecretsDone
    BY <1>2, SecretsDonePass
  <1>3. CASE JoinDone
    BY <1>3, JoinDonePass
  <1>4. CASE Consider
    BY <1>1, <1>4 DEF Consider
  <1>5. CASE Block
    BY <1>1, <1>5 DEF Block, Stop
  <1>6. CASE Join
    <2>1. /\ kept \subseteq From("pii") /\ reports \subseteq Found(Catalogue)
          /\ given' = found \union kept
      BY <1>1, <1>6 DEF Join, Ended, Start, IInv, LoopInv, Typed
    <2>2. \A g \in given' \ found : g.kind.tier < SECRET
      BY <2>1, CataloguesTyped DEF SECRET
    <2> QED BY <1>1, <1>6, <2>1, <2>2 DEF Join, Ended, Start
  <1>7. CASE Classify
    BY <1>1, <1>7 DEF Classify, Ended, Start
  <1>8. CASE Allow
    BY <1>1, <1>8 DEF Allow, Ended, Stop
  <1>9. CASE Refuse
    BY <1>1, <1>9 DEF Refuse, Stop
  <1>10. CASE Skip
    BY <1>1, <1>10 DEF Skip
  <1>11. CASE Ask
    <2>1. /\ given' = Merged(found, verdicts') /\ found' = found /\ pass' = "merge"
          /\ pass = "ask" /\ path' = path /\ reports' = reports /\ outcome' = outcome
      BY <1>11 DEF Ask, Start
    <2>2. given' = Merged(found', verdicts')
      BY <2>1
    <2> QED BY <1>1, <2>1, <2>2
  <1>12. CASE MergeDone
    BY <1>1, <1>12 DEF MergeDone, Ended
  <1>13. CASE SpansDone
    BY <1>1, <1>13 DEF SpansDone, Ended
  <1>14. CASE Occurrence
    BY <1>1, <1>14 DEF Occurrence
  <1>15. CASE Sanitize
    BY <1>1, <1>15 DEF Sanitize
  <1>16. CASE Replace
    BY <1>1, <1>16 DEF Replace
  <1>17. CASE Finish
    BY <1>1, <1>17 DEF Finish, Ended, Stop
  <1>18. CASE UNCHANGED vars
    BY <1>1, <1>18 DEF vars
  <1> QED BY <1>2, <1>3, <1>4, <1>5, <1>6, <1>7, <1>8, <1>9, <1>10, <1>11, <1>12, <1>13,
             <1>14, <1>15, <1>16, <1>17, <1>18 DEF Next
--------------------------------------------------------------------------------
(* What the LLM may change                                                     *)

Counted == {v \in verdicts : ~Spoken(v, Confident(found))}

\* What is merged, by where it comes from.
LEMMA MergedParts ==
    ASSUME Spread(found), found \subseteq Findings, verdicts \subseteq Findings
    PROVE  /\ Confident(found) \subseteq Merged(found, verdicts)
           /\ \A k \in Merged(found, verdicts) : k \in found \/ k \in Counted
           /\ \A v \in Counted : v.kind.tier # BENIGN => v \in Merged(found, verdicts)
           /\ \A f \in found : ~Spoken(f, Counted) => f \in Merged(found, verdicts)
           /\ \A v \in Counted, c \in Confident(found) : Apart(v, c) /\ Apart(c, v)
  <1>1. \A v \in Counted, c \in Confident(found) : Apart(v, c)
    BY DEF Counted, Spoken
  <1>2. \A v \in Counted, c \in Confident(found) : Apart(c, v)
    <2>1. Counted \subseteq Findings /\ Confident(found) \subseteq Findings
      BY DEF Counted, Confident
    <2> QED BY <1>1, <2>1, ApartSymmetric
  <1> QED BY <1>1, <1>2 DEF Merged, Counted, Confident

\* A confident finding is in the way of nothing that is merged, so it is kept; an
\* unsure one gives way to a verdict only, and the verdict to what is kept.
LEMMA MergeDoneMerge ==
    ASSUME IInv, MergeDone
    PROVE  MergeInv'
  <1>1. /\ pass = "merge" /\ todo = {} /\ given = Merged(found, verdicts)
        /\ spans' = kept /\ found' = found /\ verdicts' = verdicts
    BY DEF MergeDone, Ended, IInv, PassInv
  <1>2. /\ kept \subseteq given
        /\ \A f \in given \ kept : \E k \in kept : ~Apart(f, k)
    BY <1>1 DEF IInv, LoopInv, Passes
  <1>3. Spread(found) /\ found \subseteq Findings /\ verdicts \subseteq Findings
        /\ kept \subseteq Findings
    BY CataloguesTyped DEF IInv, PassInv, Typed
  <1>4. /\ Confident(found) \subseteq given
        /\ \A k \in given : k \in found \/ k \in Counted
        /\ \A v \in Counted : v.kind.tier # BENIGN => v \in given
        /\ \A f \in found : ~Spoken(f, Counted) => f \in given
        /\ \A v \in Counted, c \in Confident(found) : Apart(v, c) /\ Apart(c, v)
    BY <1>1, <1>3, MergedParts
  <1>5. Confident(found) \subseteq kept
    <2> SUFFICES ASSUME NEW c \in Confident(found), c \notin kept PROVE FALSE
      OBVIOUS
    <2>1. PICK k \in kept : ~Apart(c, k)
      BY <1>2, <1>4
    <2>2. c \in found /\ c # k
      BY <2>1 DEF Confident
    <2> QED BY <1>2, <1>3, <1>4, <2>1, <2>2 DEF Spread
  <1>6. ASSUME NEW f \in found \ kept
        PROVE  \E v \in verdicts : /\ Shares(v, f)
                                   /\ \A c \in Confident(found) : ~Shares(v, c)
                                   /\ \/ v.kind.tier = BENIGN
                                      \/ \E s \in kept : Shares(v, s)
    <2>1. Spoken(f, Counted)
      <3> SUFFICES ASSUME ~Spoken(f, Counted) PROVE FALSE
        OBVIOUS
      <3>1. PICK k \in kept : ~Apart(f, k)
        BY <1>2, <1>4, <1>6
      <3>2. k \notin Counted
        BY <3>1 DEF Spoken
      <3> QED BY <1>2, <1>3, <1>4, <1>6, <3>1, <3>2 DEF Spread
    <2>2. PICK v \in Counted : ~Apart(f, v)
      BY <2>1 DEF Spoken
    <2>3. v \in verdicts /\ v \in Findings /\ f \in Findings
          /\ Confident(found) \subseteq Findings
      BY <1>3 DEF Counted, Confident
    <2>4. Shares(v, f)
      BY <2>2, <2>3, SharesApart, ApartSymmetric
    <2>5. \A c \in Confident(found) : ~Shares(v, c)
      BY <1>4, <2>3, SharesApart
    <2>6. ASSUME v.kind.tier # BENIGN
          PROVE  \E s \in kept : Shares(v, s)
      <3>1. v \in given
        BY <1>4, <2>6
      <3>2. CASE v \in kept
        BY <2>3, <3>2, SharesApart, ApartSymmetric
      <3>3. CASE v \notin kept
        BY <1>2, <1>3, <2>3, <3>1, <3>3, SharesApart
      <3> QED BY <3>2, <3>3
    <2> QED BY <2>3, <2>4, <2>5, <2>6
  <1>7. ConfidentStays'
    BY <1>1, <1>5 DEF ConfidentStays, Confident, NeedsEscalation
  <1>8. UnsureAccounted'
    BY <1>1, <1>6 DEF UnsureAccounted, Confident, NeedsEscalation, Shares, Chars
  <1> QED BY <1>7, <1>8 DEF MergeInv

\* A step that leaves the findings alone and takes no span away.
LEMMA RestMerge ==
    ASSUME MergeInv, Merging' => Merging, found' = found, verdicts' = verdicts,
           spans \subseteq spans'
    PROVE  MergeInv'
  BY DEF MergeInv, ConfidentStays, UnsureAccounted, Confident, NeedsEscalation, Shares, Chars

\* A step keeps the invariant of the merge with the verdicts.
LEMMA MergeStep ==
    ASSUME IInv, [Next]_vars
    PROVE  MergeInv'
  <1>1. /\ MergeInv /\ (pass = "done" <=> outcome # "none")
        /\ outcome \in {"none", "redacted", "allowed", "blocked", "failed"}
        /\ pass = "spans" => path = "proxy"
    BY DEF IInv, Typed, PassInv
  <1>2. CASE MergeDone
    BY <1>2, MergeDoneMerge
  <1>3. CASE Skip
    BY <1>3 DEF Skip, MergeInv, ConfidentStays, UnsureAccounted, Confident
  <1>4. CASE ~Merging'
    BY <1>4 DEF MergeInv, ConfidentStays, UnsureAccounted
  <1>5. CASE SecretsDone \/ Join \/ Classify \/ JoinDone \/ Ask \/ Consider
    <2>1. ~Merging'
      BY <1>1, <1>5
      DEF SecretsDone, Join, Classify, JoinDone, Ask, Consider, Ended, Start, Merging
    <2> QED BY <1>4, <2>1
  <1>6. CASE Block \/ Allow \/ Refuse \/ SpansDone
    <2>1. ~Merging'
      BY <1>1, <1>6 DEF Block, Allow, Refuse, SpansDone, Ended, Stop, Merging
    <2> QED BY <1>4, <2>1
  <1>7. CASE Occurrence \/ Sanitize \/ Replace \/ Finish \/ UNCHANGED vars
    <2>1. /\ Merging' => Merging
          /\ found' = found /\ verdicts' = verdicts /\ spans \subseteq spans'
      BY <1>1, <1>7 DEF Occurrence, Sanitize, Replace, Finish, Ended, Stop, vars, Merging
    <2> QED BY <1>1, <2>1, RestMerge
  <1> QED BY <1>2, <1>3, <1>5, <1>6, <1>7 DEF Next
--------------------------------------------------------------------------------
(* The text                                                                    *)

\* Before the edge the text is still the characters of the prompt.
LEMMA OldPieces ==
    ASSUME NEW edge, Shape(edge), NEW i \in 1..edge
    PROVE  text[i].from = i - 1 /\ text[i].to = i /\ text[i].raw
  <1>1. text[i] = Character(i)
    BY DEF Shape
  <1> QED BY <1>1 DEF Character

\* The pieces of the text join, on both sides of the edge.
LEMMA PiecesJoin ==
    ASSUME text \in Seq(Pieces), NEW edge \in 0..TextLen, Shape(edge)
    PROVE  \A k \in 1..Len(text) : text[k].from = IF k = 1 THEN 0 ELSE text[k - 1].to
  <1>1. edge \in Nat /\ Len(text) \in Nat /\ edge <= Len(text)
    BY RedactionAssumption DEF Shape
  <1>2. \A i \in 1..edge : text[i].from = i - 1 /\ text[i].to = i
    BY OldPieces
  <1>3. ASSUME NEW k \in 1..Len(text)
        PROVE  text[k].from = IF k = 1 THEN 0 ELSE text[k - 1].to
    <2>1. CASE k <= edge
      <3>1. text[k].from = k - 1
        BY <1>2, <2>1
      <3>2. k # 1 => text[k - 1].to = k - 1
        BY <1>1, <1>2, <2>1
      <3> QED BY <3>1, <3>2
    <2>2. CASE k > edge
      <3>1. k \in (edge + 1)..Len(text)
        BY <1>1, <2>2
      <3> QED BY <3>1 DEF Shape
    <2> QED BY <1>1, <2>1, <2>2
  <1> QED BY <1>3

\* Where the text is still the old one, no span lies behind what is left to replace.
LEMMA RawUntouched ==
    ASSUME spans \subseteq Findings, NEW edge \in 0..TextLen, Shape(edge),
           NEW i \in 1..edge, \A t \in todo : t.to < i
    PROVE  \A x \in spans : text[i].from \notin Chars(x)
  <1>1. text[i].from = i - 1
    BY OldPieces
  <1>2. ASSUME NEW x \in spans
        PROVE  i - 1 \notin Chars(x)
    <2>1. x.from \in Nat /\ x.to \in Nat /\ edge \in Nat
      BY RedactionAssumption DEF Findings
    <2>2. CASE x \in todo
      BY <2>1, <2>2 DEF Chars
    <2>3. CASE x \notin todo
      <3>1. x.from >= edge
        BY <2>3 DEF Shape
      <3> QED BY <2>1, <3>1 DEF Chars
    <2> QED BY <2>2, <2>3
  <1> QED BY <1>1, <1>2

\* The rightmost span that is left is replaced: the edge moves to where it begins,
\* and what lies behind it moves with it.
LEMMA ReplaceShape ==
    ASSUME IInv, pass = "replace", NEW edge \in 0..TextLen, Shape(edge),
           NEW s \in todo, \A t \in todo : t.from <= s.from,
           todo' = todo \ {s}, spans' = spans,
           text' = Splice(s.from, s.to, Replacement(s))
    PROVE  Shape(s.from)'
  <1>1. /\ TextLen \in Nat /\ edge \in Nat /\ Len(text) \in Nat /\ edge <= Len(text)
        /\ Len(text) <= TextLen
        /\ text \in Seq(Pieces)
    BY RedactionAssumption DEF IInv, Typed, Shape
  <1>2. /\ s \in Findings /\ s \in spans /\ s.from \in Nat /\ s.to \in Nat
        /\ s.from < s.to /\ s.to <= Len(text) /\ Replacement(s) \in Pieces
    BY EdgeReach
  <1> DEFINE a == s.from
             b == s.to
             r == a + 1
             L == r + (Len(text) - b)
             at(k) == k - r + b
  <1>3. a \in Nat /\ b \in Nat /\ a < b /\ b <= edge
    BY <1>1, <1>2 DEF Shape
  <1>4. /\ Len(text') = L
        /\ \A k \in 1..a : text'[k] = text[k]
        /\ text'[r] = Replacement(s)
        /\ \A k \in (a + 2)..L : text'[k] = text[at(k)]
    <2> DEFINE T == Splice(s.from, s.to, Replacement(s))
    <2>1. /\ Len(T) = s.from + 1 + (Len(text) - s.to)
          /\ \A k \in 1..s.from : T[k] = text[k]
          /\ T[s.from + 1] = Replacement(s)
          /\ \A k \in (s.from + 2)..(s.from + 1 + (Len(text) - s.to)) :
                T[k] = text[k - (s.from + 1) + s.to]
      <3> HIDE DEF T, L, r, at, a, b
      <3> DEFINE Spliced(f, t, p) ==
              /\ Len(Splice(f, t, p)) = f + 1 + (Len(text) - t)
              /\ \A k \in 1..f : Splice(f, t, p)[k] = text[k]
              /\ Splice(f, t, p)[f + 1] = p
              /\ \A k \in (f + 2)..(f + 1 + (Len(text) - t)) :
                    Splice(f, t, p)[k] = text[k - (f + 1) + t]
      <3>1. \A f, t \in Nat, p \in Pieces : f < t /\ t <= Len(text) => Spliced(f, t, p)
        <4> TAKE f, t \in Nat, p \in Pieces
        <4> HAVE f < t /\ t <= Len(text)
        <4>1. Len(Splice(f, t, p)) = f + 1 + (Len(text) - t)
          BY <1>1, SpliceTyped
        <4>2. \A k \in 1..f : Splice(f, t, p)[k] = text[k]
          BY <1>1, SpliceTyped
        <4>3. Splice(f, t, p)[f + 1] = p
          BY <1>1, SpliceTyped
        <4>4. \A k \in (f + 2)..(f + 1 + (Len(text) - t)) :
                    Splice(f, t, p)[k] = text[k - (f + 1) + t]
          BY <1>1, SpliceTyped
        <4> QED BY <4>1, <4>2, <4>3, <4>4
      <3> HIDE DEF Spliced
      <3>2. Spliced(s.from, s.to, Replacement(s))
        BY <1>2, <3>1
      <3> QED BY <3>2 DEF Spliced, T
    <2> QED BY <2>1
  <1> HIDE DEF a, b
  <1>5. /\ r \in Nat /\ L \in Nat /\ r <= L /\ L <= Len(text)
        /\ \A k \in (a + 2)..L : at(k) \in (b + 1)..Len(text) /\ at(k) \in Nat
    BY <1>1, <1>3
  <1>6. Replacement(s).from = a /\ Replacement(s).to = b /\ ~Replacement(s).raw
    BY DEF Replacement, a, b
  <1>7. \A j \in 1..Len(text) : text[j].from = IF j = 1 THEN 0 ELSE text[j - 1].to
    BY <1>1, PiecesJoin
  <1>8. \A i \in 1..edge : text[i].from = i - 1 /\ text[i].to = i /\ text[i].raw
    BY OldPieces
  <1>9. todo \subseteq Findings /\ spans \subseteq Findings /\ todo \subseteq spans
        /\ Spread(spans)
    BY DEF IInv, Typed, TextInv
  <1>10. \A t \in todo' : t.to <= s.from
    <2> SUFFICES ASSUME NEW t \in todo, t # s PROVE t.to <= s.from
      OBVIOUS
    <2>1. Apart(t, s) /\ t.from \in Nat /\ t.to \in Nat /\ t.from < t.to /\ t.from <= s.from
      BY <1>1, <1>9 DEF Spread, Findings
    <2> QED BY <1>2, <1>3, <2>1 DEF Apart
  <1>11. \A x \in spans' \ todo' : x.from >= s.from
    <2> SUFFICES ASSUME NEW x \in spans \ todo PROVE x.from >= s.from
      BY <1>2, <1>3
    <2>1. x.from >= edge /\ x.from \in Nat
      BY <1>1, <1>9 DEF Shape, Findings
    <2> QED BY <1>1, <1>3, <2>1 DEF a
  <1>12. \A i \in 1..a : text'[i] = Character(i)
    <2> SUFFICES ASSUME NEW i \in 1..a PROVE text[i] = Character(i)
      BY <1>4
    <2>1. i \in 1..edge
      BY <1>1, <1>3
    <2> QED BY <2>1 DEF Shape
  <1>13. ASSUME NEW k \in r..L
         PROVE  text'[k].from = IF k = 1 THEN 0 ELSE text'[k - 1].to
    <2>1. CASE k = r
      <3>1. text'[k].from = a
        BY <1>4, <1>6, <2>1
      <3>2. CASE k = 1
        BY <1>2, <1>3, <2>1, <3>1, <3>2
      <3>3. CASE k # 1
        <4>1. k - 1 = a /\ a \in 1..a /\ a \in 1..edge
          BY <1>1, <1>3, <2>1, <3>3
        <4>2. text'[k - 1] = text[a] /\ text[a].to = a
          BY <1>4, <1>8, <4>1
        <4> QED BY <3>1, <3>3, <4>2
      <3> QED BY <3>2, <3>3
    <2>2. CASE k = r + 1
      <3>1. /\ k \in (a + 2)..L /\ at(k) = b + 1 /\ k - 1 = r /\ k # 1
            /\ b + 1 \in 1..Len(text) /\ b + 1 # 1 /\ b + 1 - 1 = b
            /\ b \in 1..edge
        BY <1>1, <1>3, <1>5, <2>2
      <3>2. text'[k].from = text[b].to
        <4>1. text'[k] = text[b + 1]
          BY <1>4, <3>1
        <4>2. PICK j \in 1..Len(text) : j = b + 1
          BY <3>1
        <4>3. j # 1 /\ j - 1 = b
          BY <1>3, <3>1, <4>2
        <4>4. text[j].from = text[j - 1].to
          BY <1>7, <4>3
        <4> QED BY <4>1, <4>2, <4>3, <4>4
      <3>3. text[b].to = b
        BY <1>8, <3>1
      <3> QED BY <1>4, <1>6, <3>1, <3>2, <3>3
    <2>3. CASE k > r + 1
      <3>1. /\ k \in (a + 2)..L /\ k - 1 \in (a + 2)..L /\ k # 1
            /\ at(k) \in 1..Len(text) /\ at(k) # 1 /\ at(k) - 1 = at(k - 1)
        BY <1>1, <1>2, <1>3, <1>5, <2>3
      <3>2. text'[k] = text[at(k)] /\ text'[k - 1] = text[at(k - 1)]
        BY <1>4, <3>1
      <3>3. text[at(k)].from = text[at(k) - 1].to
        <4> DEFINE j == at(k)
        <4>1. j \in 1..Len(text) /\ j # 1
          BY <3>1
        <4> HIDE DEF j
        <4>2. text[j].from = text[j - 1].to
          BY <1>7, <4>1
        <4> QED BY <4>2 DEF j
      <3> QED BY <3>1, <3>2, <3>3
    <2> QED BY <1>5, <2>1, <2>2, <2>3
  <1>14. ASSUME NEW k \in r..L
         PROVE  IF text'[k].raw THEN \A x \in spans : text'[k].from \notin Chars(x)
                                ELSE \E x \in spans : text'[k] = Replacement(x)
    <2>1. CASE k = r
      BY <1>2, <1>3, <1>4, <1>6, <2>1
    <2>2. CASE k # r
      <3>1. k \in (a + 2)..L
        BY <1>3, <1>5, <2>2
      <3>2. text'[k] = text[at(k)] /\ at(k) \in (b + 1)..Len(text) /\ at(k) \in Nat
        BY <1>4, <1>5, <3>1
      <3> HIDE DEF at
      <3>3. CASE at(k) <= edge
        <4>1. at(k) \in 1..edge /\ text[at(k)].raw
          <5>1. at(k) \in 1..edge
            BY <1>1, <1>3, <3>2, <3>3
          <5> QED BY <1>8, <5>1
        <4>2. \A t \in todo : t.to < at(k)
          <5>1. \A t \in todo : t.to \in Nat /\ t.to <= b
            BY <1>1, <1>2, <1>3, <1>9, <1>10 DEF Findings, a, b
          <5> QED BY <1>2, <1>3, <3>2, <5>1
        <4>3. \A x \in spans : text[at(k)].from \notin Chars(x)
          BY <1>9, <4>1, <4>2, RawUntouched
        <4> QED BY <3>2, <4>1, <4>3
      <3>4. CASE at(k) > edge
        <4>1. at(k) \in (edge + 1)..Len(text)
          BY <1>1, <3>2, <3>4
        <4> QED BY <3>2, <4>1 DEF Shape
      <3> QED BY <1>1, <3>2, <3>3, <3>4
    <2> QED BY <2>1, <2>2
  <1>15. text'[L].to = TextLen
    <2>1. text[Len(text)].to = TextLen
      BY DEF Shape
    <2>2. CASE L = r
      <3>1. b = Len(text) /\ b \in 1..edge
        BY <1>1, <1>3, <2>2
      <3> QED BY <1>4, <1>6, <1>8, <2>1, <2>2, <3>1
    <2>3. CASE L # r
      <3>1. L \in (a + 2)..L /\ at(L) = Len(text)
        BY <1>1, <1>2, <1>3, <1>5, <2>3
      <3> QED BY <1>4, <2>1, <3>1
    <2> QED BY <2>2, <2>3
  <1>16. a <= L /\ L # 0 /\ L <= TextLen
    BY <1>1, <1>2, <1>3, <1>5
  <1>17. s.from = a /\ a + 1 = r
    BY DEF a
  <1> HIDE DEF L, r, at
  <1> QED BY <1>4, <1>9, <1>10, <1>11, <1>12, <1>13, <1>14, <1>15, <1>16, <1>17
       DEF Shape, Chars

\* The replacement begins with the whole text before the edge.
LEMMA BeginShape ==
    ASSUME text' = [i \in 1..TextLen |-> Character(i)],
           todo' = spans', spans' \subseteq Findings
    PROVE  Shape(TextLen)' /\ Len(text') = TextLen
  <1>1. TextLen \in Nat /\ TextLen # 0 /\ Len(text') = TextLen
    BY RedactionAssumption
  <1>2. \A t \in todo' : t.to <= TextLen
    BY <1>1 DEF Findings
  <1>3. \A i \in 1..TextLen : text'[i] = Character(i)
    OBVIOUS
  <1>4. text'[TextLen].to = TextLen
    <2>1. text'[TextLen] = Character(TextLen)
      BY <1>1, <1>3
    <2> QED BY <2>1 DEF Character
  <1>5. (TextLen + 1)..TextLen = {}
    BY <1>1
  <1> QED BY <1>1, <1>2, <1>3, <1>4, <1>5 DEF Shape

\* When nothing is left to replace, the text is right on both sides of the edge.
LEMMA FinishText ==
    ASSUME IInv, Finish
    PROVE  TextInv'
  <1>1. /\ pass = "replace" /\ todo = {} /\ pass' = "done" /\ outcome' = "redacted"
        /\ text' = text /\ spans' = spans
    BY DEF Finish, Ended, Stop
  <1>2. PICK edge \in 0..TextLen : Shape(edge)
    BY <1>1 DEF IInv, TextInv
  <1>3. text \in Seq(Pieces) /\ spans \subseteq Findings /\ edge \in Nat /\ Len(text) \in Nat
    BY RedactionAssumption DEF IInv, Typed
  <1>4. \A k \in 1..Len(text) : text[k].from = IF k = 1 THEN 0 ELSE text[k - 1].to
    BY <1>2, <1>3, PiecesJoin
  <1>5. text[Len(text)].to = TextLen /\ Len(text) <= TextLen
    BY <1>2 DEF Shape
  <1>6. ASSUME NEW k \in 1..Len(text)
        PROVE  IF text[k].raw THEN \A x \in spans : text[k].from \notin Chars(x)
                              ELSE \E x \in spans : text[k] = Replacement(x)
    <2>1. CASE k <= edge
      <3>1. k \in 1..edge
        BY <1>3, <2>1
      <3>2. \A x \in spans : text[k].from \notin Chars(x)
        BY <1>1, <1>2, <1>3, <3>1, RawUntouched
      <3> QED BY <1>2, <3>1, <3>2, OldPieces
    <2>2. CASE k > edge
      <3>1. k \in (edge + 1)..Len(text)
        BY <1>3, <2>2
      <3> QED BY <1>2, <3>1 DEF Shape
    <2> QED BY <1>3, <2>1, <2>2
  <1>7. DOMAIN text = 1..Len(text)
    BY <1>3
  <1>8. RightText'
    BY <1>1, <1>4, <1>5, <1>6, <1>7 DEF RightText, Chars
  <1> QED BY <1>1, <1>5, <1>8 DEF TextInv

\* A step keeps the invariant of the text.
LEMMA TextStep ==
    ASSUME IInv, [Next]_vars
    PROVE  TextInv'
  <1>1. /\ Typed /\ TextInv /\ Spread(kept) /\ Spread(found)
        /\ pass = "done" <=> outcome # "none"
    BY DEF IInv, Typed, LoopInv, PassInv
  <1>2. CASE /\ pass \notin {"sanitize", "replace", "done"} /\ text' = text
             /\ pass' \notin {"sanitize", "replace", "done"} /\ outcome' = outcome
    BY <1>1, <1>2 DEF TextInv, RightText
  <1>3. CASE Consider \/ SecretsDone \/ Join \/ Classify \/ JoinDone \/ Ask
    BY <1>2, <1>3 DEF Consider, SecretsDone, Join, Classify, JoinDone, Ask, Ended, Start
  <1>4. CASE Block \/ Allow \/ Refuse
    <2>1. pass' = "done" /\ text' = text /\ outcome' # "redacted"
      BY <1>4 DEF Block, Allow, Refuse, Stop
    <2> QED BY <1>1, <2>1 DEF TextInv, RightText
  <1>5. CASE Skip \/ MergeDone
    <2>1. /\ pass' = "sanitize" /\ pass \in {"ask", "merge"} /\ text' = text
          /\ outcome' = outcome /\ (spans' = found \/ spans' = kept)
      BY <1>5 DEF Skip, MergeDone, Ended
    <2>2. Spread(spans')
      BY <1>1, <2>1
    <2> QED BY <1>1, <2>1, <2>2 DEF TextInv, RightText, Spread, Apart
  <1>6. CASE Occurrence
    <2>1. /\ pass' = "sanitize" /\ pass = "sanitize" /\ text' = text /\ outcome' = outcome
      BY <1>6 DEF Occurrence
    <2>2. PICK f \in spans, i \in 0..TextLen :
             /\ At(f, i).to <= TextLen
             /\ \A x \in spans : Apart(At(f, i), x)
             /\ spans' = spans \union {At(f, i)}
      BY <1>6 DEF Occurrence
    <2> DEFINE g == At(f, i)
    <2>3. f \in Findings /\ spans \subseteq Findings /\ Spread(spans)
      BY <1>1, <2>1 DEF Typed, TextInv
    <2>4. g \in Findings
      BY <2>2, <2>3, AtTyped
    <2>5. \A x \in spans : Apart(g, x) /\ Apart(x, g)
      BY <2>2, <2>3, <2>4, ApartSymmetric
    <2> HIDE DEF g
    <2>6. spans' = spans \union {g}
      BY <2>2 DEF g
    <2>7. Spread(spans')
      BY <2>3, <2>5, <2>6 DEF Spread
    <2> QED BY <1>1, <2>1, <2>7 DEF TextInv, RightText, Spread, Apart
  <1>7. CASE Sanitize \/ SpansDone
    <2>1. /\ pass' = "replace" /\ pass \in {"sanitize", "spans"} /\ text' = text
          /\ outcome' = outcome /\ todo' = spans' /\ spans' \in {spans, kept}
          /\ pass = "sanitize" => spans' = spans
          /\ pass = "spans" => spans' = kept
      BY <1>7 DEF Sanitize, SpansDone, Ended
    <2>2. Spread(spans') /\ spans' \subseteq Findings
      BY <1>1, <2>1 DEF TextInv, Typed
    <2>3. Shape(TextLen)' /\ Len(text') = TextLen
      BY <1>1, <2>1, <2>2, BeginShape DEF TextInv
    <2>4. TextLen \in 0..TextLen /\ TextLen <= TextLen
      BY RedactionAssumption
    <2>5. \E edge \in 0..TextLen : Shape(edge)'
      BY <2>3, <2>4
    <2> QED BY <1>1, <2>1, <2>2, <2>3, <2>4, <2>5 DEF TextInv, RightText, Spread, Apart
  <1>8. CASE Replace
    <2>1. PICK s \in todo : /\ IsNext(s)
                            /\ text' = Splice(s.from, s.to, Replacement(s))
                            /\ todo' = todo \ {s}
      BY <1>8 DEF Replace
    <2>2. /\ pass = "replace" /\ pass' = pass /\ spans' = spans /\ outcome' = outcome
      BY <1>8 DEF Replace
    <2>3. PICK edge \in 0..TextLen : Shape(edge)
      BY <1>1, <2>2 DEF TextInv
    <2>4. Shape(s.from)'
      BY <2>1, <2>2, <2>3, ReplaceShape DEF IsNext
    <2>5. s.from \in 0..TextLen
      BY <2>2, EdgeReach DEF Findings
    <2>6. \E e \in 0..TextLen : Shape(e)'
      BY <2>4, <2>5
    <2>7. Len(text') <= TextLen
      BY <2>4 DEF Shape
    <2> QED BY <1>1, <2>1, <2>2, <2>6, <2>7 DEF TextInv, RightText, Spread, Apart
  <1>9. CASE Finish
    BY <1>9, FinishText
  <1>10. CASE UNCHANGED vars
    BY <1>1, <1>10 DEF vars, TextInv, RightText, Spread, Apart, Shape, Chars
  <1> QED BY <1>3, <1>4, <1>5, <1>6, <1>7, <1>8, <1>9, <1>10 DEF Next
--------------------------------------------------------------------------------
(* Theorems                                                                    *)

\* Whatever is found, the invariant holds from the first pass to the last splice.
THEOREM Invariant == Spec => []IInv
  <1>1. IInv /\ [Next]_vars => IInv'
    BY TypedStep, LoopStep, PassStep, MergeStep, TextStep DEF IInv
  <1> QED BY InitIInv, <1>1, PTL DEF Spec

\* Every variable has its type, and no replacement makes the text longer.
THEOREM TypeCorrect == Spec => []TypeOK
  <1>1. IInv => TypeOK
    BY DEF IInv, Typed, TextInv, Passes, TypeOK
  <1> QED BY Invariant, <1>1, PTL

\* A finding that the ranking does not put before another one does not come first in the
\* order resolve_overlaps gives, but for the catch-all rule.
LEMMA RankedAsSaid ==
    ASSUME NEW f \in Findings, NEW k \in Findings, pass # "spans", ~Precedes(f, k)
    PROVE  Outranks(k, f) \/ MoreSpecific(k, f)
  <1>1. /\ f.kind.tier \in Nat /\ k.kind.tier \in Nat
        /\ f.kind.conf \in Nat /\ k.kind.conf \in Nat
        /\ f.kind.generic \in BOOLEAN /\ k.kind.generic \in BOOLEAN
        /\ f.from \in Int /\ f.to \in Int /\ k.from \in Int /\ k.to \in Int
    BY RedactionAssumption DEF Findings, Kinds, BENIGN, SECRET
  <1>2. ~Less(Rank(f), Rank(k))
    BY DEF Precedes
  <1>3. DOMAIN Rank(f) = 1..5
    BY DEF Rank
  <1>4. \A n \in 1..5 : ~(/\ Rank(f)[n] < Rank(k)[n]
                          /\ \A j \in 1..(n - 1) : Rank(f)[j] = Rank(k)[j])
    BY <1>2, <1>3 DEF Less
  <1>5. /\ Rank(f)[1] = -f.kind.tier /\ Rank(k)[1] = -k.kind.tier
        /\ Rank(f)[2] = -f.kind.conf /\ Rank(k)[2] = -k.kind.conf
        /\ Rank(f)[3] = Flag(f.kind.generic) /\ Rank(k)[3] = Flag(k.kind.generic)
        /\ Rank(f)[4] = f.from - f.to /\ Rank(k)[4] = k.from - k.to
    BY DEF Rank
  <1>6. k.kind.tier >= f.kind.tier
    <2>1. ~(Rank(f)[1] < Rank(k)[1])
      BY <1>4
    <2> QED BY <1>1, <1>5, <2>1
  <1>7. CASE k.kind.tier > f.kind.tier
    BY <1>7 DEF Outranks
  <1>8. CASE k.kind.tier = f.kind.tier
    <2>1. Rank(f)[1] = Rank(k)[1]
      BY <1>5, <1>8
    <2>2. ~(Rank(f)[2] < Rank(k)[2])
      BY <1>4, <2>1
    <2>3. k.kind.conf >= f.kind.conf
      BY <1>1, <1>5, <2>2
    <2>4. CASE k.kind.conf > f.kind.conf
      BY <1>8, <2>4 DEF Outranks
    <2>5. CASE k.kind.conf = f.kind.conf
      <3>1. Rank(f)[2] = Rank(k)[2]
        BY <1>5, <2>5
      <3>2. ~(Rank(f)[3] < Rank(k)[3])
        BY <1>4, <2>1, <3>1
      <3>3. CASE f.kind.generic /\ ~k.kind.generic
        BY <1>8, <2>5, <3>3 DEF MoreSpecific
      <3>4. CASE f.kind.generic = k.kind.generic
        <4>1. Rank(f)[3] = Rank(k)[3]
          BY <1>5, <3>4
        <4>2. ~(Rank(f)[4] < Rank(k)[4])
          BY <1>4, <2>1, <3>1, <4>1
        <4>3. Length(k) >= Length(f)
          BY <1>1, <1>5, <4>2 DEF Length
        <4> QED BY <1>8, <2>5, <4>3 DEF Outranks
      <3>5. CASE ~f.kind.generic /\ k.kind.generic
        BY <1>5, <3>2, <3>5 DEF Flag
      <3> QED BY <1>1, <3>3, <3>4, <3>5
    <2> QED BY <1>1, <2>3, <2>4, <2>5
  <1> QED BY <1>1, <1>6, <1>7, <1>8

\* A finding that does not come before another one in the text comes behind it.
LEMMA PlacedAsSaid ==
    ASSUME NEW f \in Findings, NEW k \in Findings, pass = "spans", ~Precedes(f, k)
    PROVE  StandsBefore(k, f)
  <1>1. f.from \in Int /\ f.to \in Int /\ k.from \in Int /\ k.to \in Int
    BY RedactionAssumption DEF Findings
  <1>2. ~Less(Position(f), Position(k))
    BY DEF Precedes
  <1>3. DOMAIN Position(f) = 1..2
    BY DEF Position
  <1>4. \A n \in 1..2 : ~(/\ Position(f)[n] < Position(k)[n]
                          /\ \A j \in 1..(n - 1) : Position(f)[j] = Position(k)[j])
    BY <1>2, <1>3 DEF Less
  <1>5. /\ Position(f)[1] = f.from /\ Position(k)[1] = k.from
        /\ Position(f)[2] = f.from - f.to /\ Position(k)[2] = k.from - k.to
    BY DEF Position
  <1>6. ~(f.from < k.from)
    BY <1>4, <1>5
  <1>7. CASE f.from = k.from
    <2>1. ~(Position(f)[2] < Position(k)[2])
      BY <1>4, <1>5, <1>7
    <2> QED BY <1>1, <1>5, <1>7, <2>1 DEF StandsBefore
  <1> QED BY <1>1, <1>6, <1>7 DEF StandsBefore

\* What resolve_overlaps and _merge_spans keep shares no character, and what they drop
\* shares one with something kept of a higher tier, or surer, or longer, or more specific
\* (or that stands before it).
THEOREM ResolvedAlways == Spec => []Resolved
  <1>1. IInv => Resolved
    <2> SUFFICES ASSUME IInv PROVE Resolved
      OBVIOUS
    <2>1. kept \subseteq given /\ given \subseteq Findings /\ Spread(kept)
      BY DEF IInv, LoopInv, Typed
    <2>2. \A f, g \in kept : f # g => ~Shares(f, g)
      BY <2>1, SharesApart DEF Spread
    <2>3. ASSUME pass \in Passes, NEW f \in GivenUp
          PROVE  \E k \in kept : Shares(f, k) /\ ~Precedes(f, k)
      <3>1. PICK k \in kept : ~Apart(f, k) /\ ~Precedes(f, k)
        BY <2>3 DEF IInv, LoopInv, GivenUp
      <3> QED BY <2>1, <2>3, <3>1, SharesApart DEF GivenUp
    <2>4. ASSUME Resolving, NEW f \in GivenUp
          PROVE  \E k \in kept : Shares(f, k) /\ (Outranks(k, f) \/ MoreSpecific(k, f))
      <3>1. pass \in Passes /\ pass # "spans"
        BY <2>4 DEF Resolving, Passes
      <3>2. PICK k \in kept : Shares(f, k) /\ ~Precedes(f, k)
        BY <2>3, <2>4, <3>1
      <3>3. f \in Findings /\ k \in Findings
        BY <2>1, <2>4 DEF GivenUp
      <3> QED BY <3>1, <3>2, <3>3, RankedAsSaid
    <2>5. ASSUME pass = "spans", NEW f \in GivenUp
          PROVE  \E k \in kept : Shares(f, k) /\ StandsBefore(k, f)
      <3>1. PICK k \in kept : Shares(f, k) /\ ~Precedes(f, k)
        BY <2>3, <2>5 DEF Passes
      <3>2. f \in Findings /\ k \in Findings
        BY <2>1, <2>5 DEF GivenUp
      <3> QED BY <2>5, <3>1, <3>2, PlacedAsSaid
    <2> QED BY <2>2, <2>4, <2>5 DEF Resolved
  <1> QED BY Invariant, <1>1, PTL

\* The text that goes out is the old one with exactly the spans replaced.
THEOREM RightTextAlways == Spec => []RightText
  <1>1. IInv => RightText
    BY DEF IInv, TextInv
  <1> QED BY Invariant, <1>1, PTL

\* No answer of the LLM keeps a confident finding from being replaced.
THEOREM ConfidentAlwaysStays == Spec => []ConfidentStays
  <1>1. IInv => ConfidentStays
    BY DEF IInv, MergeInv
  <1> QED BY Invariant, <1>1, PTL

\* No unsure finding is given up without a verdict about it.
THEOREM UnsureAlwaysAccounted == Spec => []UnsureAccounted
  <1>1. IInv => UnsureAccounted
    BY DEF IInv, MergeInv
  <1> QED BY Invariant, <1>1, PTL

\* No confident secret goes out unreplaced.
THEOREM SecretsAlwaysStay == Spec => []SecretsStay
  <1>1. ASSUME IInv, GoesOut, NEW r \in reports, SureSecret(r)
        PROVE  /\ path = "protect"
               /\ \E s \in spans : s.kind.tier = SECRET /\ Shares(r, s)
    <2>1. r \in From("secrets") /\ r \in Findings
      BY <1>1, CataloguesTyped DEF IInv, Typed, From, SureSecret, SECRET
    <2>2. path = "protect" /\ SecretsFound /\ outcome = "redacted"
      BY <1>1, <2>1, RedactionAssumption DEF IInv, Typed, PassInv, GoesOut
    <2>3. PICK s \in found : SureSecret(s) /\ ~Apart(r, s)
      BY <1>1, <2>1, <2>2 DEF SecretsFound
    <2>4. s \in spans /\ s \in Findings
      BY <1>1, <2>2, <2>3
      DEF IInv, Typed, MergeInv, ConfidentStays, Merging, Confident, SureSecret
    <2> QED BY <2>1, <2>2, <2>3, <2>4, SharesApart DEF SureSecret
  <1>2. IInv => SecretsStay
    BY <1>1 DEF SecretsStay, GoesOut, SureSecret
  <1> QED BY Invariant, <1>2, PTL
--------------------------------------------------------------------------------
(* SseStream: sequences of sequences, and what FlattenSeq makes of them       *)

\* Two sequences with the same elements are the same.
LEMMA SameElements ==
    ASSUME NEW S, NEW a \in Seq(S), NEW b \in Seq(S), Len(a) = Len(b),
           \A i \in 1..Len(a) : a[i] = b[i]
    PROVE  a = b
  OBVIOUS

\* What has the elements of a and then those of b is their concatenation.
LEMMA JoinedIs ==
    ASSUME NEW S, NEW a \in Seq(S), NEW b \in Seq(S), NEW u \in Seq(S),
           Len(u) = Len(a) + Len(b),
           \A i \in 1..Len(a) : u[i] = a[i],
           \A i \in 1..Len(b) : u[Len(a) + i] = b[i]
    PROVE  u = a \o b
<1> DEFINE n == Len(a)
           m == Len(b)
           v == a \o b
<1>1. n \in Nat /\ m \in Nat
  OBVIOUS
<1>2. /\ v \in Seq(S) /\ Len(v) = n + m
      /\ (\A i \in 1..n : v[i] = a[i]) /\ (\A i \in 1..m : v[n + i] = b[i])
  OBVIOUS
<1> HIDE DEF n, m, v
<1>3. ASSUME NEW i \in 1..n + m PROVE u[i] = v[i]
  <2>1. i \in 1..n \/ (i - n \in 1..m /\ n + (i - n) = i)
    BY <1>1
  <2> QED
    BY <1>2, <2>1 DEF n, m
<1> QED
  BY <1>1, <1>2, <1>3, SameElements DEF n, m, v

\* A sequence is the part of it that is all of it.
LEMMA WholeIs ==
    ASSUME NEW S, NEW a \in Seq(S)
    PROVE  SubSeq(a, 1, Len(a)) = a /\ SubSeq(a, 1, 0) = <<>> /\ Len(a) \in Nat
  OBVIOUS

\* A set of places that is not empty has a last one.
LEMMA LastOne ==
    ASSUME NEW n \in Nat, NEW S, S \subseteq 0..n, S # {}
    PROVE  \E i \in S : \A j \in S : j <= i
<1> DEFINE After(i) == {j \in 0..n : i < j}
           T == {After(i) : i \in S}
<1>1. IsWellFoundedOn(StrictSubsetOrdering(0..n), SUBSET (0..n))
  <2>1. IsFiniteSet(0..n)
    BY FS_Interval
  <2>2. FiniteSubsetsOf(0..n) = SUBSET (0..n)
    BY <2>1, FS_FiniteSubsetsOfFinite
  <2>3. IsWellFoundedOn(StrictSubsetOrdering(0..n), FiniteSubsetsOf(0..n))
    BY FS_StrictSubsetOrderingWellFounded
  <2> QED
    BY <2>2, <2>3
<1>2. T \subseteq SUBSET (0..n) /\ T # {}
  OBVIOUS
<1>3. PICK x \in T : \A y \in T : ~(<<y, x>> \in StrictSubsetOrdering(0..n))
  <2> HIDE DEF T
  <2> QED
    BY <1>1, <1>2, WFMin
<1>4. PICK i \in S : x = After(i)
  OBVIOUS
<1>5. ASSUME NEW j \in S, ~(j <= i) PROVE FALSE
  <2>1. i \in 0..n /\ j \in 0..n /\ i < j
    BY <1>5
  <2>2. After(j) \subseteq After(i) /\ j \in After(i) /\ j \notin After(j)
    BY <2>1
  <2>3. <<After(j), After(i)>> \in StrictSubsetOrdering(0..n)
    BY <2>2, <1>2, <1>4 DEF StrictSubsetOrdering
  <2> QED
    BY <2>3, <1>3, <1>4
<1> QED
  BY <1>5

\* Induction up to n, for the elements of a set.
LEMMA Induction ==
    ASSUME NEW n \in Nat, NEW G, 0 \in G, \A k \in 0..n - 1 : k \in G => k + 1 \in G
    PROVE  n \in G
<1> DEFINE S == {i \in 0..n : \A j \in 0..i : j \in G}
<1>1. 0 \in S
  OBVIOUS
<1>2. PICK i \in S : \A j \in S : j <= i
  <2>1. S \subseteq 0..n /\ S # {}
    BY <1>1
  <2> HIDE DEF S
  <2> QED
    BY <2>1, LastOne
<1>3. CASE i < n
  <2>1. i + 1 \in S
    BY <1>2, <1>3
  <2> QED
    BY <1>2, <2>1
<1>4. CASE i = n
  BY <1>4
<1> QED
  BY <1>2, <1>3, <1>4

\* Pieces of text in a row.
Rows(S) == Seq(Seq(S))

\* A beginning of a row of sequences, and the one that is one longer.
LEMMA RowsPrefix ==
    ASSUME NEW S, NEW q \in Rows(S), NEW k \in 0..Len(q) - 1
    PROVE  /\ SubSeq(q, 1, k) \in Rows(S) /\ q[k + 1] \in Seq(S) /\ SubSeq(q, 1, 0) = <<>>
           /\ SubSeq(q, 1, k + 1) = Append(SubSeq(q, 1, k), q[k + 1])
<1> DEFINE T == Seq(S)
<1> HIDE DEF T
<1>1. q \in Seq(T)
  BY DEF Rows, T
<1>2. /\ SubSeq(q, 1, k) \in Seq(T) /\ q[k + 1] \in T /\ SubSeq(q, 1, 0) = <<>>
      /\ SubSeq(q, 1, k + 1) = Append(SubSeq(q, 1, k), q[k + 1])
  BY <1>1
<1> QED
  BY <1>2 DEF Rows, T

\* A row of sequences is the part of it that is all of it.
LEMMA RowsWhole ==
    ASSUME NEW S, NEW q \in Rows(S)
    PROVE  SubSeq(q, 1, Len(q)) = q /\ SubSeq(q, 1, 0) = <<>> /\ q \o <<>> = q /\ Len(q) \in Nat
<1> DEFINE T == Seq(S)
<1> HIDE DEF T
<1>1. q \in Seq(T)
  BY DEF Rows, T
<1> QED
  BY <1>1

\* Two rows of sequences, one after the other.
LEMMA RowsConcat ==
    ASSUME NEW S, NEW q \in Rows(S), NEW p \in Rows(S), NEW x \in Seq(S)
    PROVE  q \o p \in Rows(S) /\ q \o Append(p, x) = Append(q \o p, x)
<1> DEFINE T == Seq(S)
<1> HIDE DEF T
<1>1. q \in Seq(T) /\ p \in Seq(T) /\ x \in T
  BY DEF Rows, T
<1>2. q \o p \in Seq(T) /\ q \o Append(p, x) = Append(q \o p, x)
  BY <1>1
<1> QED
  BY <1>2 DEF Rows, T

\* f[i] joins the first i sequences of q.
Joins(q, f, n) == \A i \in 1..n : f[i] = IF i = 1 THEN q[i] ELSE f[i - 1] \o q[i]

\* There is a function that joins them ...
LEMMA JoinExists ==
    ASSUME NEW S, NEW q \in Rows(S), NEW n \in 1..Len(q)
    PROVE  \E f \in [1..n -> Seq(S)] : Joins(q, f, n)
<1> DEFINE G == {m \in Nat : m \in 1..Len(q) => \E f \in [1..m -> Seq(S)] : Joins(q, f, m)}
<1>1. 0 \in G
  OBVIOUS
<1>2. ASSUME NEW k \in 0..n - 1, k \in G PROVE k + 1 \in G
  <2>0. k \in Nat /\ k + 1 \in 1..Len(q)
    BY <1>2
  <2>1. CASE k = 0
    <3>1. [i \in 1..1 |-> q[1]] \in [1..1 -> Seq(S)]
      <4>1. q[1] \in Seq(S)
        BY <2>0, <2>1, RowsPrefix
      <4> QED
        BY <4>1
    <3>2. Joins(q, [i \in 1..1 |-> q[1]], 1)
      BY DEF Joins
    <3> QED
      BY <2>1, <3>1, <3>2
  <2>2. CASE k # 0
    <3>1. PICK f \in [1..k -> Seq(S)] : Joins(q, f, k)
      BY <1>2, <2>2
    <3> DEFINE g == [i \in 1..k + 1 |-> IF i = k + 1 THEN f[k] \o q[i] ELSE f[i]]
    <3>2. g \in [1..k + 1 -> Seq(S)]
      <4>1. q[k + 1] \in Seq(S)
        BY <2>0, RowsPrefix
      <4> QED
        BY <2>2, <4>1
    <3>3. ASSUME NEW i \in 1..k + 1 PROVE g[i] = IF i = 1 THEN q[i] ELSE g[i - 1] \o q[i]
      <4>1. CASE i = k + 1
        <5>1. i # 1 /\ i - 1 = k /\ k \in 1..k + 1 /\ k # k + 1
          <6> HIDE DEF g, G
          <6> QED
            BY <2>0, <2>2, <4>1
        <5>2. g[i - 1] = f[k]
          BY <5>1
        <5>3. g[i] = f[k] \o q[i]
          BY <4>1
        <5> QED
          BY <5>1, <5>2, <5>3
      <4>2. CASE i # k + 1
        <5>1. i \in 1..k /\ g[i] = f[i] /\ (i # 1 => i - 1 \in 1..k /\ g[i - 1] = f[i - 1])
          BY <4>2
        <5> QED
          BY <3>1, <5>1 DEF Joins
      <4> QED
        BY <4>1, <4>2
    <3>4. Joins(q, g, k + 1)
      BY <3>3 DEF Joins
    <3>5. \E h \in [1..k + 1 -> Seq(S)] : Joins(q, h, k + 1)
      <4> HIDE DEF g
      <4> QED
        BY <3>2, <3>4
    <3> QED
      BY <2>0, <3>5
  <2> QED
    BY <2>1, <2>2
<1>3. n \in G
  <2> HIDE DEF G
  <2> QED
    BY <1>1, <1>2, Induction
<1> QED
  BY <1>3

\* ... and every such function joins them to the same.
LEMMA JoinUnique ==
    ASSUME NEW S, NEW q \in Rows(S), NEW n \in 1..Len(q),
           NEW f, Joins(q, f, n), NEW g, Joins(q, g, n)
    PROVE  f[n] = g[n]
<1> DEFINE G == {m \in Nat : m \in 1..n => f[m] = g[m]}
<1>1. 0 \in G
  OBVIOUS
<1>2. ASSUME NEW k \in 0..n - 1, k \in G PROVE k + 1 \in G
  <2>1. k + 1 \in 1..n /\ (k # 0 => f[k] = g[k])
    BY <1>2
  <2>2. f[k + 1] = g[k + 1]
    <3>1. (k + 1) - 1 = k /\ (k + 1 = 1 <=> k = 0)
      BY <1>2
    <3> QED
      BY <2>1, <3>1 DEF Joins
  <2> QED
    BY <2>2
<1>3. n \in G
  <2> HIDE DEF G
  <2> QED
    BY <1>1, <1>2, Induction
<1> QED
  BY <1>3

\* FlattenSeq is such a joining.
LEMMA FlattenIsJoin ==
    ASSUME NEW S, NEW q \in Rows(S), q # <<>>
    PROVE  \E f : Joins(q, f, Len(q)) /\ FlattenSeq(q) = f[Len(q)]
<1> DEFINE F(f) == f = [i \in 1..Len(q) |-> IF i = 1 THEN q[i] ELSE f[i - 1] \o q[i]]
<1>1. \E f : F(f)
  <2>1. PICK f \in [1..Len(q) -> Seq(S)] : Joins(q, f, Len(q))
    <3>1. Len(q) \in 1..Len(q)
      <4> DEFINE T == Seq(S)
      <4>1. q \in Seq(T)
        BY DEF Rows
      <4> HIDE DEF T
      <4> QED
        BY <4>1
    <3> QED
      BY <3>1, JoinExists
  <2>2. F(f)
    BY <2>1 DEF Joins
  <2> QED
    BY <2>2
<1>2. F(CHOOSE f : F(f))
  <2> HIDE DEF F
  <2> QED
    BY <1>1, Zenon
<1>3. Len(q) # 0
  OBVIOUS
<1>4. FlattenSeq(q) = (CHOOSE f : F(f))[Len(q)]
  BY <1>3, Zenon DEF FlattenSeq
<1>5. Joins(q, CHOOSE f : F(f), Len(q))
  BY <1>2 DEF Joins
<1> QED
  BY <1>4, <1>5

\* One sequence more comes at the end of what is flattened.
LEMMA FlattenAppend ==
    ASSUME NEW S, NEW q \in Rows(S), NEW x \in Seq(S)
    PROVE  FlattenSeq(Append(q, x)) = FlattenSeq(q) \o x
<1> DEFINE r == Append(q, x)
           n == Len(q)
<1>1. /\ r \in Rows(S) /\ r # <<>> /\ n \in Nat /\ Len(r) = n + 1 /\ r[n + 1] = x
      /\ \A i \in 1..n : r[i] = q[i]
  <2> DEFINE T == Seq(S)
  <2>1. q \in Seq(T) /\ x \in T
    BY DEF Rows
  <2> HIDE DEF T
  <2>2. /\ r \in Seq(T) /\ r # <<>> /\ n \in Nat /\ Len(r) = n + 1 /\ r[n + 1] = x
        /\ \A i \in 1..n : r[i] = q[i]
    BY <2>1
  <2> QED
    BY <2>2 DEF T, Rows
<1>2. PICK f : Joins(r, f, n + 1) /\ FlattenSeq(r) = f[n + 1]
  <2> HIDE DEF r
  <2> QED
    BY <1>1, FlattenIsJoin
<1>3. CASE q = <<>>
  <2>1. FlattenSeq(q) = <<>>
    BY <1>3 DEF FlattenSeq
  <2>2. f[n + 1] = x
    <3> HIDE DEF r
    <3> QED
      BY <1>1, <1>2, <1>3 DEF Joins
  <2> QED
    BY <1>2, <2>1, <2>2
<1>4. CASE q # <<>>
  <2>1. PICK g : Joins(q, g, n) /\ FlattenSeq(q) = g[n]
    BY <1>4, FlattenIsJoin
  <2>2. n \in 1..n
    <3>1. n # 0
      <4> DEFINE T == Seq(S)
      <4>1. q \in Seq(T)
        BY DEF Rows
      <4> HIDE DEF T
      <4> QED
        BY <1>4, <4>1
    <3> QED
      BY <1>1, <3>1
  <2>3. Joins(q, f, n)
    <3> HIDE DEF r
    <3> QED
      BY <1>1, <1>2 DEF Joins
  <2>4. f[n] = g[n]
    BY <2>1, <2>2, <2>3, JoinUnique
  <2>5. f[n + 1] = f[n] \o x
    <3>1. n + 1 \in 1..n + 1 /\ n + 1 # 1 /\ (n + 1) - 1 = n
      BY <1>1, <2>2
    <3> HIDE DEF r
    <3> QED
      BY <1>1, <1>2, <3>1 DEF Joins
  <2> QED
    BY <1>2, <2>1, <2>4, <2>5
<1> QED
  BY <1>3, <1>4

\* What is flattened holds elements of the same set.
LEMMA FlattenTyped ==
    ASSUME NEW S, NEW q \in Rows(S)
    PROVE  FlattenSeq(q) \in Seq(S)
<1> DEFINE Fore(m) == SubSeq(q, 1, m)
           G == {m \in Nat : m <= Len(q) => FlattenSeq(Fore(m)) \in Seq(S)}
<1>1. 0 \in G
  <2>1. FlattenSeq(<<>>) = <<>>
    BY DEF FlattenSeq
  <2>2. FlattenSeq(Fore(0)) \in Seq(S)
    <3>1. Fore(0) = <<>> /\ <<>> \in Seq(S)
      BY RowsWhole
    <3> HIDE DEF Fore
    <3> QED
      BY <2>1, <3>1
  <2> HIDE DEF Fore
  <2> QED
    BY <2>2
<1>2. ASSUME NEW k \in 0..Len(q) - 1, k \in G PROVE k + 1 \in G
  <2>0. k \in Nat /\ k <= Len(q)
    BY RowsWhole
  <2>1. Fore(k) \in Rows(S) /\ q[k + 1] \in Seq(S) /\ Fore(k + 1) = Append(Fore(k), q[k + 1])
    BY RowsPrefix
  <2> HIDE DEF Fore
  <2>2. FlattenSeq(Fore(k)) \in Seq(S)
    BY <1>2, <2>0
  <2>3. FlattenSeq(Fore(k + 1)) \in Seq(S)
    <3>1. FlattenSeq(Fore(k + 1)) = FlattenSeq(Fore(k)) \o q[k + 1]
      BY <2>1, FlattenAppend
    <3> QED
      BY <2>1, <2>2, <3>1, ConcatProperties
  <2> QED
    BY <2>0, <2>3
<1>3. Len(q) \in G
  <2> HIDE DEF G
  <2> QED
    BY <1>1, <1>2, Induction, RowsWhole
<1>4. FlattenSeq(Fore(Len(q))) \in Seq(S)
  <2> HIDE DEF Fore
  <2> QED
    BY <1>3, RowsWhole
<1> QED
  BY <1>4, RowsWhole

\* Flattening goes through a concatenation.
LEMMA FlattenConcat ==
    ASSUME NEW S, NEW q \in Rows(S), NEW r \in Rows(S)
    PROVE  FlattenSeq(q \o r) = FlattenSeq(q) \o FlattenSeq(r)
<1> DEFINE Fore(m) == SubSeq(r, 1, m)
           Whole(m) == FlattenSeq(q \o Fore(m)) = FlattenSeq(q) \o FlattenSeq(Fore(m))
           G == {m \in Nat : m <= Len(r) => Whole(m)}
<1>0. FlattenSeq(q) \in Seq(S)
  BY FlattenTyped
<1>1. 0 \in G
  <2>1. FlattenSeq(<<>>) = <<>>
    BY DEF FlattenSeq
  <2>2. Fore(0) = <<>> /\ q \o <<>> = q /\ FlattenSeq(q) \o <<>> = FlattenSeq(q)
    BY <1>0, RowsWhole, ConcatEmptySeq
  <2>3. Whole(0)
    <3> HIDE DEF Fore
    <3> QED
      BY <2>1, <2>2
  <2> HIDE DEF Whole
  <2> QED
    BY <2>3
<1>2. ASSUME NEW k \in 0..Len(r) - 1, k \in G PROVE k + 1 \in G
  <2>0. k \in Nat /\ k <= Len(r)
    BY RowsWhole
  <2>1. Fore(k) \in Rows(S) /\ r[k + 1] \in Seq(S) /\ Fore(k + 1) = Append(Fore(k), r[k + 1])
    BY RowsPrefix
  <2> DEFINE p == Fore(k)
  <2>2. Whole(k)
    <3> HIDE DEF Whole
    <3> QED
      BY <1>2, <2>0
  <2> HIDE DEF Fore
  <2>3. q \o Append(p, r[k + 1]) = Append(q \o p, r[k + 1]) /\ q \o p \in Rows(S)
    BY <2>1, RowsConcat
  <2>4. FlattenSeq(Append(p, r[k + 1])) = FlattenSeq(p) \o r[k + 1]
    BY <2>1, FlattenAppend
  <2>5. FlattenSeq(Append(q \o p, r[k + 1])) = FlattenSeq(q \o p) \o r[k + 1]
    BY <2>1, <2>3, FlattenAppend
  <2>6. FlattenSeq(p) \in Seq(S)
    BY <2>1, FlattenTyped
  <2>7. (FlattenSeq(q) \o FlattenSeq(p)) \o r[k + 1] = FlattenSeq(q) \o (FlattenSeq(p) \o r[k + 1])
    <3> DEFINE a == FlattenSeq(q)
               b == FlattenSeq(p)
               c == r[k + 1]
    <3>1. a \in Seq(S) /\ b \in Seq(S) /\ c \in Seq(S)
      BY <1>0, <2>1, <2>6
    <3> HIDE DEF a, b, c
    <3>2. (a \o b) \o c = a \o (b \o c)
      BY <3>1, ConcatAssociative, SMTT(30)
    <3> QED
      BY <3>2 DEF a, b, c
  <2>8. Whole(k + 1)
    BY <2>1, <2>2, <2>3, <2>4, <2>5, <2>7
  <2> HIDE DEF Whole
  <2> QED
    BY <2>0, <2>8
<1>3. Len(r) \in G
  <2> HIDE DEF G
  <2> QED
    BY <1>1, <1>2, Induction, RowsWhole
<1>4. Whole(Len(r))
  <2> HIDE DEF Whole
  <2> QED
    BY <1>3, RowsWhole
<1> QED
  BY <1>4, RowsWhole
--------------------------------------------------------------------------------
(* SseStream: RestoreComplete looks at windows of the text                    *)

\* A token has a body.
LEMMA Width == BodyLen \in Nat /\ BodyLen >= 1
<1>1. BodyLen \in Nat \ {0}
  BY SseAssumption, Zenon
<1> QED
  BY <1>1

\* What RestoreComplete puts in the place of character i.
Piece(s, i) == IF Known(s, i) THEN Mapping[Token(s, i)]
               ELSE IF \E j \in 1..i : Known(s, j) /\ i <= j + BodyLen + 2 THEN <<>>
               ELSE <<s[i]>>

\* What a text is restored from.
PiecesOf(s) == [i \in DOMAIN s |-> Piece(s, i)]

\* RestoreComplete joins the pieces of a text.
LEMMA RestoreIsPieces ==
    ASSUME NEW s \in Seq(STRING)
    PROVE  /\ RestoreComplete(s) = FlattenSeq(PiecesOf(s))
           /\ PiecesOf(s) \in Rows(STRING) /\ Len(PiecesOf(s)) = Len(s)
           /\ RestoreComplete(s) \in Seq(STRING)
<1>1. RestoreComplete(s) = FlattenSeq(PiecesOf(s))
  BY DEF RestoreComplete, PiecesOf, Piece
<1>2. ASSUME NEW i \in DOMAIN s PROVE Piece(s, i) \in Seq(STRING)
  <2>1. CASE Known(s, i)
    BY <2>1, SseAssumption DEF Piece, Known
  <2>2. CASE ~Known(s, i)
    <3>1. s[i] \in STRING
      BY <1>2
    <3>2. <<s[i]>> \in Seq(STRING) /\ <<>> \in Seq(STRING)
      BY <3>1
    <3> QED
      BY <2>2, <3>2 DEF Piece
  <2> QED
    BY <2>1, <2>2
<1>3. PiecesOf(s) \in Rows(STRING) /\ Len(PiecesOf(s)) = Len(s)
  <2> DEFINE T == Seq(STRING)
             p == PiecesOf(s)
  <2>1. DOMAIN s = 1..Len(s) /\ Len(s) \in Nat
    OBVIOUS
  <2>2. p \in [1..Len(s) -> T]
    BY <1>2, <2>1 DEF PiecesOf
  <2> HIDE DEF T, p
  <2>3. p \in Seq(T) /\ Len(p) = Len(s)
    BY <2>1, <2>2
  <2> QED
    BY <2>3 DEF T, p, Rows
<1> QED
  BY <1>1, <1>3, FlattenTyped

\* w is what t has from place a + 1 on.
Windowed(w, t, a) ==
    /\ w \in Seq(STRING) /\ t \in Seq(STRING) /\ a \in Nat /\ a + Len(w) <= Len(t)
    /\ \A k \in 1..Len(w) : w[k] = t[a + k]

\* A part of a text is a window of it.
LEMMA WindowIs ==
    ASSUME NEW t \in Seq(STRING), NEW a \in Nat, NEW b \in Nat, a <= b, b <= Len(t)
    PROVE  Windowed(SubSeq(t, a + 1, b), t, a) /\ Len(SubSeq(t, a + 1, b)) = b - a
<1> DEFINE w == SubSeq(t, a + 1, b)
<1>1. w \in Seq(STRING) /\ Len(w) = b - a
  OBVIOUS
<1>2. ASSUME NEW k \in 1..b - a PROVE w[k] = t[a + k]
  OBVIOUS
<1>3. Len(t) \in Nat
  OBVIOUS
<1> HIDE DEF w
<1>4. Windowed(w, t, a)
  BY <1>1, <1>2, <1>3 DEF Windowed
<1> QED
  BY <1>1, <1>4 DEF w

\* A window has the tokens of the text that lie in it ...
LEMMA WindowTokens ==
    ASSUME NEW w, NEW t, NEW a, Windowed(w, t, a), NEW i \in 1..Len(w)
    PROVE  TokenAt(w, i) <=> TokenAt(t, a + i) /\ i + BodyLen + 2 <= Len(w)
<1> DEFINE B == BodyLen
           n == Len(w)
           m == Len(t)
<1>1. B \in Nat /\ n \in Nat /\ m \in Nat /\ a \in Nat /\ a + n <= m /\ i \in 1..n
  BY Width DEF Windowed
<1>2. \A k \in 1..n : w[k] = t[a + k]
  BY DEF Windowed
<1>3. CASE i + B + 2 <= n
  <2> HIDE DEF B, n, m
  <2>0. i \in Nat /\ i + 1 \in 1..n /\ i + B + 2 \in 1..n /\ i \in 1..n
    BY <1>1, <1>3
  <2>1. w[i] = t[a + i] /\ w[i + 1] = t[a + i + 1] /\ w[i + B + 2] = t[a + i + B + 2]
    <3>1. a + (i + 1) = a + i + 1 /\ a + (i + B + 2) = a + i + B + 2
      BY <1>1, <2>0
    <3> QED
      BY <1>2, <2>0, <3>1
  <2>2. ASSUME \A k \in i + 2..i + B + 1 : w[k] \in Body,
               NEW k \in a + i + 2..a + i + B + 1
        PROVE  t[k] \in Body
    <3>1. k - a \in i + 2..i + B + 1 /\ a + (k - a) = k /\ k - a \in 1..n
      BY <1>1, <1>3, <2>0
    <3> QED
      BY <1>2, <2>2, <3>1
  <2>3. ASSUME \A k \in a + i + 2..a + i + B + 1 : t[k] \in Body,
               NEW k \in i + 2..i + B + 1
        PROVE  w[k] \in Body
    <3>1. a + k \in a + i + 2..a + i + B + 1 /\ k \in 1..n
      BY <1>1, <1>3, <2>0
    <3> QED
      BY <1>2, <2>3, <3>1
  <2>4. i + B + 2 <= n /\ a + i + B + 2 <= m
    BY <1>1, <1>3, <2>0
  <2>5. (/\ w[i] = "[" /\ w[i + 1] = "_" /\ w[i + B + 2] = "]"
         /\ \A k \in i + 2..i + B + 1 : w[k] \in Body)
        <=> /\ t[a + i] = "[" /\ t[a + i + 1] = "_" /\ t[a + i + B + 2] = "]"
            /\ \A k \in a + i + 2..a + i + B + 1 : t[k] \in Body
    BY <2>1, <2>2, <2>3
  <2> QED
    BY <1>3, <2>4, <2>5 DEF TokenAt, B, n, m
<1>4. CASE ~(i + B + 2 <= n)
  BY <1>4 DEF TokenAt
<1> QED
  BY <1>3, <1>4

\* ... the same ones ...
LEMMA WindowToken ==
    ASSUME NEW w, NEW t, NEW a, Windowed(w, t, a), NEW i \in 1..Len(w), TokenAt(w, i)
    PROVE  Token(w, i) = Token(t, a + i)
<1> DEFINE B == BodyLen
           n == Len(w)
           e == i + B + 2
<1>1. B \in Nat /\ n \in Nat /\ Len(t) \in Nat /\ a \in Nat /\ a + n <= Len(t) /\ i \in 1..n
  BY Width DEF Windowed
<1>2. e <= n
  BY DEF TokenAt
<1>3. w \in Seq(STRING) /\ t \in Seq(STRING)
  BY DEF Windowed
<1>4. /\ SubSeq(w, i, e) \in Seq(STRING) /\ Len(SubSeq(w, i, e)) = e - i + 1
      /\ \A k \in 1..e - i + 1 : SubSeq(w, i, e)[k] = w[i + k - 1]
  <2>1. i \in Int /\ e \in Int /\ i <= e /\ \A k \in i..e : w[k] \in STRING
    BY <1>1, <1>2, <1>3
  <2> HIDE DEF n, B, e
  <2> QED
    BY <2>1, SubSeqProperties
<1>5. /\ SubSeq(t, a + i, a + e) \in Seq(STRING) /\ Len(SubSeq(t, a + i, a + e)) = e - i + 1
      /\ \A k \in 1..e - i + 1 : SubSeq(t, a + i, a + e)[k] = t[a + i + k - 1]
  <2> HIDE DEF n, B
  <2> DEFINE x == a + i
             y == a + e
  <2>1. x \in Int /\ y \in Int /\ x <= y /\ y - x + 1 = e - i + 1 /\ 1 <= x /\ y <= Len(t)
    BY <1>1, <1>2
  <2>2. \A k \in x..y : t[k] \in STRING
    BY <1>3, <2>1
  <2> HIDE DEF e, x, y
  <2>3. /\ SubSeq(t, x, y) \in Seq(STRING) /\ Len(SubSeq(t, x, y)) = y - x + 1
        /\ \A k \in 1..y - x + 1 : SubSeq(t, x, y)[k] = t[x + k - 1]
    BY <2>1, <2>2, SubSeqProperties
  <2> QED
    BY <2>1, <2>3 DEF x, y
<1>6. ASSUME NEW k \in 1..e - i + 1 PROVE w[i + k - 1] = t[a + i + k - 1]
  <2> HIDE DEF n
  <2>1. i + k - 1 \in 1..n /\ a + (i + k - 1) = a + i + k - 1
    BY <1>1, <1>2
  <2> QED
    BY <2>1 DEF Windowed, n
<1>7. SubSeq(w, i, e) = SubSeq(t, a + i, a + e)
  <2> DEFINE u == SubSeq(w, i, e)
             v == SubSeq(t, a + i, a + e)
             l == e - i + 1
  <2>1. u \in Seq(STRING) /\ v \in Seq(STRING) /\ Len(u) = l /\ Len(v) = l
    BY <1>4, <1>5
  <2>2. \A k \in 1..l : u[k] = v[k]
    BY <1>4, <1>5, <1>6
  <2> HIDE DEF u, v, l
  <2>3. u = v
    BY <2>1, <2>2
  <2> QED
    BY <2>3 DEF u, v
<1>8. a + e = a + i + B + 2
  BY <1>1
<1> QED
  BY <1>7, <1>8 DEF Token

\* ... and knows the same of them.
LEMMA WindowKnown ==
    ASSUME NEW w, NEW t, NEW a, Windowed(w, t, a), NEW i \in 1..Len(w)
    PROVE  Known(w, i) <=> Known(t, a + i) /\ i + BodyLen + 2 <= Len(w)
  BY WindowTokens, WindowToken DEF Known

\* No token of the request stands in t on both sides of place d.
Clean(t, d) == \A i \in 1..d : Known(t, i) => i + BodyLen + 2 <= d

\* The window at the beginning of a text.
LEMMA ClippedIs ==
    ASSUME NEW t \in Seq(STRING), NEW b \in Nat, b <= Len(t)
    PROVE  /\ Windowed(SubSeq(t, 1, b), t, 0) /\ Len(SubSeq(t, 1, b)) = b
           /\ \A i \in 1..b : Known(SubSeq(t, 1, b), i) <=> Known(t, i) /\ i + BodyLen + 2 <= b
           /\ \A i \in 1..b : Known(SubSeq(t, 1, b), i) =>
                                  Token(SubSeq(t, 1, b), i) = Token(t, i)
<1> DEFINE u == SubSeq(t, 1, b)
<1>1. Windowed(u, t, 0) /\ Len(u) = b
  <2>1. 0 + 1 = 1 /\ b - 0 = b /\ 0 <= b
    OBVIOUS
  <2> QED
    BY <2>1, WindowIs
<1> HIDE DEF u
<1>2. ASSUME NEW i \in 1..b
      PROVE  /\ Known(u, i) <=> Known(t, i) /\ i + BodyLen + 2 <= b
             /\ Known(u, i) => Token(u, i) = Token(t, i)
  <2>1. i \in 1..Len(u) /\ 0 + i = i
    BY <1>1
  <2>2. Known(u, i) <=> Known(t, 0 + i) /\ i + BodyLen + 2 <= Len(u)
    BY <1>1, <2>1, WindowKnown
  <2>3. Known(u, i) => Token(u, i) = Token(t, 0 + i)
    BY <1>1, <2>1, WindowToken DEF Known
  <2> QED
    BY <1>1, <2>1, <2>2, <2>3
<1> QED
  BY <1>1, <1>2 DEF u

\* A text may be cut where no token stands on both sides.
LEMMA RestoreSplits ==
    ASSUME NEW t \in Seq(STRING), NEW d \in Nat, NEW b \in Nat, d <= b, b <= Len(t), Clean(t, d)
    PROVE  RestoreComplete(SubSeq(t, 1, b))
           = RestoreComplete(SubSeq(t, 1, d)) \o RestoreComplete(SubSeq(t, d + 1, b))
<1> DEFINE u == SubSeq(t, 1, b)
           v == SubSeq(t, 1, d)
           w == SubSeq(t, d + 1, b)
           B == BodyLen
<1>0. B \in Nat /\ B >= 1 /\ Len(t) \in Nat
  BY Width
<1>1. /\ u \in Seq(STRING) /\ Len(u) = b /\ \A k \in 1..b : u[k] = t[k]
      /\ \A i \in 1..b : Known(u, i) <=> Known(t, i) /\ i + B + 2 <= b
      /\ \A i \in 1..b : Known(u, i) => Token(u, i) = Token(t, i)
  <2>1. Windowed(u, t, 0) /\ Len(u) = b
    BY ClippedIs
  <2>2. u \in Seq(STRING) /\ \A k \in 1..Len(u) : u[k] = t[0 + k]
    BY <2>1 DEF Windowed
  <2> QED
    BY <2>1, <2>2, ClippedIs
<1>2. /\ v \in Seq(STRING) /\ Len(v) = d /\ \A k \in 1..d : v[k] = t[k]
      /\ \A i \in 1..d : Known(v, i) <=> Known(t, i) /\ i + B + 2 <= d
      /\ \A i \in 1..d : Known(v, i) => Token(v, i) = Token(t, i)
  <2>0. d <= Len(t)
    BY <1>0
  <2>1. Windowed(v, t, 0) /\ Len(v) = d
    BY <2>0, ClippedIs
  <2>2. v \in Seq(STRING) /\ \A k \in 1..Len(v) : v[k] = t[0 + k]
    BY <2>1 DEF Windowed
  <2> QED
    BY <2>0, <2>1, <2>2, ClippedIs
<1>3. /\ w \in Seq(STRING) /\ Len(w) = b - d /\ \A k \in 1..b - d : w[k] = t[d + k]
      /\ \A i \in 1..b - d : Known(w, i) <=> Known(t, d + i) /\ i + B + 2 <= b - d
      /\ \A i \in 1..b - d : Known(w, i) => Token(w, i) = Token(t, d + i)
  <2>1. Windowed(w, t, d) /\ Len(w) = b - d
    BY WindowIs
  <2>2. w \in Seq(STRING) /\ \A k \in 1..Len(w) : w[k] = t[d + k]
    BY <2>1 DEF Windowed
  <2>3. ASSUME NEW i \in 1..b - d
        PROVE  /\ Known(w, i) <=> Known(t, d + i) /\ i + B + 2 <= b - d
               /\ Known(w, i) => Token(w, i) = Token(t, d + i)
    <3> HIDE DEF w
    <3>1. i \in 1..Len(w)
      BY <2>1
    <3>2. Known(w, i) <=> Known(t, d + i) /\ i + BodyLen + 2 <= Len(w)
      BY <2>1, <3>1, WindowKnown
    <3>3. Known(w, i) => Token(w, i) = Token(t, d + i)
      BY <2>1, <3>1, WindowToken DEF Known
    <3> QED
      BY <2>1, <3>2, <3>3
  <2> QED
    BY <2>1, <2>2, <2>3
<1> HIDE DEF u, v, w, B
<1>4. \A i \in 1..d : Known(t, i) => i + B + 2 <= d
  BY DEF Clean, B
<1>5. ASSUME NEW i \in 1..d PROVE Piece(u, i) = Piece(v, i)
  <2>1. \A j \in 1..i : /\ Known(u, j) <=> Known(v, j)
                        /\ Known(u, j) => Token(u, j) = Token(v, j)
    <3> SUFFICES ASSUME NEW j \in 1..i
                 PROVE  (Known(u, j) <=> Known(v, j)) /\ (Known(u, j) => Token(u, j) = Token(v, j))
      OBVIOUS
    <3>1. j \in 1..d /\ j \in 1..b
      BY <1>0
    <3>2. j + B + 2 <= d => j + B + 2 <= b
      BY <1>0, <3>1
    <3> QED
      BY <1>1, <1>2, <1>4, <3>1, <3>2
  <2>2. i \in 1..i /\ i \in 1..b /\ u[i] = v[i]
    BY <1>1, <1>2
  <2> QED
    BY <2>1, <2>2 DEF Piece, B
<1>6. ASSUME NEW i \in 1..b - d PROVE Piece(u, d + i) = Piece(w, i)
  <2>1. ASSUME NEW j \in 1..b - d
        PROVE  /\ Known(u, d + j) <=> Known(w, j)
               /\ Known(u, d + j) => Token(u, d + j) = Token(w, j)
    <3>1. d + j \in 1..b /\ ((d + j) + B + 2 <= b <=> j + B + 2 <= b - d)
      BY <1>0
    <3> QED
      BY <1>1, <1>3, <3>1
  <2>2. u[d + i] = w[i]
    <3>1. d + i \in 1..b
      OBVIOUS
    <3> QED
      BY <1>1, <1>3, <3>1
  <2>3. (\E j \in 1..d + i : Known(u, j) /\ d + i <= j + B + 2)
        <=> \E j \in 1..i : Known(w, j) /\ i <= j + B + 2
    <3>1. ASSUME NEW j \in 1..d + i, Known(u, j), d + i <= j + B + 2
          PROVE  \E k \in 1..i : Known(w, k) /\ i <= k + B + 2
      <4>1. j > d
        <5>1. SUFFICES ASSUME ~(j > d) PROVE FALSE
          OBVIOUS
        <5>2. j \in 1..d /\ j \in 1..b
          BY <5>1
        <5>3. j + B + 2 <= d
          BY <1>1, <1>4, <3>1, <5>2
        <5> QED
          BY <1>0, <3>1, <5>3
      <4>2. j - d \in 1..i /\ j - d \in 1..b - d /\ d + (j - d) = j /\ i <= (j - d) + B + 2
        BY <1>0, <3>1, <4>1
      <4> QED
        BY <2>1, <3>1, <4>2
    <3>2. ASSUME NEW k \in 1..i, Known(w, k), i <= k + B + 2
          PROVE  \E j \in 1..d + i : Known(u, j) /\ d + i <= j + B + 2
      <4>1. d + k \in 1..d + i /\ k \in 1..b - d /\ d + i <= (d + k) + B + 2
        BY <1>0, <3>2
      <4> QED
        BY <2>1, <3>2, <4>1
    <3> QED
      BY <3>1, <3>2
  <2> QED
    BY <2>1, <2>2, <2>3 DEF Piece, B
<1>7. PiecesOf(u) = PiecesOf(v) \o PiecesOf(w)
  <2> DEFINE T == Seq(STRING)
             p == PiecesOf(u)
             q == PiecesOf(v)
             r == PiecesOf(w)
  <2>1. /\ p \in Seq(T) /\ Len(p) = b /\ q \in Seq(T) /\ Len(q) = d /\ r \in Seq(T)
        /\ Len(r) = b - d
    BY <1>1, <1>2, <1>3, RestoreIsPieces DEF Rows
  <2>2. \A i \in 1..d : p[i] = q[i]
    <3> SUFFICES ASSUME NEW i \in 1..d PROVE p[i] = q[i]
      OBVIOUS
    <3>1. i \in DOMAIN u /\ i \in DOMAIN v
      BY <1>1, <1>2
    <3> QED
      BY <1>5, <3>1 DEF PiecesOf
  <2>3. \A i \in 1..b - d : p[d + i] = r[i]
    <3> SUFFICES ASSUME NEW i \in 1..b - d PROVE p[d + i] = r[i]
      OBVIOUS
    <3>1. d + i \in DOMAIN u /\ i \in DOMAIN w
      BY <1>1, <1>3
    <3> QED
      BY <1>6, <3>1 DEF PiecesOf
  <2> HIDE DEF T, p, q, r
  <2>4. /\ p \in Seq(T) /\ q \in Seq(T) /\ r \in Seq(T) /\ Len(p) = Len(q) + Len(r)
        /\ \A i \in 1..Len(q) : p[i] = q[i]
        /\ \A i \in 1..Len(r) : p[Len(q) + i] = r[i]
    <3>1. d + (b - d) = b
      OBVIOUS
    <3> QED
      BY <2>1, <2>2, <2>3, <3>1
  <2>6. p = q \o r
    BY <2>4, JoinedIs
  <2> QED
    BY <2>6 DEF p, q, r
<1>8. RestoreComplete(u) = RestoreComplete(v) \o RestoreComplete(w)
  <2>1. PiecesOf(v) \in Rows(STRING) /\ PiecesOf(w) \in Rows(STRING)
    BY <1>2, <1>3, RestoreIsPieces
  <2>2. FlattenSeq(PiecesOf(v) \o PiecesOf(w)) = FlattenSeq(PiecesOf(v)) \o FlattenSeq(PiecesOf(w))
    BY <2>1, FlattenConcat
  <2> QED
    BY <1>1, <1>2, <1>3, <1>7, <2>2, RestoreIsPieces
<1> QED
  BY <1>8 DEF u, v, w
--------------------------------------------------------------------------------
(* SseStream: what is held cuts no token                                      *)

\* The characters around a body are in none.
LEMMA OutsideBody == "[" \notin Body /\ "]" \notin Body /\ NewLine \notin Body
  BY SseAssumption, Zenon

\* Without a mapping every text stays what it is.
LEMMA NothingRestored ==
    ASSUME NEW s \in Seq(STRING), DOMAIN Mapping = {}
    PROVE  RestoreComplete(s) = s
<1> DEFINE q == PiecesOf(s)
           Fore(m) == SubSeq(q, 1, m)
           Same(m) == FlattenSeq(Fore(m)) = SubSeq(s, 1, m)
           G == {m \in Nat : m <= Len(s) => Same(m)}
<1>1. q \in Rows(STRING) /\ Len(q) = Len(s) /\ RestoreComplete(s) = FlattenSeq(q) /\ Len(s) \in Nat
  BY RestoreIsPieces
<1>2. \A i \in 1..Len(s) : q[i] = <<s[i]>>
  <2>1. \A i \in 1..Len(s) : Piece(s, i) = <<s[i]>>
    BY DEF Piece, Known
  <2> QED
    BY <2>1 DEF PiecesOf
<1> HIDE DEF q
<1>3. 0 \in G
  <2>1. Fore(0) = <<>> /\ FlattenSeq(<<>>) = <<>> /\ SubSeq(s, 1, 0) = <<>>
    BY <1>1, RowsWhole DEF FlattenSeq
  <2>2. Same(0)
    <3> HIDE DEF Fore
    <3> QED
      BY <2>1
  <2> HIDE DEF Same
  <2> QED
    BY <2>2
<1>4. ASSUME NEW k \in 0..Len(s) - 1, k \in G PROVE k + 1 \in G
  <2>1. k \in Nat /\ k <= Len(s) /\ k + 1 \in 1..Len(s) /\ k \in 0..Len(q) - 1
    BY <1>1
  <2>2. Same(k)
    <3> HIDE DEF Same
    <3> QED
      BY <1>4, <2>1
  <2>3. /\ Fore(k) \in Rows(STRING) /\ q[k + 1] \in Seq(STRING)
        /\ Fore(k + 1) = Append(Fore(k), q[k + 1])
    BY <1>1, <2>1, RowsPrefix
  <2> HIDE DEF Fore
  <2>4. FlattenSeq(Fore(k + 1)) = FlattenSeq(Fore(k)) \o q[k + 1]
    BY <2>3, FlattenAppend
  <2>5. SubSeq(s, 1, k + 1) = SubSeq(s, 1, k) \o <<s[k + 1]>>
    BY <2>1
  <2>6. Same(k + 1)
    BY <1>2, <2>1, <2>2, <2>4, <2>5
  <2> HIDE DEF Same
  <2> QED
    BY <2>1, <2>6
<1>5. Len(s) \in G
  <2> HIDE DEF G
  <2> QED
    BY <1>1, <1>3, <1>4, Induction
<1>6. Same(Len(s))
  <2> HIDE DEF Same
  <2> QED
    BY <1>1, <1>5
<1>7. SubSeq(s, 1, Len(s)) = s
  OBVIOUS
<1> QED
  BY <1>1, <1>6, <1>7, RowsWhole

\* Two openings cannot both run to the end: the later bracket is no character of a body.
LEMMA OneOpening ==
    ASSUME NEW v \in Seq(STRING), NEW i \in 1..Len(v), NEW j \in 1..Len(v),
           OpenAt(v, i), OpenAt(v, j)
    PROVE  i = j
<1>1. ASSUME NEW x \in 1..Len(v), NEW y \in 1..Len(v), OpenAt(v, x), OpenAt(v, y), x < y
      PROVE  FALSE
  <2>1. v[y] = "[" /\ v[x] = "["
    BY <1>1 DEF OpenAt
  <2>2. CASE y = x + 1
    <3>0. x < Len(v)
      BY <1>1, <2>2
    <3>1. v[x + 1] = "_"
      BY <1>1, <3>0 DEF OpenAt
    <3> QED
      BY <2>1, <2>2, <3>1
  <2>3. CASE y # x + 1
    <3>1. y \in x + 2..Len(v)
      BY <1>1, <2>3
    <3>2. v[y] \in Body
      BY <1>1, <3>1 DEF OpenAt
    <3> QED
      BY <2>1, <3>2, OutsideBody
  <2> QED
    BY <2>2, <2>3
<1> QED
  BY <1>1

\* Shown leaves out a newline at the end, and nothing else.
LEMMA ShownIs ==
    ASSUME NEW s \in Seq(STRING)
    PROVE  \/ /\ s # <<>> /\ Len(s) >= 1 /\ s[Len(s)] = NewLine /\ Len(Shown(s)) = Len(s) - 1
              /\ Shown(s) \in Seq(STRING) /\ \A k \in 1..Len(s) - 1 : Shown(s)[k] = s[k]
           \/ Shown(s) = s /\ (s = <<>> \/ s[Len(s)] # NewLine)
<1>1. CASE s # <<>> /\ s[Len(s)] = NewLine
  <2>1. Shown(s) = SubSeq(s, 1, Len(s) - 1)
    BY <1>1 DEF Shown, Last, Front
  <2>2. Len(s) \in Nat /\ Len(s) >= 1
    BY <1>1
  <2> DEFINE v == SubSeq(s, 1, Len(s) - 1)
  <2>3. Windowed(v, s, 0) /\ Len(v) = Len(s) - 1
    <3>1. /\ 0 \in Nat /\ Len(s) - 1 \in Nat /\ 0 <= Len(s) - 1 /\ Len(s) - 1 <= Len(s)
          /\ 0 + 1 = 1 /\ (Len(s) - 1) - 0 = Len(s) - 1
      BY <2>2
    <3> QED
      BY <3>1, WindowIs
  <2> HIDE DEF v
  <2>4. v \in Seq(STRING) /\ \A k \in 1..Len(s) - 1 : v[k] = s[k]
    BY <2>3 DEF Windowed
  <2> QED
    BY <1>1, <2>1, <2>2, <2>3, <2>4 DEF v
<1>2. CASE ~(s # <<>> /\ s[Len(s)] = NewLine)
  <2>1. Shown(s) = s
    BY <1>2 DEF Shown, Last
  <2> QED
    BY <1>2, <2>1
<1> QED
  BY <1>1, <1>2

\* What is held begins at an opening and goes up to the end of what is shown.
LEMMA HeldIs ==
    ASSUME NEW s \in Seq(STRING)
    PROVE  \/ Held(s) = 0 /\ \A i \in 1..Len(Shown(s)) : ~OpenAt(Shown(s), i)
           \/ \E i \in 1..Len(Shown(s)) : OpenAt(Shown(s), i) /\ Held(s) = Len(Shown(s)) - i + 1
<1> DEFINE v == Shown(s)
           openings == {i \in DOMAIN v : OpenAt(v, i)}
           first == CHOOSE i \in openings : TRUE
<1>1. v \in Seq(STRING)
  BY ShownIs
<1>2. CASE openings = {}
  BY <1>1, <1>2 DEF Held
<1>3. CASE openings # {}
  <2>1. first \in openings
    BY <1>3
  <2>2. Held(s) = Len(v) - first + 1
    BY <1>3 DEF Held
  <2>3. DOMAIN v = 1..Len(v)
    BY <1>1
  <2> HIDE DEF v
  <2>4. first \in 1..Len(v) /\ OpenAt(v, first)
    BY <2>1, <2>3
  <2> HIDE DEF first
  <2> QED
    BY <2>2, <2>4 DEF v
<1> QED
  BY <1>2, <1>3

\* The restorer holds at most an opening with a whole body.
LEMMA HeldBounded ==
    ASSUME NEW s \in Seq(STRING)
    PROVE  Held(s) \in 0..Len(s) /\ Held(s) <= BodyLen + 2
<1> DEFINE v == Shown(s)
<1>1. v \in Seq(STRING) /\ Len(v) \in Nat /\ Len(v) <= Len(s) /\ Len(s) \in Nat
  BY ShownIs
<1> HIDE DEF v
<1>2. CASE Held(s) = 0
  BY <1>1, <1>2, Width
<1>3. ASSUME NEW i \in 1..Len(v), OpenAt(v, i), Held(s) = Len(v) - i + 1
      PROVE  Held(s) \in 0..Len(s) /\ Held(s) <= BodyLen + 2
  <2>1. Len(v) <= i + BodyLen + 1
    BY <1>3 DEF OpenAt
  <2> QED
    BY <1>1, <1>3, <2>1, Width
<1> QED
  BY <1>2, <1>3, HeldIs DEF v

\* The characters of a token.
LEMMA TokenText ==
    ASSUME NEW t \in Seq(STRING), NEW i \in 1..Len(t), TokenAt(t, i)
    PROVE  /\ i + BodyLen + 2 <= Len(t)
           /\ \A k \in i..i + BodyLen + 2 : t[k] # NewLine
           /\ \A k \in i + 1..i + BodyLen + 2 : t[k] # "["
<1> DEFINE B == BodyLen
<1>0. B \in Nat /\ i \in Nat
  BY Width
<1>1. /\ i + B + 2 <= Len(t) /\ t[i] = "[" /\ t[i + 1] = "_" /\ t[i + B + 2] = "]"
      /\ \A k \in i + 2..i + B + 1 : t[k] \in Body
  BY DEF TokenAt
<1> HIDE DEF B
<1>2. ASSUME NEW k \in i..i + B + 2
      PROVE  t[k] # NewLine /\ (k # i => t[k] # "[")
  <2>1. k = i \/ k = i + 1 \/ k = i + B + 2 \/ k \in i + 2..i + B + 1
    BY <1>0
  <2>2. CASE k \in i + 2..i + B + 1
    BY <1>1, <2>2, OutsideBody
  <2>3. CASE k = i \/ k = i + 1 \/ k = i + B + 2
    BY <1>1, <2>3 DEF NewLine
  <2> QED
    BY <2>1, <2>2, <2>3
<1>3. ASSUME NEW k \in i + 1..i + B + 2 PROVE t[k] # "["
  <2>1. k \in i..i + B + 2 /\ k # i
    BY <1>0 DEF B
  <2> QED
    BY <1>2, <2>1
<1> QED
  BY <1>1, <1>2, <1>3 DEF B

\* What is emitted ends where no token is on both sides, wherever the text goes on.
LEMMA StaysClean ==
    ASSUME NEW t \in Seq(STRING), NEW d \in Nat, NEW e \in Nat, d <= e, e <= Len(t), Clean(t, d)
    PROVE  Clean(t, e - Held(SubSeq(t, d + 1, e)))
<1> DEFINE s == SubSeq(t, d + 1, e)
           v == Shown(s)
           n == e - d
           c == e - Held(s)
           B == BodyLen
<1>0. B \in Nat /\ B >= 1 /\ n \in Nat /\ Len(t) \in Nat
  BY Width
<1>1. s \in Seq(STRING) /\ Len(s) = n /\ \A k \in 1..n : s[k] = t[d + k]
  <2>1. Windowed(s, t, d) /\ Len(s) = n
    BY WindowIs
  <2> QED
    BY <2>1 DEF Windowed
<1> HIDE DEF s
<1>2. Held(s) \in 0..n
  BY <1>1, HeldBounded
<1>3. SUFFICES ASSUME NEW i \in 1..c, Known(t, i), ~(i + B + 2 <= c) PROVE FALSE
  BY DEF Clean, Known, B, c, s
<1>4. /\ i \in 1..Len(t) /\ i <= e /\ i \in Nat /\ c \in Nat
  BY <1>0, <1>2
<1>5. /\ \A k \in i..i + B + 2 : t[k] # NewLine
      /\ \A k \in i + 1..i + B + 2 : t[k] # "["
      /\ t[i] = "[" /\ t[i + 1] = "_" /\ \A k \in i + 2..i + B + 1 : t[k] \in Body
  BY <1>3, <1>4, TokenText DEF TokenAt, Known
<1>6. i > d
  <2>1. SUFFICES ASSUME ~(i > d) PROVE FALSE
    OBVIOUS
  <2>2. i \in 1..d
    BY <1>4, <2>1
  <2>3. i + B + 2 <= d
    BY <1>3, <2>2 DEF Clean
  <2>4. d <= c \/ c < d
    BY <1>4
  <2>5. d <= c
    BY <1>0, <1>2
  <2> QED
    BY <1>0, <1>3, <1>4, <2>3, <2>5
<1> HIDE DEF v, c, B, n
<1>c. c = e - Held(s) /\ n = e - d
  BY DEF c, n
<1>7. CASE /\ s # <<>> /\ Len(s) >= 1 /\ s[Len(s)] = NewLine /\ Len(v) = Len(s) - 1
           /\ v \in Seq(STRING) /\ \A k \in 1..Len(s) - 1 : v[k] = s[k]
  <2>1. t[e] = NewLine
    <3>1. n \in 1..n /\ d + n = e
      BY <1>0, <1>1, <1>7, <1>c
    <3> QED
      BY <1>1, <1>7, <3>1
  <2>2. i + B + 2 < e
    <3>1. ~(e \in i..i + B + 2)
      BY <1>5, <2>1
    <3> QED
      BY <1>0, <1>4, <3>1
  <2>3. CASE Held(s) = 0
    BY <1>0, <1>3, <1>4, <1>c, <2>2, <2>3
  <2>4. ASSUME NEW o \in 1..Len(v), OpenAt(v, o), Held(s) = Len(v) - o + 1 PROVE FALSE
    <3>1. o \in 1..n - 1 /\ c = d + o /\ Len(v) = n - 1
      BY <1>0, <1>1, <1>7, <1>c, <2>4
    <3>2. v[o] = "[" /\ Len(v) <= o + B + 1
      BY <2>4 DEF OpenAt, B
    <3>3. t[c] = "["
      <4>1. o \in 1..n
        BY <1>0, <3>1
      <4> QED
        BY <1>1, <1>7, <3>1, <3>2, <4>1
    <3>4. ~(c \in i + 1..i + B + 2)
      BY <1>5, <3>3
    <3>5. c = i
      BY <1>0, <1>3, <1>4, <3>4
    <3> QED
      BY <1>0, <1>4, <1>c, <2>2, <3>1, <3>2, <3>5
  <2> QED
    BY <1>1, <2>3, <2>4, HeldIs DEF v
<1>8. CASE v = s /\ (s = <<>> \/ s[Len(s)] # NewLine)
  <2>3. CASE Held(s) = 0 /\ \A j \in 1..Len(v) : ~OpenAt(v, j)
    <3> DEFINE x == i - d
    <3>1. x \in 1..n /\ d + x = i /\ n <= x + B + 1 /\ c = e
      BY <1>0, <1>3, <1>4, <1>6, <1>c, <2>3
    <3>2. s[x] = "["
      BY <1>1, <1>5, <3>1
    <3>3. x < n => s[x + 1] = "_"
      <4>1. x < n => x + 1 \in 1..n /\ d + (x + 1) = i + 1
        BY <1>0, <3>1
      <4> QED
        BY <1>1, <1>5, <4>1
    <3>4. ASSUME NEW k \in x + 2..n PROVE s[k] \in Body
      <4>1. k \in 1..n /\ d + k \in i + 2..i + B + 1
        BY <1>0, <1>4, <3>1
      <4> QED
        BY <1>1, <1>5, <4>1
    <3> HIDE DEF x
    <3>5. OpenAt(s, x)
      BY <1>1, <3>1, <3>2, <3>3, <3>4 DEF OpenAt, B
    <3> QED
      BY <1>1, <1>8, <2>3, <3>1, <3>5
  <2>4. ASSUME NEW o \in 1..Len(v), OpenAt(v, o), Held(s) = Len(v) - o + 1 PROVE FALSE
    <3>1. o \in 1..n /\ c + 1 = d + o
      BY <1>0, <1>1, <1>8, <1>c, <2>4
    <3>2. t[c + 1] = "["
      BY <1>1, <1>8, <2>4, <3>1 DEF OpenAt
    <3>3. c + 1 \in i + 1..i + B + 2
      BY <1>0, <1>3, <1>4
    <3> QED
      BY <1>5, <3>2, <3>3
  <2> QED
    BY <1>1, <2>3, <2>4, HeldIs DEF v
<1> QED
  BY <1>1, <1>7, <1>8, ShownIs DEF v
--------------------------------------------------------------------------------
(* SseStream: the raw text without its CRs                                    *)

\* A sequence has what the empty one has and every longer one keeps.
LEMMA Growing ==
    ASSUME NEW S, NEW s \in Seq(S), NEW G, <<>> \in G,
           \A p \in Seq(S), x \in S : p \in G => Append(p, x) \in G
    PROVE  s \in G
<1> DEFINE H == {m \in Nat : m <= Len(s) => SubSeq(s, 1, m) \in G}
<1>0. Len(s) \in Nat /\ SubSeq(s, 1, 0) = <<>> /\ SubSeq(s, 1, Len(s)) = s
  OBVIOUS
<1>1. 0 \in H
  BY <1>0
<1>2. ASSUME NEW k \in 0..Len(s) - 1, k \in H PROVE k + 1 \in H
  <2>1. /\ SubSeq(s, 1, k) \in Seq(S) /\ s[k + 1] \in S
        /\ SubSeq(s, 1, k + 1) = Append(SubSeq(s, 1, k), s[k + 1])
    OBVIOUS
  <2>2. SubSeq(s, 1, k) \in G
    BY <1>0, <1>2
  <2>3. SubSeq(s, 1, k + 1) \in G
    BY <2>1, <2>2
  <2> QED
    BY <2>3
<1>3. Len(s) \in H
  <2> HIDE DEF H
  <2> QED
    BY <1>0, <1>1, <1>2, Induction
<1>4. SubSeq(s, 1, Len(s)) \in G
  BY <1>0, <1>3
<1> QED
  BY <1>0, <1>4

\* The marks without the CRs.
Kept(r) == [i \in DOMAIN r |-> IF r[i] = CR THEN <<>> ELSE <<r[i]>>]
\* The raw text without its CRs.
Without(r) == FlattenSeq(Kept(r))

\* A row of one sequence is flattened to it.
LEMMA FlattenOne ==
    ASSUME NEW S, NEW x \in Seq(S)
    PROVE  FlattenSeq(<<x>>) = x
<1>1. <<>> \in Rows(S) /\ FlattenSeq(<<>>) = <<>> /\ Append(<<>>, x) = <<x>> /\ <<>> \o x = x
  <2> DEFINE T == Seq(S)
  <2>1. x \in T
    OBVIOUS
  <2>2. <<>> \o x = x
    OBVIOUS
  <2>3. FlattenSeq(<<>>) = <<>>
    BY DEF FlattenSeq
  <2> HIDE DEF T
  <2>4. <<>> \in Seq(T) /\ Append(<<>>, x) = <<x>>
    BY <2>1
  <2> QED
    BY <2>2, <2>3, <2>4 DEF T, Rows
<1> QED
  BY <1>1, FlattenAppend

\* The pieces of the raw text without its CRs.
LEMMA KeptIs ==
    ASSUME NEW r \in Seq(Int)
    PROVE  Kept(r) \in Rows(Int) /\ Len(Kept(r)) = Len(r) /\ Without(r) \in Seq(Int)
<1> DEFINE T == Seq(Int)
           p == Kept(r)
<1>1. Len(r) \in Nat /\ DOMAIN r = 1..Len(r)
  OBVIOUS
<1>2. ASSUME NEW i \in 1..Len(r) PROVE (IF r[i] = CR THEN <<>> ELSE <<r[i]>>) \in T
  <2>1. r[i] \in Int
    OBVIOUS
  <2> QED
    BY <2>1
<1> HIDE DEF T
<1>3. p \in [1..Len(r) -> T]
  BY <1>1, <1>2 DEF Kept
<1> HIDE DEF p
<1>4. p \in Seq(T) /\ Len(p) = Len(r)
  BY <1>1, <1>3
<1>5. Kept(r) \in Rows(Int) /\ Len(Kept(r)) = Len(r)
  BY <1>4 DEF p, T, Rows
<1> QED
  BY <1>5, FlattenTyped DEF Without

\* CRs are left out piece by piece, however the raw text is cut.
LEMMA WithoutConcat ==
    ASSUME NEW a \in Seq(Int), NEW b \in Seq(Int)
    PROVE  Without(a \o b) = Without(a) \o Without(b)
<1> DEFINE T == Seq(Int)
           c == a \o b
           p == Kept(a)
           q == Kept(b)
           r == Kept(c)
<1>1. /\ c \in Seq(Int) /\ Len(c) = Len(a) + Len(b) /\ Len(a) \in Nat /\ Len(b) \in Nat
      /\ \A i \in 1..Len(a) : c[i] = a[i]
      /\ \A i \in 1..Len(b) : c[Len(a) + i] = b[i]
  OBVIOUS
<1> HIDE DEF c
<1>2. /\ p \in Seq(T) /\ Len(p) = Len(a) /\ q \in Seq(T) /\ Len(q) = Len(b)
      /\ r \in Seq(T) /\ Len(r) = Len(c)
  BY <1>1, KeptIs DEF Rows
<1>3. \A i \in 1..Len(a) : r[i] = p[i]
  BY <1>1 DEF Kept
<1>4. \A i \in 1..Len(b) : r[Len(a) + i] = q[i]
  <2> SUFFICES ASSUME NEW i \in 1..Len(b) PROVE r[Len(a) + i] = q[i]
    OBVIOUS
  <2>1. Len(a) + i \in 1..Len(c) /\ c[Len(a) + i] = b[i]
    BY <1>1
  <2>2. Len(a) + i \in DOMAIN c /\ i \in DOMAIN b
    BY <1>1, <2>1
  <2> QED
    BY <2>1, <2>2 DEF Kept
<1>5. r = p \o q
  <2> HIDE DEF T, p, q, r
  <2>1. p \o q \in Seq(T) /\ Len(p \o q) = Len(r)
    <3>1. p \o q \in Seq(T) /\ Len(p \o q) = Len(p) + Len(q)
      BY <1>2, ConcatProperties
    <3> QED
      BY <1>1, <1>2, <3>1
  <2>0. \A i \in 1..Len(p) + Len(q) : (p \o q)[i] = IF i <= Len(p) THEN p[i] ELSE q[i - Len(p)]
    BY <1>2, ConcatProperties
  <2>2. ASSUME NEW i \in 1..Len(r) PROVE r[i] = (p \o q)[i]
    <3>1. CASE i <= Len(a)
      BY <1>1, <1>2, <1>3, <2>0, <3>1
    <3>2. CASE ~(i <= Len(a))
      <4>1. i - Len(a) \in 1..Len(b) /\ Len(a) + (i - Len(a)) = i
        BY <1>1, <1>2, <3>2
      <4>2. (p \o q)[i] = q[i - Len(a)]
        BY <1>1, <1>2, <2>0, <3>2
      <4> QED
        BY <1>4, <4>1, <4>2
    <3> QED
      BY <3>1, <3>2
  <2> QED
    BY <1>2, <2>1, <2>2, SeqEqual
<1>6. FlattenSeq(p \o q) = FlattenSeq(p) \o FlattenSeq(q)
  <2>1. p \in Rows(Int) /\ q \in Rows(Int)
    BY KeptIs
  <2> HIDE DEF p, q
  <2> QED
    BY <2>1, FlattenConcat
<1> QED
  BY <1>5, <1>6 DEF Without, c

\* One mark, and none.
LEMMA WithoutOne ==
    ASSUME NEW x \in Int
    PROVE  Without(<<x>>) = (IF x = CR THEN <<>> ELSE <<x>>) /\ Without(<<>>) = <<>>
<1> DEFINE y == IF x = CR THEN <<>> ELSE <<x>>
<1>1. y \in Seq(Int)
  OBVIOUS
<1>2. Kept(<<x>>) = <<y>>
  BY DEF Kept
<1>3. Kept(<<>>) = <<>>
  BY DEF Kept
<1>4. FlattenSeq(<<>>) = <<>>
  BY DEF FlattenSeq
<1> HIDE DEF y
<1>5. Without(<<x>>) = y
  BY <1>1, <1>2, FlattenOne DEF Without
<1> QED
  BY <1>3, <1>4, <1>5 DEF y, Without

\* One mark more.
LEMMA WithoutAppend ==
    ASSUME NEW r \in Seq(Int), NEW x \in Int
    PROVE  Without(Append(r, x)) = IF x = CR THEN Without(r) ELSE Append(Without(r), x)
<1>1. Append(r, x) = r \o <<x>> /\ <<x>> \in Seq(Int)
  OBVIOUS
<1>2. Without(Append(r, x)) = Without(r) \o Without(<<x>>)
  BY <1>1, WithoutConcat
<1>3. Without(r) \in Seq(Int)
  BY KeptIs
<1>4. Without(r) \o <<>> = Without(r) /\ Without(r) \o <<x>> = Append(Without(r), x)
  BY <1>3
<1> QED
  BY <1>2, <1>4, WithoutOne

\* A text that has no CR stays as it is.
LEMMA WithoutNone ==
    ASSUME NEW r \in Seq(Int), \A i \in 1..Len(r) : r[i] # CR
    PROVE  Without(r) = r
<1> DEFINE G == {p \in Seq(Int) : (\A i \in 1..Len(p) : p[i] # CR) => Without(p) = p}
<1>1. <<>> \in G
  <2>1. Without(<<>>) = <<>>
    <3>1. 0 \in Int
      OBVIOUS
    <3> QED
      BY <3>1, WithoutOne
  <2> QED
    BY <2>1
<1>2. ASSUME NEW p \in Seq(Int), NEW x \in Int, p \in G PROVE Append(p, x) \in G
  <2>0. Append(p, x) \in Seq(Int)
    OBVIOUS
  <2>1. SUFFICES ASSUME \A i \in 1..Len(Append(p, x)) : Append(p, x)[i] # CR
                 PROVE  Without(Append(p, x)) = Append(p, x)
    BY <2>0
  <2>2. /\ \A i \in 1..Len(p) : p[i] = Append(p, x)[i] /\ i \in 1..Len(Append(p, x))
        /\ Len(Append(p, x)) \in 1..Len(Append(p, x)) /\ Append(p, x)[Len(Append(p, x))] = x
    OBVIOUS
  <2>3. x # CR /\ \A i \in 1..Len(p) : p[i] # CR
    BY <2>1, <2>2
  <2> QED
    BY <1>2, <2>3, WithoutAppend
<1>3. r \in G
  <2> HIDE DEF G
  <2> QED
    BY <1>1, <1>2, Growing
<1> QED
  BY <1>3

\* What Normalize leaves of each mark.
Trimmed(r) == [i \in DOMAIN r |->
                  IF r[i] = CR /\ i < Len(r) /\ r[i + 1] = LF THEN <<>> ELSE <<r[i]>>]

\* Normalize joins the trimmed marks.
LEMMA NormalizeIs ==
    ASSUME NEW r \in Seq(Int)
    PROVE  /\ Normalize(r) = FlattenSeq(Trimmed(r)) /\ Normalize(r) \in Seq(Int)
           /\ Trimmed(r) \in Rows(Int) /\ Len(Trimmed(r)) = Len(r)
           /\ \A i \in 1..Len(r) : Trimmed(r)[i] =
                 IF r[i] = CR /\ i < Len(r) /\ r[i + 1] = LF THEN <<>> ELSE <<r[i]>>
<1> DEFINE T == Seq(Int)
           p == Trimmed(r)
           It(i) == IF r[i] = CR /\ i < Len(r) /\ r[i + 1] = LF THEN <<>> ELSE <<r[i]>>
<1>1. Len(r) \in Nat /\ DOMAIN r = 1..Len(r)
  OBVIOUS
<1>2. ASSUME NEW i \in 1..Len(r) PROVE It(i) \in T
  <2>1. r[i] \in Int
    OBVIOUS
  <2> QED
    BY <2>1
<1> HIDE DEF T
<1>3. p \in [1..Len(r) -> T]
  BY <1>1, <1>2 DEF Trimmed
<1>3a. \A i \in 1..Len(r) : p[i] = It(i)
  BY <1>1 DEF Trimmed
<1> HIDE DEF p, It
<1>4. p \in Seq(T) /\ Len(p) = Len(r)
  BY <1>1, <1>3
<1>5. Trimmed(r) \in Rows(Int) /\ Len(Trimmed(r)) = Len(r)
  BY <1>4 DEF p, T, Rows
<1>6. Normalize(r) = FlattenSeq(Trimmed(r))
  BY DEF Normalize, Trimmed
<1> QED
  BY <1>3a, <1>5, <1>6, FlattenTyped DEF p, It

\* Normalize takes away nothing but CRs.
LEMMA NormalizeKeeps ==
    ASSUME NEW r \in Seq(Int)
    PROVE  Without(Normalize(r)) = Without(r)
<1> DEFINE q == Trimmed(r)
           Fore(m) == SubSeq(q, 1, m)
           Lead(m) == SubSeq(r, 1, m)
           Same(m) == Without(FlattenSeq(Fore(m))) = Without(Lead(m))
           G == {m \in Nat : m <= Len(r) => Same(m)}
<1>1. /\ q \in Rows(Int) /\ Len(q) = Len(r) /\ Len(r) \in Nat /\ Normalize(r) = FlattenSeq(q)
      /\ \A i \in 1..Len(r) : q[i] = <<r[i]>> \/ (r[i] = CR /\ q[i] = <<>>)
  <2>1. \A i \in 1..Len(r) : q[i] =
            IF r[i] = CR /\ i < Len(r) /\ r[i + 1] = LF THEN <<>> ELSE <<r[i]>>
    BY NormalizeIs, Zenon
  <2>2. Len(r) \in Nat /\ Len(q) = Len(r) /\ q \in Rows(Int) /\ Normalize(r) = FlattenSeq(q)
    BY NormalizeIs
  <2> HIDE DEF q
  <2>3. \A i \in 1..Len(r) : q[i] = <<r[i]>> \/ (r[i] = CR /\ q[i] = <<>>)
    <3> SUFFICES ASSUME NEW i \in 1..Len(r)
                 PROVE  q[i] = <<r[i]>> \/ (r[i] = CR /\ q[i] = <<>>)
      OBVIOUS
    <3> DEFINE Dropped == r[i] = CR /\ i < Len(r) /\ r[i + 1] = LF
    <3>1. q[i] = IF Dropped THEN <<>> ELSE <<r[i]>>
      BY <2>1, Zenon
    <3>2. Dropped => r[i] = CR
      OBVIOUS
    <3> HIDE DEF Dropped
    <3>3. CASE Dropped
      BY <3>1, <3>2, <3>3
    <3>4. CASE ~Dropped
      <4>1. q[i] = <<r[i]>>
        BY <3>1, <3>4
      <4> QED
        BY <4>1, Zenon
    <3> QED
      BY <3>3, <3>4
  <2> QED
    BY <2>2, <2>3
<1> HIDE DEF q
<1>2. 0 \in G
  <2>1. Fore(0) = <<>> /\ Lead(0) = <<>> /\ FlattenSeq(<<>>) = <<>>
    BY <1>1, RowsWhole DEF FlattenSeq
  <2>2. Same(0)
    <3> HIDE DEF Fore, Lead
    <3> QED
      BY <2>1
  <2> HIDE DEF Same
  <2> QED
    BY <2>2
<1>3. ASSUME NEW k \in 0..Len(r) - 1, k \in G PROVE k + 1 \in G
  <2>1. k \in Nat /\ k <= Len(r) /\ k + 1 \in 1..Len(r) /\ k \in 0..Len(q) - 1
    BY <1>1
  <2>2. Same(k)
    <3> HIDE DEF Same
    <3> QED
      BY <1>3, <2>1
  <2>3. /\ Fore(k) \in Rows(Int) /\ q[k + 1] \in Seq(Int)
        /\ Fore(k + 1) = Append(Fore(k), q[k + 1])
    BY <1>1, <2>1, RowsPrefix
  <2>4. /\ Lead(k) \in Seq(Int) /\ r[k + 1] \in Int
        /\ Lead(k + 1) = Append(Lead(k), r[k + 1])
    BY <2>1
  <2> DEFINE f == FlattenSeq(Fore(k))
             x == r[k + 1]
  <2> HIDE DEF Fore, Lead
  <2>5. FlattenSeq(Fore(k + 1)) = f \o q[k + 1] /\ f \in Seq(Int)
    BY <2>3, FlattenAppend, FlattenTyped
  <2>6. Without(f) = Without(Lead(k))
    BY <2>2
  <2> HIDE DEF f
  <2>7. Without(Lead(k + 1)) = IF x = CR THEN Without(Lead(k)) ELSE Append(Without(Lead(k)), x)
    BY <2>4, WithoutAppend
  <2>8. CASE q[k + 1] = <<x>>
    <3>1. f \o q[k + 1] = Append(f, x) /\ x \in Int
      BY <2>4, <2>5, <2>8
    <3>2. Without(f \o q[k + 1]) = IF x = CR THEN Without(f) ELSE Append(Without(f), x)
      BY <2>5, <3>1, WithoutAppend
    <3>3. Same(k + 1)
      BY <2>5, <2>6, <2>7, <3>2
    <3> HIDE DEF Same
    <3> QED
      BY <2>1, <3>3
  <2>9. CASE x = CR /\ q[k + 1] = <<>>
    <3>1. f \o q[k + 1] = f
      BY <2>5, <2>9
    <3>2. Same(k + 1)
      BY <2>5, <2>6, <2>7, <2>9, <3>1
    <3> HIDE DEF Same
    <3> QED
      BY <2>1, <3>2
  <2> QED
    BY <1>1, <2>1, <2>8, <2>9
<1>4. Len(r) \in G
  <2> HIDE DEF G
  <2> QED
    BY <1>1, <1>2, <1>3, Induction
<1>5. Same(Len(r))
  <2> HIDE DEF Same
  <2> QED
    BY <1>1, <1>4
<1>6. SubSeq(r, 1, Len(r)) = r
  OBVIOUS
<1> QED
  BY <1>1, <1>5, <1>6, RowsWhole

\* A CR is followed by an LF, but for the last mark of what was cut off.
LineEnds(r) == \A i \in 1..Len(r) - 1 : r[i] = CR => r[i + 1] = LF

\* Of such a sequence Normalize leaves no CR but the last mark, and its two ends.
LEMMA NormalizeEnds ==
    ASSUME NEW r \in Seq(Int), r # <<>>, LineEnds(r)
    PROVE  /\ Normalize(r) \in Seq(Int) /\ Len(Normalize(r)) >= 1
           /\ Normalize(r)[Len(Normalize(r))] = r[Len(r)]
           /\ \A i \in 1..Len(Normalize(r)) - 1 : Normalize(r)[i] # CR
           /\ r[1] # CR => Normalize(r)[1] = r[1]
<1> DEFINE q == Trimmed(r)
           Fore(m) == SubSeq(q, 1, m)
           l == Len(r) - 1
           Fine(f, m) == /\ f \in Seq(Int) /\ \A i \in 1..Len(f) : f[i] # CR
                         /\ m >= 1 /\ r[1] # CR => Len(f) >= 1 /\ f[1] = r[1]
           G == {m \in Nat : m <= l => Fine(FlattenSeq(Fore(m)), m)}
<1>1. /\ q \in Rows(Int) /\ Len(q) = Len(r) /\ Len(r) \in Nat /\ Normalize(r) = FlattenSeq(q)
      /\ \A i \in 1..Len(r) : q[i] =
            IF r[i] = CR /\ i < Len(r) /\ r[i + 1] = LF THEN <<>> ELSE <<r[i]>>
  BY NormalizeIs
<1>2. l \in Nat /\ Len(r) >= 1
  OBVIOUS
<1>3. \A i \in 1..l : q[i] = IF r[i] = CR THEN <<>> ELSE <<r[i]>>
  BY <1>1, <1>2 DEF LineEnds
<1> HIDE DEF q, l
<1>l. l = Len(r) - 1
  BY DEF l
<1>4. 0 \in G
  <2>1. Fore(0) = <<>> /\ FlattenSeq(<<>>) = <<>>
    BY <1>1, RowsWhole DEF FlattenSeq
  <2>2. Fine(<<>>, 0)
    OBVIOUS
  <2> HIDE DEF Fore, Fine
  <2> QED
    BY <2>1, <2>2
<1>5. ASSUME NEW k \in 0..l - 1, k \in G PROVE k + 1 \in G
  <2>1. k \in Nat /\ k <= l /\ k + 1 \in 1..l /\ k + 1 \in 1..Len(r) /\ k \in 0..Len(q) - 1
    BY <1>1, <1>2, <1>l
  <2> DEFINE f == FlattenSeq(Fore(k))
             x == r[k + 1]
  <2>2. Fine(f, k)
    <3> HIDE DEF Fine, f
    <3> QED
      BY <1>5, <2>1 DEF f
  <2>3. /\ Fore(k) \in Rows(Int) /\ q[k + 1] \in Seq(Int)
        /\ Fore(k + 1) = Append(Fore(k), q[k + 1])
    BY <1>1, <2>1, RowsPrefix
  <2> HIDE DEF Fore
  <2>4. FlattenSeq(Fore(k + 1)) = f \o q[k + 1]
    BY <2>3, FlattenAppend
  <2> HIDE DEF f
  <2>5. x \in Int /\ (k = 0 => x = r[1])
    BY <2>1
  <2>6. CASE x = CR
    <3>0. q[k + 1] = <<>>
      BY <1>3, <2>1, <2>6
    <3>1. q[k + 1] = <<>> /\ f \o <<>> = f
      BY <2>2, <3>0
    <3>2. Fine(f, k + 1)
      BY <2>1, <2>2, <2>5, <2>6
    <3> HIDE DEF Fine
    <3> QED
      BY <2>1, <2>4, <3>1, <3>2
  <2>7. CASE x # CR
    <3>0. q[k + 1] = <<x>>
      BY <1>3, <2>1, <2>7
    <3>1. q[k + 1] = <<x>> /\ f \o <<x>> = Append(f, x)
      <4> HIDE DEF x
      <4> QED
        BY <2>2, <2>5, <3>0
    <3> DEFINE h == Append(f, x)
    <3>2. /\ h \in Seq(Int) /\ Len(h) = Len(f) + 1 /\ h[Len(f) + 1] = x /\ Len(f) \in Nat
          /\ \A i \in 1..Len(f) : h[i] = f[i]
      BY <2>2, <2>5
    <3> HIDE DEF h
    <3>3. \A i \in 1..Len(h) : h[i] # CR
      <4>1. \A i \in 1..Len(h) : i = Len(f) + 1 \/ i \in 1..Len(f)
        BY <3>2
      <4> QED
        BY <2>2, <2>7, <3>2, <4>1
    <3>4. ASSUME r[1] # CR PROVE Len(h) >= 1 /\ h[1] = r[1]
      <4>1. CASE k = 0
        <5>1. Fore(0) = <<>> /\ FlattenSeq(<<>>) = <<>> /\ Len(<<>>) = 0
          BY <1>1, RowsWhole DEF FlattenSeq, Fore
        <5>2. Len(f) = 0
          BY <4>1, <5>1 DEF f
        <5> QED
          BY <2>5, <3>2, <4>1, <5>2
      <4>2. CASE k # 0
        BY <2>1, <2>2, <3>2, <3>4, <4>2
      <4> QED
        BY <4>1, <4>2
    <3>5. Fine(h, k + 1)
      BY <3>2, <3>3, <3>4
    <3>6. FlattenSeq(Fore(k + 1)) = h
      BY <2>4, <3>1 DEF h
    <3> HIDE DEF Fine
    <3> QED
      BY <2>1, <3>5, <3>6
  <2> QED
    BY <2>6, <2>7
<1>6. l \in G
  <2> HIDE DEF G
  <2> QED
    BY <1>2, <1>4, <1>5, Induction
<1> DEFINE f == FlattenSeq(Fore(l))
           x == r[Len(r)]
           h == Append(f, x)
<1>7. Fine(f, l)
  <2> HIDE DEF Fine, f
  <2> QED
    BY <1>2, <1>6 DEF f
<1>8. FlattenSeq(q) = h
  <2>1. l \in 0..Len(q) - 1 /\ l + 1 = Len(r) /\ l + 1 \in 1..Len(r)
    BY <1>1, <1>2, <1>l
  <2>2. /\ Fore(l) \in Rows(Int) /\ q[l + 1] \in Seq(Int)
        /\ Fore(l + 1) = Append(Fore(l), q[l + 1])
    BY <1>1, <2>1, RowsPrefix
  <2>3. Fore(l + 1) = q
    <3>1. SubSeq(q, 1, Len(q)) = q /\ l + 1 = Len(q)
      BY <1>1, <2>1, RowsWhole
    <3> QED
      BY <3>1
  <2> HIDE DEF Fore
  <2>4. FlattenSeq(q) = f \o q[l + 1]
    BY <2>2, <2>3, FlattenAppend
  <2>5. q[l + 1] = <<x>>
    <3>1. ~(l + 1 < Len(r)) /\ r[l + 1] = x
      BY <1>1, <2>1
    <3> HIDE DEF x
    <3> QED
      BY <1>1, <2>1, <3>1, Zenon
  <2>6. f \o <<x>> = Append(f, x)
    <3> HIDE DEF f
    <3> QED
      BY <1>7
  <2> QED
    BY <2>4, <2>5, <2>6
<1>9. x \in Int
  BY <1>2
<1> HIDE DEF Fore, f, x
<1>10. /\ h \in Seq(Int) /\ Len(h) = Len(f) + 1 /\ h[Len(h)] = x /\ Len(f) \in Nat
       /\ \A i \in 1..Len(h) - 1 : h[i] = f[i]
  <2>1. /\ h \in Seq(Int) /\ Len(h) = Len(f) + 1 /\ h[Len(f) + 1] = x /\ Len(f) \in Nat
        /\ \A i \in 1..Len(f) : h[i] = f[i]
    BY <1>7, <1>9
  <2> HIDE DEF h
  <2> QED
    BY <2>1
<1> HIDE DEF h
<1>11. \A i \in 1..Len(h) - 1 : h[i] # CR
  <2>1. \A i \in 1..Len(h) - 1 : i \in 1..Len(f)
    BY <1>10
  <2> QED
    BY <1>7, <1>10, <2>1
<1>12. ASSUME r[1] # CR PROVE h[1] = r[1]
  <2>1. CASE l = 0
    <3>1. Fore(0) = <<>> /\ FlattenSeq(<<>>) = <<>> /\ Len(<<>>) = 0
      BY <1>1, RowsWhole DEF FlattenSeq, Fore
    <3>2. Len(f) = 0
      BY <2>1, <3>1 DEF f
    <3>3. x = r[1]
      BY <1>l, <2>1 DEF x
    <3> QED
      BY <1>10, <3>2, <3>3
  <2>2. CASE l # 0
    BY <1>2, <1>7, <1>10, <1>12, <2>2
  <2> QED
    BY <2>1, <2>2
<1>13. Len(h) >= 1
  BY <1>10
<1> QED
  BY <1>1, <1>8, <1>10, <1>11, <1>12, <1>13 DEF x

\* Without a CR at its end there is none at all.
LEMMA NormalizedBlock ==
    ASSUME NEW r \in Seq(Int), r # <<>>, LineEnds(r), r[Len(r)] # CR
    PROVE  /\ Normalize(r) \in Seq(Int) /\ \A i \in 1..Len(Normalize(r)) : Normalize(r)[i] # CR
           /\ Normalize(r) = Without(r)
<1> DEFINE n == Normalize(r)
<1>1. /\ n \in Seq(Int) /\ Len(n) >= 1 /\ n[Len(n)] # CR
      /\ \A i \in 1..Len(n) - 1 : n[i] # CR
  BY NormalizeEnds
<1> HIDE DEF n
<1>2. \A i \in 1..Len(n) : n[i] # CR
  <2>1. \A i \in 1..Len(n) : i = Len(n) \/ i \in 1..Len(n) - 1
    BY <1>1
  <2> QED
    BY <1>1, <2>1
<1>3. Without(n) = n
  BY <1>1, <1>2, WithoutNone
<1> QED
  BY <1>1, <1>2, <1>3, NormalizeKeeps DEF n
--------------------------------------------------------------------------------
(* SseStream: the events ahead of the reader                                  *)

\* v is what is ahead of a reader who has had k of n events: the events to come, each
\* with two LFs behind it, and no others; c places are behind the reader.
Ahead(v, k, n, c) ==
    /\ v \in Seq(Int) /\ c \in Int /\ n \in Nat /\ k \in 0..n
    /\ \A i \in k + 1..n : 3 * i - 2 - c \in 1..Len(v) /\ v[3 * i - 2 - c] = i
    /\ \A p \in 1..Len(v) : v[p] = LF \/ \E i \in k + 1..n : p + c = 3 * i - 2

\* A set of numbers up to n that is not empty has a least one.
LEMMA Smallest ==
    ASSUME NEW n \in Nat, NEW S, S \subseteq 0..n, S # {}
    PROVE  Min(S) \in S /\ \A x \in S : Min(S) <= x
<1> DEFINE T == {n - i : i \in S}
<1>1. T \subseteq 0..n /\ T # {}
  <2>1. PICK i \in S : TRUE
    OBVIOUS
  <2>2. n - i \in T
    BY <2>1
  <2>3. T \subseteq 0..n
    OBVIOUS
  <2> QED
    BY <2>2, <2>3
<1>2. PICK t \in T : \A u \in T : u <= t
  <2> HIDE DEF T
  <2> QED
    BY <1>1, LastOne
<1>3. PICK s \in S : t = n - s
  OBVIOUS
<1>4. \A x \in S : s <= x
  <2> SUFFICES ASSUME NEW x \in S PROVE s <= x
    OBVIOUS
  <2>1. n - x \in T
    OBVIOUS
  <2>2. n - x <= n - s /\ x \in 0..n /\ s \in 0..n
    BY <1>2, <1>3, <2>1
  <2> QED
    BY <2>2
<1> QED
  BY <1>4 DEF Min

\* What is read of blank lines only.
LEMMA SkipsBlank ==
    ASSUME NEW w \in Seq(Int), NEW r \in Seq(Int), NEW k, NEW n, NEW c,
           Ahead(w \o r, k, n, c), DataLines(w) = {}
    PROVE  Ahead(r, k, n, c + Len(w))
<1> DEFINE v == w \o r
           l == Len(w)
           m == Len(r)
<1>1. /\ l \in Nat /\ m \in Nat /\ v \in Seq(Int) /\ Len(v) = l + m
      /\ \A p \in 1..l : v[p] = w[p]
      /\ \A p \in 1..m : v[l + p] = r[p]
      /\ \A p \in 1..l : ~(w[p] > 0)
  BY DEF DataLines
<1>2. /\ c \in Int /\ n \in Nat /\ k \in 0..n
      /\ \A i \in k + 1..n : 3 * i - 2 - c \in 1..Len(v) /\ v[3 * i - 2 - c] = i
      /\ \A p \in 1..Len(v) : v[p] = LF \/ \E i \in k + 1..n : p + c = 3 * i - 2
  BY DEF Ahead
<1> HIDE DEF v, l, m
<1>3. ASSUME NEW i \in k + 1..n
      PROVE  3 * i - 2 - (c + l) \in 1..m /\ r[3 * i - 2 - (c + l)] = i
  <2> DEFINE p == 3 * i - 2 - c
  <2>1. p \in 1..l + m /\ v[p] = i /\ i \in Nat /\ i > 0
    BY <1>1, <1>2
  <2> HIDE DEF p
  <2>2. p > l
    <3>1. SUFFICES ASSUME p \in 1..l PROVE FALSE
      BY <1>1, <2>1
    <3> QED
      BY <1>1, <2>1, <3>1
  <2>3. p - l \in 1..m /\ l + (p - l) = p
    BY <1>1, <2>1, <2>2
  <2>4. 3 * i - 2 - (c + l) = p - l
    BY <1>1, <1>2 DEF p
  <2> QED
    BY <1>1, <2>1, <2>3, <2>4
<1>4. ASSUME NEW p \in 1..m
      PROVE  r[p] = LF \/ \E i \in k + 1..n : p + (c + l) = 3 * i - 2
  <2>1. l + p \in 1..Len(v) /\ v[l + p] = r[p]
    BY <1>1
  <2>2. CASE v[l + p] = LF
    BY <2>1, <2>2
  <2>3. ASSUME NEW i \in k + 1..n, (l + p) + c = 3 * i - 2
        PROVE  \E j \in k + 1..n : p + (c + l) = 3 * j - 2
    <3>1. p + (c + l) = 3 * i - 2
      BY <1>1, <1>2, <2>3
    <3> QED
      BY <3>1
  <2> QED
    BY <1>2, <2>1, <2>2, <2>3
<1>5. c + l \in Int
  BY <1>1, <1>2
<1> QED
  BY <1>2, <1>3, <1>4, <1>5 DEF Ahead, l, m

\* Where nothing but blank lines is left, every event has been read.
LEMMA AllRead ==
    ASSUME NEW w \in Seq(Int), NEW k, NEW n, NEW c, Ahead(w, k, n, c), DataLines(w) = {}
    PROVE  k = n
<1>1. SUFFICES ASSUME k # n PROVE FALSE
  OBVIOUS
<1> DEFINE p == 3 * (k + 1) - 2 - c
<1>2. k + 1 \in k + 1..n /\ k + 1 \in Nat /\ k + 1 > 0
  BY <1>1 DEF Ahead
<1>3. p \in 1..Len(w) /\ w[p] = k + 1
  BY <1>2 DEF Ahead
<1> HIDE DEF p
<1>4. p \in DataLines(w)
  BY <1>2, <1>3 DEF DataLines
<1> QED
  BY <1>4

\* A blank line at the end puts no event ahead.
LEMMA MoreBlank ==
    ASSUME NEW v, NEW k, NEW n, NEW c, Ahead(v, k, n, c)
    PROVE  Ahead(v \o <<LF, LF>>, k, n, c)
<1> DEFINE u == v \o <<LF, LF>>
<1>1. v \in Seq(Int)
  BY DEF Ahead
<1>2. /\ u \in Seq(Int) /\ Len(u) = Len(v) + 2 /\ Len(v) \in Nat
      /\ \A p \in 1..Len(v) : u[p] = v[p]
      /\ u[Len(v) + 1] = LF /\ u[Len(v) + 2] = LF
  BY <1>1 DEF LF
<1> HIDE DEF u
<1>3. ASSUME NEW p \in 1..Len(u)
      PROVE  u[p] = LF \/ \E i \in k + 1..n : p + c = 3 * i - 2
  <2>1. p = Len(v) + 1 \/ p = Len(v) + 2 \/ p \in 1..Len(v)
    BY <1>2
  <2>2. CASE p \in 1..Len(v)
    BY <1>2, <2>2 DEF Ahead
  <2> QED
    BY <1>2, <2>1, <2>2
<1>4. ASSUME NEW i \in k + 1..n
      PROVE  3 * i - 2 - c \in 1..Len(u) /\ u[3 * i - 2 - c] = i
  <2> DEFINE p == 3 * i - 2 - c
  <2>1. p \in 1..Len(v) /\ v[p] = i
    BY DEF Ahead
  <2> HIDE DEF p
  <2>2. p \in 1..Len(u) /\ u[p] = i
    BY <1>2, <2>1
  <2> QED
    BY <2>2 DEF p
<1>5. c \in Int /\ n \in Nat /\ k \in 0..n
  BY DEF Ahead
<1> QED
  BY <1>2, <1>3, <1>4, <1>5 DEF Ahead, u

\* The next event of a block ends before the one after it: two LFs are between them.
LEMMA NextEnds ==
    ASSUME NEW w \in Seq(Int), NEW r \in Seq(Int), NEW k, NEW n, NEW c,
           Ahead(w \o r, k, n, c), DataLines(w) # {}
    PROVE  /\ k < n /\ EventEnd(w) \in 1..Len(w)
           /\ {w[i] : i \in {j \in DataLines(w) : j <= EventEnd(w)}} = {k + 1}
           /\ Ahead(SubSeq(w, EventEnd(w) + 1, Len(w)) \o r, k + 1, n, c + EventEnd(w))
<1> DEFINE v == w \o r
           l == Len(w)
           a == 3 * k + 1 - c
           e == EventEnd(w)
           ends == {i \in BlankLines(w) : \E j \in DataLines(w) : j < i}
<1>1. /\ l \in Nat /\ Len(r) \in Nat /\ v \in Seq(Int) /\ Len(v) = l + Len(r)
      /\ \A p \in 1..l : v[p] = w[p]
      /\ \A p \in 1..Len(r) : v[l + p] = r[p]
      /\ DataLines(w) = {i \in 1..l : w[i] > 0}
  BY DEF DataLines
<1>2. /\ c \in Int /\ n \in Nat /\ k \in 0..n
      /\ \A i \in k + 1..n : 3 * i - 2 - c \in 1..Len(v) /\ v[3 * i - 2 - c] = i
      /\ \A p \in 1..Len(v) : v[p] = LF \/ \E i \in k + 1..n : p + c = 3 * i - 2
  BY DEF Ahead
<1> HIDE DEF v, l
<1>3. ASSUME NEW p \in 1..l
      PROVE  /\ w[p] = LF \/ \E i \in k + 1..n : p + c = 3 * i - 2 /\ w[p] = i
             /\ w[p] > 0 => p = a \/ p >= a + 3
  <2>1. p \in 1..Len(v) /\ v[p] = w[p]
    BY <1>1
  <2>2. ASSUME NEW i \in k + 1..n, p + c = 3 * i - 2
        PROVE  w[p] = i /\ (p = a \/ p >= a + 3)
    <3>1. p = 3 * i - 2 - c
      BY <1>2, <2>2
    <3>2. i = k + 1 \/ i >= k + 2
      BY <1>2
    <3> QED
      BY <1>2, <2>1, <3>1, <3>2
  <2>3. ~(LF > 0)
    BY DEF LF
  <2> QED
    BY <1>2, <2>1, <2>2, <2>3
<1>4. k < n /\ a \in 1..l /\ w[a] = k + 1 /\ a \in DataLines(w)
  <2>1. PICK p \in 1..l : w[p] > 0
    BY <1>1
  <2>2. PICK i \in k + 1..n : p + c = 3 * i - 2
    BY <1>3, <2>1 DEF LF
  <2>3. k + 1 \in k + 1..n /\ a = 3 * (k + 1) - 2 - c /\ a <= p
    BY <1>2, <2>2
  <2>4. a \in 1..Len(v) /\ v[a] = k + 1
    BY <1>2, <2>3
  <2> HIDE DEF a
  <2>5. a \in 1..l
    BY <1>1, <2>3, <2>4
  <2>6. w[a] = k + 1 /\ k + 1 > 0 /\ k < n
    BY <1>1, <1>2, <2>3, <2>4, <2>5
  <2> QED
    BY <1>1, <2>5, <2>6
<1>5. a \in Int /\ \A p \in 1..l : w[p] > 0 => p = a \/ p >= a + 3
  BY <1>2, <1>3
<1>6. \A p \in 1..l : p = a + 1 \/ p = a + 2 => w[p] = LF
  <2> SUFFICES ASSUME NEW p \in 1..l, p = a + 1 \/ p = a + 2 PROVE w[p] = LF
    OBVIOUS
  <2>1. ASSUME NEW i \in k + 1..n, p + c = 3 * i - 2 PROVE FALSE
    <3>1. i = k + 1 \/ i >= k + 2
      BY <1>2
    <3>2. p + c = 3 * k + 2 \/ p + c = 3 * k + 3
      BY <1>2
    <3> QED
      BY <1>2, <2>1, <3>1, <3>2
  <2> QED
    BY <1>3, <2>1
<1> HIDE DEF a
<1>7. e \in a..a + 2 /\ e <= l
  <2>1. \A i \in ends : i >= a + 2 /\ i \in 1..l
    <3> SUFFICES ASSUME NEW i \in ends PROVE i >= a + 2 /\ i \in 1..l
      OBVIOUS
    <3>0. PICK j \in 1..l : w[j] > 0 /\ j < i
      BY <1>1
    <3>2. i \in 2..l /\ w[i - 1] = LF /\ w[i] = LF
      BY DEF BlankLines, l
    <3> HIDE DEF ends
    <3>1. j >= a /\ i - 1 # j /\ i # j
      BY <1>5, <3>0, <3>2 DEF LF
    <3> QED
      BY <1>5, <3>0, <3>1, <3>2
  <2>2. CASE ends = {}
    <3>1. e = l
      BY <2>2 DEF EventEnd, l
    <3>2. SUFFICES ASSUME l >= a + 2 PROVE FALSE
      BY <1>1, <1>4, <1>5, <3>1
    <3>3. a + 2 \in 2..l /\ (a + 2) - 1 = a + 1 /\ a + 1 \in 1..l /\ a + 2 \in 1..l /\ a < a + 2
      BY <1>1, <1>4, <3>2
    <3>4. a + 2 \in ends
      BY <1>4, <1>6, <3>3 DEF BlankLines, l
    <3> QED
      BY <2>2, <3>4
  <2>3. CASE ends # {}
    <3>1. e = Min(ends)
      BY <2>3 DEF EventEnd
    <3>2. PICK i \in ends : TRUE
      BY <2>3
    <3>3. a + 2 \in 2..l /\ (a + 2) - 1 = a + 1 /\ a + 1 \in 1..l /\ a + 2 \in 1..l /\ a < a + 2
      <4> HIDE DEF ends
      <4> QED
        BY <1>1, <1>4, <2>1, <3>2
    <3>4. a + 2 \in ends
      BY <1>4, <1>6, <3>3 DEF BlankLines, l
    <3>5. ends \subseteq 0..l
      BY <1>1 DEF BlankLines, l
    <3>6. Min(ends) \in ends /\ Min(ends) <= a + 2
      <4> HIDE DEF ends
      <4> QED
        BY <1>1, <2>3, <3>4, <3>5, Smallest
    <3>7. e \in ends /\ e <= a + 2
      BY <3>1, <3>6
    <3> HIDE DEF e, ends
    <3> QED
      BY <1>1, <1>4, <1>5, <2>1, <3>7
  <2> QED
    BY <2>2, <2>3
<1> HIDE DEF e
<1>8. {w[i] : i \in {j \in DataLines(w) : j <= e}} = {k + 1}
  <2>1. \A j \in DataLines(w) : j <= e => j = a
    <3> SUFFICES ASSUME NEW j \in DataLines(w), j <= e PROVE j = a
      OBVIOUS
    <3>1. j \in 1..l /\ w[j] > 0
      BY <1>1
    <3> QED
      BY <1>5, <1>7, <3>1
  <2>2. a <= e
    BY <1>4, <1>7
  <2> QED
    BY <1>4, <2>1, <2>2
<1>9. Ahead(SubSeq(w, e + 1, Len(w)) \o r, k + 1, n, c + e)
  <2> DEFINE x == SubSeq(w, e + 1, Len(w))
             y == x \o r
  <2>0. e \in 1..l
    BY <1>1, <1>4, <1>7
  <2>1. x \in Seq(Int) /\ Len(x) = l - e /\ \A p \in 1..l - e : x[p] = w[e + p]
    <3>1. /\ e + 1 \in Int /\ l \in Int /\ e + 1 <= l + 1 /\ l - (e + 1) + 1 = l - e
          /\ \A i \in e + 1..l : w[i] \in Int
      <4>1. l \in Nat /\ \A i \in 1..l : w[i] \in Int
        BY <1>1 DEF l
      <4>2. e + 1 \in Int /\ l \in Int /\ e + 1 <= l + 1 /\ l - (e + 1) + 1 = l - e
        BY <2>0, <4>1
      <4>3. \A i \in e + 1..l : i \in 1..l
        BY <2>0, <4>1
      <4> HIDE DEF l
      <4> QED
        BY <4>1, <4>2, <4>3
    <3>2. /\ SubSeq(w, e + 1, l) \in Seq(Int)
          /\ Len(SubSeq(w, e + 1, l)) = IF e + 1 <= l THEN l - (e + 1) + 1 ELSE 0
          /\ \A i \in 1..l - (e + 1) + 1 : SubSeq(w, e + 1, l)[i] = w[e + 1 + i - 1]
      BY <3>1, SubSeqProperties
    <3>3. \A i \in 1..l - e : e + 1 + i - 1 = e + i
      BY <3>1, <2>0
    <3>4. e + 1 <= l \/ l - e = 0
      BY <1>1, <2>0
    <3> QED
      BY <3>1, <3>2, <3>3, <3>4 DEF l
  <2> HIDE DEF x
  <2>2. /\ y \in Seq(Int) /\ Len(y) = (l - e) + Len(r)
        /\ \A p \in 1..Len(y) : y[p] = v[e + p] /\ e + p \in 1..Len(v)
    <3>1. /\ y \in Seq(Int) /\ Len(y) = (l - e) + Len(r)
          /\ \A p \in 1..l - e : y[p] = x[p]
          /\ \A p \in 1..Len(r) : y[(l - e) + p] = r[p]
      <4>1. /\ y \in Seq(Int) /\ Len(y) = Len(x) + Len(r)
            /\ \A p \in 1..Len(x) : y[p] = x[p]
            /\ \A p \in 1..Len(r) : y[Len(x) + p] = r[p]
        <5>1. x \in Seq(Int) /\ r \in Seq(Int)
          BY <2>1
        <5> QED
          BY <5>1
      <4> HIDE DEF y
      <4> QED
        BY <2>1, <4>1
    <3> HIDE DEF y
    <3>2. ASSUME NEW p \in 1..Len(y) PROVE y[p] = v[e + p] /\ e + p \in 1..Len(v)
      <4>1. CASE p <= l - e
        <5>1. p \in 1..l - e /\ e + p \in 1..l /\ e + p \in 1..Len(v)
          BY <1>1, <2>0, <3>1, <4>1
        <5> QED
          BY <1>1, <2>1, <3>1, <5>1
      <4>2. CASE ~(p <= l - e)
        <5> DEFINE q == p - (l - e)
        <5>1. q \in 1..Len(r) /\ (l - e) + q = p /\ l + q = e + p /\ e + p \in 1..Len(v)
          BY <1>1, <2>0, <3>1, <4>2
        <5> HIDE DEF q
        <5> QED
          BY <1>1, <3>1, <5>1
      <4> QED
        BY <4>1, <4>2
    <3> QED
      BY <3>1, <3>2
  <2> HIDE DEF y
  <2>3. ASSUME NEW i \in (k + 1) + 1..n
        PROVE  3 * i - 2 - (c + e) \in 1..Len(y) /\ y[3 * i - 2 - (c + e)] = i
    <3> DEFINE p == 3 * i - 2 - c
    <3>1. i \in k + 1..n
      BY <1>2
    <3>2. p \in 1..Len(v) /\ v[p] = i
      BY <1>2, <3>1
    <3>3. p >= a + 3
      BY <1>2 DEF a
    <3>4. 3 * i - 2 - (c + e) = p - e
      BY <1>2, <2>0
    <3> HIDE DEF p
    <3>5. p - e \in 1..Len(y) /\ e + (p - e) = p
      BY <1>1, <1>5, <1>7, <2>0, <2>2, <3>2, <3>3
    <3> QED
      BY <2>2, <3>2, <3>4, <3>5
  <2>4. ASSUME NEW p \in 1..Len(y)
        PROVE  y[p] = LF \/ \E i \in (k + 1) + 1..n : p + (c + e) = 3 * i - 2
    <3>1. e + p \in 1..Len(v) /\ y[p] = v[e + p]
      BY <2>2
    <3>2. ASSUME NEW i \in k + 1..n, (e + p) + c = 3 * i - 2
          PROVE  \E j \in (k + 1) + 1..n : p + (c + e) = 3 * j - 2
      <4>1. p + (c + e) = 3 * i - 2 /\ p \in Nat /\ p >= 1
        BY <1>2, <2>0, <3>2
      <4>2. i # k + 1
        BY <1>2, <1>5, <1>7, <2>0, <4>1 DEF a
      <4>3. i \in (k + 1) + 1..n
        BY <1>2, <4>2
      <4> QED
        BY <4>1, <4>3
    <3> QED
      BY <1>2, <3>1, <3>2
  <2>5. c + e \in Int /\ k + 1 \in 0..n
    BY <1>2, <1>4, <2>0
  <2> QED
    BY <1>2, <2>2, <2>3, <2>4, <2>5 DEF Ahead, y, x
<1>10. e \in 1..l
  BY <1>1, <1>4, <1>7
<1> QED
  BY <1>4, <1>8, <1>9, <1>10 DEF e, l

\* Leaving CRs out makes nothing longer.
LEMMA WithoutShort ==
    ASSUME NEW r \in Seq(Int)
    PROVE  Len(Without(r)) <= Len(r)
<1> DEFINE G == {p \in Seq(Int) : Len(Without(p)) <= Len(p)}
<1>1. <<>> \in G
  <2>1. Without(<<>>) = <<>>
    <3>1. 0 \in Int
      OBVIOUS
    <3> QED
      BY <3>1, WithoutOne
  <2> QED
    BY <2>1
<1>2. ASSUME NEW p \in Seq(Int), NEW x \in Int, p \in G PROVE Append(p, x) \in G
  <2>1. Append(p, x) \in Seq(Int) /\ Len(Append(p, x)) = Len(p) + 1 /\ Len(p) \in Nat
    OBVIOUS
  <2> DEFINE u == Without(p)
  <2>2. u \in Seq(Int) /\ Len(u) <= Len(p)
    BY <1>2, KeptIs
  <2>3. Without(Append(p, x)) = IF x = CR THEN u ELSE Append(u, x)
    BY WithoutAppend
  <2> HIDE DEF u
  <2>4. Len(Append(u, x)) = Len(u) + 1 /\ Len(u) \in Nat
    BY <2>2
  <2>5. Len(Without(Append(p, x))) <= Len(p) + 1
    BY <2>1, <2>2, <2>3, <2>4
  <2> QED
    BY <2>1, <2>5
<1>3. r \in G
  <2> HIDE DEF G
  <2> QED
    BY <1>1, <1>2, Growing
<1> QED
  BY <1>3

\* A sequence is cut in two and put together again.
LEMMA Parts ==
    ASSUME NEW S, NEW r \in Seq(S), NEW k \in 0..Len(r)
    PROVE  /\ SubSeq(r, 1, k) \in Seq(S) /\ Len(SubSeq(r, 1, k)) = k
           /\ \A i \in 1..k : SubSeq(r, 1, k)[i] = r[i]
           /\ SubSeq(r, k + 1, Len(r)) \in Seq(S) /\ Len(SubSeq(r, k + 1, Len(r))) = Len(r) - k
           /\ \A i \in 1..Len(r) - k : SubSeq(r, k + 1, Len(r))[i] = r[k + i]
           /\ SubSeq(r, 1, k) \o SubSeq(r, k + 1, Len(r)) = r
<1> DEFINE a == SubSeq(r, 1, k)
           b == SubSeq(r, k + 1, Len(r))
           l == Len(r)
<1>0. l \in Nat /\ k \in Nat /\ k <= l /\ \A i \in 1..l : r[i] \in S
  OBVIOUS
<1>1. a \in Seq(S) /\ Len(a) = k /\ \A i \in 1..k : a[i] = r[i]
  <2>1. /\ SubSeq(r, 1, k) \in Seq(S)
        /\ Len(SubSeq(r, 1, k)) = IF 1 <= k THEN k - 1 + 1 ELSE 0
        /\ \A i \in 1..k - 1 + 1 : SubSeq(r, 1, k)[i] = r[1 + i - 1]
    <3>1. 1 \in Int /\ k \in Int /\ \A i \in 1..k : r[i] \in S
      BY <1>0
    <3> QED
      BY <3>1, SubSeqProperties
  <2>2. (1 <= k \/ k = 0) /\ \A i \in 1..k : i \in 1..k - 1 + 1 /\ 1 + i - 1 = i
    BY <1>0
  <2> HIDE DEF a
  <2> QED
    BY <1>0, <2>1, <2>2 DEF a
<1>2. b \in Seq(S) /\ Len(b) = l - k /\ \A i \in 1..l - k : b[i] = r[k + i]
  <2>1. /\ SubSeq(r, k + 1, l) \in Seq(S)
        /\ Len(SubSeq(r, k + 1, l)) = IF k + 1 <= l THEN l - (k + 1) + 1 ELSE 0
        /\ \A i \in 1..l - (k + 1) + 1 : SubSeq(r, k + 1, l)[i] = r[(k + 1) + i - 1]
    <3>1. k + 1 \in Int /\ l \in Int /\ \A i \in k + 1..l : r[i] \in S
      BY <1>0
    <3> HIDE DEF l
    <3> QED
      BY <3>1, SubSeqProperties
  <2>2. (k + 1 <= l \/ l - k = 0) /\ \A i \in 1..l - k : (k + 1) + i - 1 = k + i
    BY <1>0
  <2> HIDE DEF l
  <2> QED
    BY <1>0, <2>1, <2>2 DEF l
<1> HIDE DEF a, b, l
<1>3. /\ a \o b \in Seq(S) /\ Len(a \o b) = l
      /\ \A i \in 1..l : (a \o b)[i] = IF i <= k THEN a[i] ELSE b[i - k]
  <2>1. /\ a \o b \in Seq(S) /\ Len(a \o b) = Len(a) + Len(b)
        /\ \A i \in 1..Len(a) + Len(b) : (a \o b)[i] = IF i <= Len(a) THEN a[i] ELSE b[i - Len(a)]
    BY <1>1, <1>2, ConcatProperties
  <2>2. k + (l - k) = l
    BY <1>0
  <2> QED
    BY <1>1, <1>2, <2>1, <2>2
<1>4. ASSUME NEW i \in 1..l PROVE (a \o b)[i] = r[i]
  <2>1. CASE i <= k
    BY <1>0, <1>1, <1>3, <2>1
  <2>2. CASE ~(i <= k)
    <3>1. i - k \in 1..l - k /\ k + (i - k) = i
      BY <1>0, <2>2
    <3> QED
      BY <1>2, <1>3, <2>2, <3>1
  <2> QED
    BY <2>1, <2>2
<1>5. a \o b = r
  BY <1>3, <1>4, SeqEqual DEF l
<1> QED
  BY <1>1, <1>2, <1>5 DEF a, b, l

\* Every CR is followed by an LF.
Followed(w) == \A p \in 1..Len(w) : w[p] = CR => p < Len(w) /\ w[p + 1] = LF

\* Where no CR is the last mark, this stays so as marks follow.
LEMMA FollowedOn ==
    ASSUME NEW a \in Seq(Int), NEW b \in Seq(Int), Followed(a), Followed(b)
    PROVE  Followed(a \o b)
<1> DEFINE c == a \o b
<1>1. /\ c \in Seq(Int) /\ Len(c) = Len(a) + Len(b) /\ Len(a) \in Nat /\ Len(b) \in Nat
      /\ \A i \in 1..Len(a) : c[i] = a[i]
      /\ \A i \in 1..Len(b) : c[Len(a) + i] = b[i]
  OBVIOUS
<1> HIDE DEF c
<1>2. ASSUME NEW p \in 1..Len(c), c[p] = CR PROVE p < Len(c) /\ c[p + 1] = LF
  <2>1. CASE p <= Len(a)
    <3>1. p \in 1..Len(a) /\ a[p] = CR
      BY <1>1, <1>2, <2>1
    <3>2. p < Len(a) /\ a[p + 1] = LF
      BY <3>1 DEF Followed
    <3>n. Len(c) = Len(a) + Len(b) /\ Len(a) \in Nat /\ Len(b) \in Nat
      BY <1>1
    <3>3. p + 1 \in 1..Len(a) /\ p < Len(c)
      BY <3>n, <3>1, <3>2
    <3>4. c[p + 1] = a[p + 1]
      BY <1>1, <3>3
    <3> QED
      BY <3>2, <3>3, <3>4
  <2>2. CASE ~(p <= Len(a))
    <3> DEFINE q == p - Len(a)
    <3>1. q \in 1..Len(b) /\ Len(a) + q = p /\ Len(a) + (q + 1) = p + 1
      BY <1>1, <2>2
    <3> HIDE DEF q
    <3>2. b[q] = CR
      BY <1>1, <1>2, <3>1
    <3>3. q < Len(b) /\ b[q + 1] = LF
      BY <3>1, <3>2 DEF Followed
    <3>0. Len(a) \in Nat /\ Len(b) \in Nat /\ Len(c) = Len(a) + Len(b) /\ q \in Nat
      BY <1>1, <3>1
    <3>4. q \in Nat /\ q + 1 \in 1..Len(b) /\ p < Len(c)
      <4> DEFINE lb == Len(b)
      <4>1. lb \in Nat /\ q < lb /\ q \in Nat
        BY <3>0, <3>3
      <4>2. q + 1 \in 1..lb
        <5> HIDE DEF lb
        <5> QED
          BY <4>1
      <4> QED
        BY <3>0, <3>1, <3>3, <4>2
    <3>5. c[Len(a) + (q + 1)] = b[q + 1]
      BY <1>1, <3>4
    <3> QED
      BY <3>1, <3>3, <3>4, <3>5
  <2> QED
    BY <2>1, <2>2
<1> QED
  BY <1>2 DEF Followed, c

\* Three marks, one after the other.
LEMMA ThreeMarks ==
    ASSUME NEW x \in Int, NEW y \in Int, NEW z \in Int
    PROVE  <<x>> \o <<y>> = <<x, y>> /\ (<<x>> \o <<y>>) \o <<z>> = <<x, y, z>>
<1> DEFINE u == <<x>> \o <<y>>
           v == u \o <<z>>
<1>1. u \in Seq(Int) /\ Len(u) = 2 /\ u[1] = x /\ u[2] = y
  OBVIOUS
<1> HIDE DEF u
<1>2. u = <<x, y>>
  BY <1>1
<1>3. v \in Seq(Int) /\ Len(v) = 3 /\ v[1] = x /\ v[2] = y /\ v[3] = z
  <2> DEFINE t == <<z>>
  <2>1. t \in Seq(Int) /\ Len(t) = 1 /\ t[1] = z
    OBVIOUS
  <2> HIDE DEF t
  <2>2. /\ u \o t \in Seq(Int) /\ Len(u \o t) = Len(u) + Len(t)
        /\ \A i \in 1..Len(u) + Len(t) : (u \o t)[i] = IF i <= Len(u) THEN u[i] ELSE t[i - Len(u)]
    BY <1>1, <2>1, ConcatProperties
  <2>3. v = u \o t
    BY DEF t
  <2> HIDE DEF v
  <2> QED
    BY <1>1, <2>1, <2>2, <2>3
<1> HIDE DEF v
<1>4. v = <<x, y, z>>
  BY <1>3
<1> QED
  BY <1>2, <1>4 DEF u, v

\* One event on the wire.
LEMMA BlockIs ==
    ASSUME NEW i \in Nat, NEW e \in Endings
    PROVE  /\ <<i>> \o e \o e \in Seq(Int) /\ Followed(<<i>> \o e \o e)
           /\ Without(<<i>> \o e \o e) = <<i, LF, LF>>
<1>1. e = <<LF>> \/ e = <<CR, LF>>
  <2>1. Endings \subseteq {<<LF>>, <<CR, LF>>}
    BY SseAssumption, Zenon
  <2> QED
    BY <2>1
<1>2. LF \in Int /\ CR \in Int /\ LF # CR /\ i \in Int /\ i # CR
  BY DEF LF, CR
<1>3. <<i>> \in Seq(Int) /\ Followed(<<i>>) /\ Without(<<i>>) = <<i>>
  BY <1>2, WithoutOne DEF Followed
<1>4. e \in Seq(Int) /\ Followed(e) /\ Without(e) = <<LF>>
  <2>1. CASE e = <<LF>>
    BY <1>2, <2>1, WithoutOne DEF Followed
  <2>2. CASE e = <<CR, LF>>
    <3>1. <<CR>> \in Seq(Int) /\ <<LF>> \in Seq(Int) /\ e = <<CR>> \o <<LF>>
      <4>1. <<CR>> \o <<LF>> = <<CR, LF>>
        BY <1>2, ThreeMarks
      <4>2. e = <<CR>> \o <<LF>>
        BY <2>2, <4>1, Zenon
      <4> QED
        BY <1>2, <4>2
    <3>2. Without(<<CR>>) = <<>> /\ Without(<<LF>>) = <<LF>> /\ <<>> \o <<LF>> = <<LF>>
      BY <1>2, WithoutOne
    <3>3. Without(e) = Without(<<CR>>) \o Without(<<LF>>)
      BY <3>1, WithoutConcat
    <3>4. e \in Seq(Int) /\ Followed(e)
      BY <1>2, <2>2 DEF Followed
    <3> QED
      BY <3>2, <3>3, <3>4
  <2> QED
    BY <1>1, <2>1, <2>2
<1> DEFINE g == <<i>>
           h == <<LF>>
<1>h. h \in Seq(Int)
  BY <1>2
<1> HIDE DEF g, h
<1>5. g \o e \in Seq(Int) /\ Followed(g \o e) /\ Without(g \o e) = g \o h
  <2>1. g \in Seq(Int) /\ Followed(g) /\ Without(g) = g /\ Without(e) = h
    BY <1>3, <1>4 DEF g, h
  <2>2. Without(g \o e) = Without(g) \o Without(e)
    BY <1>4, <2>1, WithoutConcat
  <2> QED
    BY <1>4, <2>1, <2>2, FollowedOn
<1> DEFINE f == g \o e
<1> HIDE DEF f
<1>6. f \o e \in Seq(Int) /\ Followed(f \o e) /\ Without(f \o e) = (g \o h) \o h
  <2>1. f \in Seq(Int) /\ Followed(f) /\ Without(f) = g \o h /\ Without(e) = h
    BY <1>4, <1>5 DEF f, h
  <2>2. Without(f \o e) = Without(f) \o Without(e)
    BY <1>4, <2>1, WithoutConcat
  <2> QED
    BY <1>4, <2>1, <2>2, FollowedOn
<1>7. (<<i>> \o <<LF>>) \o <<LF>> = <<i, LF, LF>>
  BY <1>2, ThreeMarks
<1> QED
  BY <1>6, <1>7 DEF f, g, h

\* An event with its blank line, behind j others.
LEMMA AheadGrows ==
    ASSUME NEW x, NEW j \in Nat, Ahead(x, 0, j, 0), Len(x) = 3 * j
    PROVE  /\ Ahead(x \o <<j + 1, LF, LF>>, 0, j + 1, 0)
           /\ Len(x \o <<j + 1, LF, LF>>) = 3 * (j + 1)
<1> DEFINE y == x \o <<j + 1, LF, LF>>
           l == Len(x)
<1>0. x \in Seq(Int) /\ l \in Nat /\ l = 3 * j
  BY DEF Ahead
<1>1. /\ y \in Seq(Int) /\ Len(y) = l + 3 /\ \A p \in 1..l : y[p] = x[p]
      /\ y[l + 1] = j + 1 /\ y[l + 2] = LF /\ y[l + 3] = LF
  BY <1>0, SMTT(30) DEF LF
<1> HIDE DEF y, l
<1>2. ASSUME NEW i \in 1..j + 1 PROVE 3 * i - 2 \in 1..Len(y) /\ y[3 * i - 2] = i
  <2>1. CASE i = j + 1
    <3>1. 3 * i - 2 = l + 1
      BY <1>0, <2>1
    <3> QED
      BY <1>0, <1>1, <2>1, <3>1
  <2>2. CASE i # j + 1
    <3> DEFINE q == 3 * i - 2
    <3>1. i \in 0 + 1..j /\ 3 * i - 2 - 0 = 3 * i - 2
      BY <2>2
    <3>2. q \in 1..l /\ x[q] = i
      BY <3>1 DEF Ahead, l
    <3> HIDE DEF q
    <3>3. q \in 1..Len(y) /\ y[q] = i
      BY <1>0, <1>1, <3>2
    <3> QED
      BY <3>3 DEF q
  <2> QED
    BY <2>1, <2>2
<1>3. ASSUME NEW p \in 1..Len(y) PROVE y[p] = LF \/ \E i \in 1..j + 1 : p = 3 * i - 2
  <2>1. p = l + 1 \/ p = l + 2 \/ p = l + 3 \/ p \in 1..l
    BY <1>0, <1>1
  <2>2. CASE p \in 1..l
    <3>1. x[p] = LF \/ \E i \in 0 + 1..j : p + 0 = 3 * i - 2
      BY <2>2 DEF Ahead, l
    <3>2. ASSUME NEW i \in 0 + 1..j, p + 0 = 3 * i - 2
          PROVE  \E k \in 1..j + 1 : p = 3 * k - 2
      <4>1. i \in 1..j + 1 /\ p = 3 * i - 2
        BY <2>2, <3>2
      <4> QED
        BY <4>1
    <3> QED
      BY <1>1, <2>2, <3>1, <3>2
  <2>3. CASE p = l + 1
    <3>1. p = 3 * (j + 1) - 2 /\ j + 1 \in 1..j + 1
      BY <1>0, <2>3
    <3> QED
      BY <3>1
  <2> QED
    BY <1>1, <2>1, <2>2, <2>3
<1>4. \A i : 3 * i - 2 - 0 = 3 * i - 2 \/ i \notin Int
  OBVIOUS
<1>5. \A i \in 0 + 1..j + 1 : 3 * i - 2 - 0 \in 1..Len(y) /\ y[3 * i - 2 - 0] = i
  <2> SUFFICES ASSUME NEW i \in 0 + 1..j + 1
               PROVE  3 * i - 2 - 0 \in 1..Len(y) /\ y[3 * i - 2 - 0] = i
    OBVIOUS
  <2>1. i \in 1..j + 1 /\ 3 * i - 2 - 0 = 3 * i - 2
    OBVIOUS
  <2> QED
    BY <1>2, <2>1
<1>6. \A p \in 1..Len(y) : y[p] = LF \/ \E i \in 0 + 1..j + 1 : p + 0 = 3 * i - 2
  <2> SUFFICES ASSUME NEW p \in 1..Len(y), y[p] # LF
               PROVE  \E i \in 0 + 1..j + 1 : p + 0 = 3 * i - 2
    OBVIOUS
  <2>1. PICK i \in 1..j + 1 : p = 3 * i - 2
    BY <1>3
  <2>2. i \in 0 + 1..j + 1 /\ p + 0 = 3 * i - 2
    BY <2>1
  <2> QED
    BY <2>2
<1>7. 0 \in Int /\ j + 1 \in Nat /\ 0 \in 0..j + 1 /\ Len(y) = 3 * (j + 1)
  BY <1>0, <1>1
<1> QED
  BY <1>1, <1>5, <1>6, <1>7 DEF Ahead, y

\* The raw text: line ends that may be cut off only at the end, and all events ahead.
LEMMA RawIs ==
    ASSUME NEW s \in Scripts, NEW e \in Endings, NEW m \in Tails
    PROVE  /\ RawOf(s, e, m) \in Seq(Int) /\ LineEnds(RawOf(s, e, m))
           /\ Ahead(Without(RawOf(s, e, m)), 0, Len(s), 0)
<1> DEFINE n == Len(s)
           b(i) == <<i>> \o e \o e
           q == [i \in 1..n |-> b(i)]
           w == FlattenSeq(q)
           x == Without(w)
           Fore(k) == SubSeq(q, 1, k)
           Fine(f, k) == /\ f \in Seq(Int) /\ Followed(f) /\ Ahead(Without(f), 0, k, 0)
                         /\ Len(Without(f)) = 3 * k
           G == {k \in Nat : k <= n => Fine(FlattenSeq(Fore(k)), k)}
<1>0. n \in Nat /\ DOMAIN s = 1..n
  <2>1. Scripts \subseteq Seq(Event)
    BY SseAssumption, Zenon
  <2> DEFINE S == Event
  <2>2. s \in Seq(S)
    BY <2>1
  <2> HIDE DEF S
  <2> QED
    BY <2>2
<1>1. q \in Rows(Int) /\ Len(q) = n /\ \A i \in 1..n : q[i] = b(i)
  <2> DEFINE T == Seq(Int)
  <2>1. \A i \in 1..n : b(i) \in T
    <3> SUFFICES ASSUME NEW i \in 1..n PROVE b(i) \in T
      OBVIOUS
    <3>1. i \in Nat
      BY <1>0
    <3> HIDE DEF n
    <3> QED
      BY <3>1, BlockIs
  <2> HIDE DEF b, T, n
  <2>2. q \in Seq(T) /\ Len(q) = n /\ \A i \in 1..n : q[i] = b(i)
    BY <1>0, <2>1
  <2> QED
    BY <2>2 DEF Rows, T
<1> HIDE DEF q, n
<1>2. 0 \in G
  <2>1. Fore(0) = <<>> /\ FlattenSeq(<<>>) = <<>>
    BY <1>1, RowsWhole DEF FlattenSeq
  <2>2. Without(<<>>) = <<>>
    <3>1. 0 \in Int
      OBVIOUS
    <3> QED
      BY <3>1, WithoutOne
  <2>3. Followed(<<>>) /\ Ahead(<<>>, 0, 0, 0) /\ <<>> \in Seq(Int) /\ Len(<<>>) = 3 * 0
    BY DEF Followed, Ahead
  <2>4. Fine(<<>>, 0)
    BY <2>2, <2>3
  <2> HIDE DEF Fore, Fine
  <2> QED
    BY <2>1, <2>4
<1>3. ASSUME NEW k \in 0..n - 1, k \in G PROVE k + 1 \in G
  <2>1. k \in Nat /\ k <= n /\ k + 1 \in 1..n /\ k \in 0..Len(q) - 1
    BY <1>0, <1>1
  <2> DEFINE f == FlattenSeq(Fore(k))
             c == b(k + 1)
  <2>2. Fine(f, k)
    <3> HIDE DEF Fine, f
    <3> QED
      BY <1>3, <2>1 DEF f
  <2>3. Fore(k) \in Rows(Int) /\ q[k + 1] \in Seq(Int) /\ Fore(k + 1) = Append(Fore(k), q[k + 1])
    BY <1>1, <2>1, RowsPrefix
  <2> HIDE DEF Fore
  <2>4. FlattenSeq(Fore(k + 1)) = f \o q[k + 1]
    BY <2>3, FlattenAppend
  <2>5. q[k + 1] = c
    BY <1>1, <2>1
  <2>6. c \in Seq(Int) /\ Followed(c) /\ Without(c) = <<k + 1, LF, LF>>
    <3>1. k + 1 \in Nat
      BY <2>1
    <3> QED
      BY <3>1, BlockIs
  <2> HIDE DEF f, c
  <2>7. f \o c \in Seq(Int) /\ Followed(f \o c)
    BY <2>2, <2>6, FollowedOn
  <2>8. Without(f \o c) = Without(f) \o <<k + 1, LF, LF>>
    BY <2>2, <2>6, WithoutConcat
  <2> DEFINE y == Without(f)
  <2>9. Ahead(y, 0, k, 0) /\ Len(y) = 3 * k
    BY <2>2
  <2> HIDE DEF y
  <2>10. Ahead(y \o <<k + 1, LF, LF>>, 0, k + 1, 0) /\ Len(y \o <<k + 1, LF, LF>>) = 3 * (k + 1)
    BY <2>1, <2>9, AheadGrows
  <2>11. Fine(f \o c, k + 1)
    BY <2>7, <2>8, <2>10 DEF y
  <2>12. Fine(FlattenSeq(Fore(k + 1)), k + 1)
    <3> HIDE DEF Fine
    <3> QED
      BY <2>4, <2>5, <2>11, Zenon
  <2> HIDE DEF Fine
  <2> QED
    BY <2>1, <2>12
<1>4. n \in G
  <2> HIDE DEF G
  <2> QED
    BY <1>0, <1>2, <1>3, Induction
<1>5. Fine(w, n)
  <2>1. Fore(n) = q
    BY <1>1, RowsWhole
  <2> HIDE DEF Fine, Fore
  <2> QED
    BY <1>0, <1>4, <2>1
<1>6. RawOf(s, e, m) = SubSeq(w, 1, Len(w) - m)
  BY <1>0 DEF RawOf, q
<1> DEFINE l == Len(w)
           raw == SubSeq(w, 1, l - m)
<1>7. /\ w \in Seq(Int) /\ Followed(w) /\ Ahead(x, 0, n, 0) /\ Len(x) = 3 * n
      /\ l \in Nat /\ l >= 3 * n /\ (n = 0 => l = 0) /\ x \in Seq(Int)
  <2>1. w \in Seq(Int) /\ Followed(w) /\ Ahead(x, 0, n, 0) /\ Len(x) = 3 * n
    BY <1>5
  <2> HIDE DEF w
  <2>2. Len(x) <= l /\ l \in Nat /\ x \in Seq(Int)
    BY <2>1, WithoutShort, KeptIs
  <2>3. ASSUME n = 0 PROVE l = 0
    <3>1. SubSeq(q, 1, 0) = <<>> /\ SubSeq(q, 1, Len(q)) = q
      BY <1>1, RowsWhole
    <3>2. q = <<>>
      BY <1>1, <2>3, <3>1
    <3>3. w = <<>>
      BY <3>2 DEF w, FlattenSeq
    <3> QED
      BY <3>3
  <2> QED
    BY <2>1, <2>2, <2>3
<1> HIDE DEF w, x
<1>8. m \in 0..2
  <2>1. Tails \subseteq 0..2
    BY SseAssumption, Zenon
  <2> QED
    BY <2>1
<1>9. raw \in Seq(Int) /\ LineEnds(raw) /\ Ahead(Without(raw), 0, n, 0)
  <2>1. CASE n = 0
    <3>1. raw = <<>>
      <4>1. w = <<>> /\ l - m <= 0
        BY <1>7, <1>8, <2>1
      <4> QED
        BY <1>7, <1>8, <2>1, <4>1
    <3>2. Without(<<>>) = <<>>
      <4>1. 0 \in Int
        OBVIOUS
      <4> QED
        BY <4>1, WithoutOne
    <3>3. LineEnds(<<>>) /\ Ahead(<<>>, 0, 0, 0) /\ <<>> \in Seq(Int)
      BY DEF LineEnds, Ahead
    <3> HIDE DEF raw
    <3> QED
      BY <2>1, <3>1, <3>2, <3>3
  <2>2. CASE n # 0
    <3> DEFINE k == l - m
               a == SubSeq(w, 1, k)
               d == SubSeq(w, k + 1, Len(w))
               y == Without(a)
               z == Without(d)
    <3>1. k \in 0..Len(w) /\ k \in Nat
      BY <1>0, <1>7, <1>8, <2>2
    <3>2. /\ a \in Seq(Int) /\ Len(a) = k /\ (\A i \in 1..k : a[i] = w[i])
          /\ d \in Seq(Int) /\ Len(d) = Len(w) - k /\ a \o d = w
      <4> HIDE DEF k
      <4>1. w \in Seq(Int)
        BY <1>7
      <4> QED
        BY <3>1, <4>1, Parts
    <3>3. k = l - m /\ a = raw
      OBVIOUS
    <3> HIDE DEF k, a, d, raw
    <3>4. LineEnds(a)
      <4> SUFFICES ASSUME NEW i \in 1..Len(a) - 1, a[i] = CR PROVE a[i + 1] = LF
        BY DEF LineEnds
      <4>1. i \in 1..k /\ i + 1 \in 1..k /\ i \in 1..Len(w)
        BY <1>7, <3>1, <3>2
      <4>2. w[i + 1] = LF
        BY <1>7, <3>2, <4>1 DEF Followed
      <4> QED
        BY <3>2, <4>1, <4>2
    <3>5. x = y \o z
      BY <3>2, WithoutConcat DEF x
    <3>6. y \in Seq(Int) /\ z \in Seq(Int) /\ Len(z) <= m
      <4>1. Len(d) = m
        BY <1>7, <1>8, <3>2, <3>3
      <4>2. Len(z) <= Len(d)
        BY <3>2, WithoutShort
      <4> QED
        BY <3>2, <4>1, <4>2, KeptIs
    <3> HIDE DEF y, z
    <3>7. /\ Len(y) \in Nat /\ Len(y) <= 3 * n /\ Len(y) >= 3 * n - 2
          /\ \A i \in 1..Len(y) : x[i] = y[i]
      <4>1. /\ Len(y \o z) = Len(y) + Len(z) /\ Len(y) \in Nat /\ Len(z) \in Nat
            /\ \A i \in 1..Len(y) : (y \o z)[i] = y[i]
        BY <3>6
      <4>2. Len(y) + Len(z) = 3 * n
        BY <1>7, <3>5, <4>1
      <4>3. \A i \in 1..Len(y) : x[i] = y[i]
        BY <3>5, <4>1
      <4>4. Len(z) <= 2
        BY <1>8, <3>6, <4>1
      <4>5. Len(y) <= 3 * n /\ Len(y) >= 3 * n - 2
        BY <1>0, <4>1, <4>2, <4>4
      <4> QED
        BY <4>1, <4>3, <4>5
    <3>8. Ahead(y, 0, n, 0)
      <4>1. ASSUME NEW i \in 0 + 1..n
            PROVE  3 * i - 2 - 0 \in 1..Len(y) /\ y[3 * i - 2 - 0] = i
        <5> DEFINE p == 3 * i - 2 - 0
        <5>1. p \in 1..Len(x) /\ x[p] = i
          BY <1>7 DEF Ahead
        <5>2. p <= 3 * n - 2
          BY <1>0
        <5> HIDE DEF p
        <5>3. p \in 1..Len(y)
          BY <1>0, <3>7, <5>1, <5>2
        <5>4. y[p] = i
          BY <3>7, <5>1, <5>3
        <5> QED
          BY <5>3, <5>4 DEF p
      <4>2. ASSUME NEW p \in 1..Len(y)
            PROVE  y[p] = LF \/ \E i \in 0 + 1..n : p + 0 = 3 * i - 2
        <5>1. p \in 1..Len(x) /\ x[p] = y[p]
          <6>1. Len(x) = 3 * n /\ Len(y) <= 3 * n /\ Len(y) \in Nat
            BY <1>7, <3>7
          <6>2. p \in 1..3 * n
            BY <1>0, <6>1
          <6>3. x[p] = y[p]
            BY <3>7
          <6> QED
            BY <6>1, <6>2, <6>3
        <5> QED
          BY <1>7, <5>1 DEF Ahead
      <4>3. 0 \in Int /\ 0 \in 0..n
        BY <1>0
      <4> QED
        BY <1>0, <3>6, <4>1, <4>2, <4>3 DEF Ahead
    <3> QED
      BY <3>2, <3>3, <3>4, <3>8 DEF y
  <2> QED
    BY <2>1, <2>2
<1> QED
  BY <1>6, <1>9 DEF n
--------------------------------------------------------------------------------
(* SseStream: the steps of the reader                                         *)

\* The marks in the reader's hands; a CR at the end of `pending` waits for its LF.
Marks ==
    /\ wire \in Seq(Int) /\ pending \in Seq(Int) /\ work \in Seq(Int)
    /\ LineEnds(wire) /\ LineEnds(pending)
    /\ wire # <<>> /\ pending # <<>> /\ pending[Len(pending)] = CR => wire[1] = LF
    /\ phase \in {"reading", "tail", "end"}
    /\ phase # "reading" => wire = <<>> /\ pending = <<>>

\* What the reader has not parsed yet, without its CRs.
ToCome == work \o (Without(pending) \o Without(wire))

\* There is nothing in the empty text.
LEMMA NoMarks == Without(<<>>) = <<>> /\ <<>> \in Seq(Int) /\ LineEnds(<<>>)
<1>1. 0 \in Int
  OBVIOUS
<1>2. <<>> \in Seq(Int) /\ LineEnds(<<>>)
  BY DEF LineEnds
<1> QED
  BY <1>1, <1>2, WithoutOne

\* A cut leaves the line ends on both sides as they were.
LEMMA PartLineEnds ==
    ASSUME NEW r \in Seq(Int), NEW k \in 0..Len(r), LineEnds(r)
    PROVE  LineEnds(SubSeq(r, 1, k)) /\ LineEnds(SubSeq(r, k + 1, Len(r)))
<1> DEFINE a == SubSeq(r, 1, k)
           b == SubSeq(r, k + 1, Len(r))
           l == Len(r)
<1>1. /\ Len(a) = k /\ (\A i \in 1..k : a[i] = r[i])
      /\ Len(b) = l - k /\ (\A i \in 1..l - k : b[i] = r[k + i])
      /\ l \in Nat /\ k \in 0..l
  BY Parts
<1>2. \A i \in 1..l - 1 : r[i] = CR => r[i + 1] = LF
  BY DEF LineEnds
<1> HIDE DEF a, b, l
<1>3. ASSUME NEW i \in 1..Len(a) - 1, a[i] = CR PROVE a[i + 1] = LF
  <2>1. i \in 1..k /\ i + 1 \in 1..k /\ i \in 1..l - 1
    BY <1>1
  <2> QED
    BY <1>1, <1>2, <1>3, <2>1
<1>4. ASSUME NEW i \in 1..Len(b) - 1, b[i] = CR PROVE b[i + 1] = LF
  <2>1. i \in 1..l - k /\ i + 1 \in 1..l - k /\ k + i \in 1..l - 1 /\ k + (i + 1) = (k + i) + 1
    BY <1>1
  <2>2. r[k + i] = CR
    BY <1>1, <1>4, <2>1
  <2>3. r[(k + i) + 1] = LF
    BY <1>2, <2>1, <2>2
  <2> QED
    BY <1>1, <2>1, <2>3
<1> QED
  BY <1>3, <1>4 DEF LineEnds, a, b

\* Concatenation is associative (for marks).
LEMMA ThreeJoined ==
    ASSUME NEW a \in Seq(Int), NEW b \in Seq(Int), NEW c \in Seq(Int)
    PROVE  (a \o b) \o c = a \o (b \o c)
  BY ConcatAssociative

\* A piece from the network changes nothing that is to come.
LEMMA ReceiveFrames ==
    ASSUME Marks, Receive
    PROVE  Marks' /\ ToCome' = ToCome /\ phase = "reading"
<1>1. PICK k \in 1..Len(wire) : /\ pending' = pending \o Normalize(SubSeq(wire, 1, k))
                                /\ wire' = SubSeq(wire, k + 1, Len(wire))
  BY DEF Receive
<1>2. phase = "reading" /\ phase' = phase /\ work' = work
  BY DEF Receive
<1> DEFINE p == SubSeq(wire, 1, k)
           r == SubSeq(wire, k + 1, Len(wire))
           m == Normalize(p)
           l == Len(wire)
<1>3. /\ wire \in Seq(Int) /\ pending \in Seq(Int) /\ work \in Seq(Int)
      /\ LineEnds(wire) /\ LineEnds(pending)
      /\ wire # <<>> /\ pending # <<>> /\ pending[Len(pending)] = CR => wire[1] = LF
  BY DEF Marks
<1>4. l \in Nat /\ l >= 1 /\ k \in 1..l /\ k \in 0..l /\ wire # <<>>
  BY <1>3
<1>5. /\ p \in Seq(Int) /\ Len(p) = k /\ (\A i \in 1..k : p[i] = wire[i])
      /\ r \in Seq(Int) /\ Len(r) = l - k /\ (\A i \in 1..l - k : r[i] = wire[k + i])
      /\ p \o r = wire /\ LineEnds(p) /\ LineEnds(r)
  <2>1. k \in 0..Len(wire)
    BY <1>4
  <2> QED
    BY <1>3, <2>1, Parts, PartLineEnds
<1> HIDE DEF p, r, l
<1>6. p # <<>>
  BY <1>4, <1>5
<1>7. /\ m \in Seq(Int) /\ Len(m) >= 1 /\ m[Len(m)] = p[Len(p)]
      /\ \A i \in 1..Len(m) - 1 : m[i] # CR
      /\ p[1] # CR => m[1] = p[1]
  BY <1>5, <1>6, NormalizeEnds
<1>8. Without(m) = Without(p)
  BY <1>5, NormalizeKeeps
<1>9. pending' = pending \o m /\ wire' = r
  BY <1>1 DEF p, r
<1> HIDE DEF m
<1> DEFINE g == pending \o m
<1>10. /\ g \in Seq(Int) /\ Len(g) = Len(pending) + Len(m) /\ Len(pending) \in Nat /\ Len(m) \in Nat
       /\ \A i \in 1..Len(pending) : g[i] = pending[i]
       /\ \A i \in 1..Len(m) : g[Len(pending) + i] = m[i]
  <2>1. pending \in Seq(Int) /\ m \in Seq(Int)
    BY <1>3, <1>7
  <2> QED
    BY <2>1
<1>g. g = pending \o m
  OBVIOUS
<1> HIDE DEF g
<1>11. LineEnds(g)
  <2> SUFFICES ASSUME NEW i \in 1..Len(g) - 1, g[i] = CR PROVE g[i + 1] = LF
    BY DEF LineEnds
  <2>1. CASE i < Len(pending)
    <3>1. i \in 1..Len(pending) - 1 /\ i \in 1..Len(pending) /\ i + 1 \in 1..Len(pending)
      BY <1>10, <2>1
    <3>2. pending[i + 1] = LF
      BY <1>3, <1>10, <3>1 DEF LineEnds
    <3> QED
      BY <1>10, <3>1, <3>2
  <2>2. CASE i = Len(pending)
    <3>1. i \in 1..Len(pending) /\ pending # <<>> /\ pending[Len(pending)] = CR
      BY <1>10, <2>2
    <3>2. wire[1] = LF /\ p[1] = wire[1] /\ LF # CR
      BY <1>3, <1>4, <1>5, <3>1 DEF LF, CR
    <3>3. m[1] = LF /\ 1 \in 1..Len(m)
      BY <1>7, <1>10, <3>2
    <3> QED
      BY <1>10, <2>2, <3>3
  <2>3. CASE i > Len(pending)
    <3> DEFINE j == i - Len(pending)
    <3>1. j \in 1..Len(m) - 1 /\ j \in 1..Len(m) /\ Len(pending) + j = i
      BY <1>10, <2>3
    <3> HIDE DEF j
    <3> QED
      BY <1>7, <1>10, <3>1
  <2> QED
    BY <1>10, <2>1, <2>2, <2>3
<1>12. ASSUME r # <<>>, g[Len(g)] = CR PROVE r[1] = LF
  <2>1. g[Len(g)] = m[Len(m)]
    <3>1. Len(m) \in 1..Len(m)
      BY <1>7, <1>10
    <3> QED
      BY <1>10, <3>1
  <2>2. wire[k] = CR
    BY <1>4, <1>5, <1>7, <1>12, <2>1
  <2>3. k \in 1..l - 1 /\ 1 \in 1..l - k
    BY <1>4, <1>5, <1>12
  <2>4. wire[k + 1] = LF
    BY <1>3, <2>2, <2>3 DEF LineEnds, l
  <2> QED
    BY <1>5, <2>3, <2>4
<1>13. Marks'
  <2>1. wire' \in Seq(Int) /\ pending' \in Seq(Int) /\ work' \in Seq(Int)
    BY <1>2, <1>3, <1>5, <1>9, <1>10, <1>g
  <2>2. LineEnds(wire') /\ LineEnds(pending')
    BY <1>5, <1>9, <1>11, <1>g
  <2>3. wire' # <<>> /\ pending' # <<>> /\ pending'[Len(pending')] = CR => wire'[1] = LF
    BY <1>9, <1>12, <1>g
  <2> QED
    BY <1>2, <2>1, <2>2, <2>3 DEF Marks
<1>14. ToCome' = ToCome
  <2> DEFINE a == Without(pending)
             b == Without(p)
             c == Without(r)
  <2>1. a \in Seq(Int) /\ b \in Seq(Int) /\ c \in Seq(Int)
    BY <1>3, <1>5, KeptIs
  <2>2. Without(g) = a \o b
    BY <1>3, <1>7, <1>8, <1>g, WithoutConcat
  <2>3. Without(wire) = b \o c
    BY <1>5, WithoutConcat
  <2>4. ToCome' = work \o (Without(g) \o c)
    BY <1>2, <1>9, <1>g DEF ToCome
  <2>5. ToCome = work \o (a \o Without(wire))
    BY DEF ToCome
  <2> HIDE DEF a, b, c
  <2>6. (a \o b) \o c = a \o (b \o c)
    BY <2>1, ThreeJoined
  <2> QED
    BY <2>2, <2>3, <2>4, <2>5, <2>6
<1> QED
  BY <1>2, <1>13, <1>14

\* A block is taken whole: what was left of the last one was blank.
LEMMA NextBlockFrames ==
    ASSUME Marks, NextBlock, NEW k, NEW n, NEW c, Ahead(ToCome, k, n, c)
    PROVE  Marks' /\ Ahead(ToCome', k, n, c + Len(work)) /\ phase = "reading"
<1> DEFINE cut == Min(BlankLines(pending))
           x == SubSeq(pending, 1, cut)
           r == SubSeq(pending, cut + 1, Len(pending))
           l == Len(pending)
<1>1. /\ work' = Normalize(x) /\ pending' = r /\ wire' = wire /\ phase' = phase
      /\ phase = "reading" /\ DataLines(work) = {} /\ BlankLines(pending) # {}
  BY DEF NextBlock
<1>2. /\ wire \in Seq(Int) /\ pending \in Seq(Int) /\ work \in Seq(Int)
      /\ LineEnds(wire) /\ LineEnds(pending)
      /\ wire # <<>> /\ pending # <<>> /\ pending[Len(pending)] = CR => wire[1] = LF
  BY DEF Marks
<1>3. cut \in 2..l /\ pending[cut] = LF /\ l \in Nat
  <2>1. BlankLines(pending) \subseteq 0..Len(pending) /\ Len(pending) \in Nat
    BY <1>2 DEF BlankLines
  <2>2. cut \in BlankLines(pending)
    BY <1>1, <2>1, Smallest
  <2> HIDE DEF cut
  <2> QED
    BY <2>1, <2>2 DEF BlankLines
<1> HIDE DEF cut
<1>4. /\ x \in Seq(Int) /\ Len(x) = cut /\ (\A i \in 1..cut : x[i] = pending[i])
      /\ r \in Seq(Int) /\ Len(r) = l - cut /\ (\A i \in 1..l - cut : r[i] = pending[cut + i])
      /\ x \o r = pending /\ LineEnds(x) /\ LineEnds(r)
  <2>1. cut \in 0..Len(pending)
    BY <1>3
  <2> QED
    BY <1>2, <2>1, Parts, PartLineEnds
<1> HIDE DEF x, r
<1>5. x # <<>> /\ x[Len(x)] = LF /\ x[Len(x)] # CR
  BY <1>3, <1>4 DEF LF, CR
<1>6. Normalize(x) \in Seq(Int) /\ Normalize(x) = Without(x)
  BY <1>4, <1>5, NormalizedBlock
<1>7. Marks'
  <2>1. ASSUME wire # <<>>, r # <<>>, r[Len(r)] = CR PROVE wire[1] = LF
    <3>1. Len(r) \in 1..l - cut /\ cut + Len(r) = l /\ l >= 1
      BY <1>3, <1>4, <2>1
    <3>2. pending[l] = CR /\ pending # <<>>
      BY <1>4, <2>1, <3>1
    <3> QED
      BY <1>2, <2>1, <3>2
  <2> QED
    BY <1>1, <1>2, <1>4, <1>6, <2>1 DEF Marks
<1>8. ToCome = work \o ToCome' /\ ToCome' \in Seq(Int)
  <2> DEFINE a == Without(x)
             b == Without(r)
             d == Without(wire)
  <2>1. a \in Seq(Int) /\ b \in Seq(Int) /\ d \in Seq(Int)
    BY <1>2, <1>4, KeptIs
  <2>2. Without(pending) = a \o b
    BY <1>4, WithoutConcat
  <2>3. ToCome = work \o ((a \o b) \o d)
    BY <2>2 DEF ToCome
  <2>4. ToCome' = a \o (b \o d)
    BY <1>1, <1>6 DEF ToCome
  <2> HIDE DEF a, b, d
  <2>5. (a \o b) \o d = a \o (b \o d) /\ a \o (b \o d) \in Seq(Int)
    <3>1. b \o d \in Seq(Int)
      BY <2>1
    <3>2. a \o (b \o d) \in Seq(Int)
      BY <2>1, <3>1
    <3> QED
      BY <2>1, <3>2, ThreeJoined
  <2> QED
    BY <2>3, <2>4, <2>5
<1>9. Ahead(ToCome', k, n, c + Len(work))
  <2> DEFINE v == ToCome'
  <2>1. Ahead(work \o v, k, n, c) /\ v \in Seq(Int)
    BY <1>8
  <2> HIDE DEF v
  <2>2. Ahead(v, k, n, c + Len(work))
    BY <1>1, <1>2, <2>1, SkipsBlank
  <2> QED
    BY <2>2 DEF v
<1> QED
  BY <1>1, <1>7, <1>9

\* The end of the body: what is pending becomes the block that is parsed.
LEMMA EndOfBodyFrames ==
    ASSUME Marks, EndOfBody, NEW k, NEW n, NEW c, Ahead(ToCome, k, n, c)
    PROVE  Marks' /\ Ahead(ToCome', k, n, c + Len(work)) /\ phase = "reading"
<1> DEFINE r == pending \o <<LF, LF>>
           l == Len(pending)
<1>1. /\ work' = Normalize(r) /\ pending' = <<>> /\ wire' = wire /\ wire = <<>>
      /\ phase = "reading" /\ phase' = "tail" /\ DataLines(work) = {}
  BY DEF EndOfBody
<1>2. pending \in Seq(Int) /\ work \in Seq(Int) /\ LineEnds(pending) /\ l \in Nat
  BY DEF Marks
<1>3. /\ r \in Seq(Int) /\ Len(r) = l + 2 /\ (\A i \in 1..l : r[i] = pending[i])
      /\ r[l + 1] = LF /\ r[l + 2] = LF /\ LF # CR /\ LF \in Int
  BY <1>2 DEF LF, CR
<1>r. r = pending \o <<LF, LF>>
  OBVIOUS
<1> HIDE DEF r, l
<1>4. LineEnds(r)
  <2> SUFFICES ASSUME NEW i \in 1..Len(r) - 1, r[i] = CR PROVE r[i + 1] = LF
    BY DEF LineEnds
  <2>1. CASE i >= l
    <3>1. i + 1 = l + 1 \/ i + 1 = l + 2
      BY <1>2, <1>3, <2>1
    <3> QED
      BY <1>3, <3>1
  <2>2. CASE ~(i >= l)
    <3>1. i \in 1..l - 1 /\ i \in 1..l /\ i + 1 \in 1..l
      BY <1>2, <1>3, <2>2
    <3> QED
      BY <1>2, <1>3, <3>1 DEF LineEnds, l
  <2> QED
    BY <2>1, <2>2
<1>5. r # <<>> /\ r[Len(r)] # CR
  BY <1>2, <1>3
<1>6. Normalize(r) \in Seq(Int) /\ Normalize(r) = Without(r)
  BY <1>3, <1>4, <1>5, NormalizedBlock
<1>7. Marks'
  BY <1>1, <1>6, NoMarks DEF Marks
<1> DEFINE a == Without(pending)
<1>8. a \in Seq(Int)
  BY <1>2, KeptIs
<1>9. Without(r) = a \o <<LF, LF>>
  <2>1. <<LF, LF>> \in Seq(Int) /\ \A i \in 1..Len(<<LF, LF>>) : <<LF, LF>>[i] # CR
    BY <1>3
  <2>2. Without(<<LF, LF>>) = <<LF, LF>>
    BY <2>1, WithoutNone
  <2> QED
    BY <1>2, <1>r, <2>1, <2>2, WithoutConcat
<1>10. ToCome = work \o a
  <2>1. a \o <<>> = a
    BY <1>8
  <2> QED
    BY <1>1, <2>1, NoMarks DEF ToCome
<1>11. ToCome' = a \o <<LF, LF>>
  <2>1. a \o <<LF, LF>> \in Seq(Int)
    BY <1>3, <1>6, <1>9
  <2> DEFINE y == a \o <<LF, LF>>
  <2> HIDE DEF y
  <2>2. y \o (<<>> \o <<>>) = y
    BY <2>1 DEF y
  <2>3. ToCome' = y \o (<<>> \o <<>>)
    BY <1>1, <1>6, <1>9, NoMarks DEF ToCome, y
  <2> QED
    BY <2>2, <2>3 DEF y
<1> HIDE DEF a
<1>12. Ahead(a, k, n, c + Len(work))
  BY <1>1, <1>2, <1>8, <1>10, SkipsBlank
<1>13. Ahead(a \o <<LF, LF>>, k, n, c + Len(work))
  BY <1>12, MoreBlank
<1> QED
  BY <1>1, <1>7, <1>11, <1>13

\* One data line is decoded to its event.
LEMMA DecodedNext ==
    ASSUME NEW i
    PROVE  Decoded({i}) = script[i]
  BY DEF Decoded

\* The next event is taken, and it alone.
NextOf(w) == Decoded({w[i] : i \in {j \in DataLines(w) : j <= EventEnd(w)}})

\* The event that is sent next is the first one ahead, and then the rest is.
LEMMA NextEventFrames ==
    ASSUME Marks, NextEvent, NEW k, NEW n, NEW c, Ahead(ToCome, k, n, c)
    PROVE  /\ Marks' /\ k < n /\ NextOf(work) = script[k + 1]
           /\ Ahead(ToCome', k + 1, n, c + EventEnd(work))
           /\ phase = "tail" /\ DataLines(work') = {} => k + 1 = n
           /\ SendDone(script[k + 1]) \/ SendDelta(script[k + 1]) \/ SendOther(script[k + 1])
           /\ UNCHANGED <<script, phase>>
<1> DEFINE r == Without(pending) \o Without(wire)
           w == SubSeq(work, EventEnd(work) + 1, Len(work))
<1>1. /\ DataLines(work) # {} /\ work' = w
      /\ SendDone(NextOf(work)) \/ SendDelta(NextOf(work)) \/ SendOther(NextOf(work))
      /\ wire' = wire /\ pending' = pending /\ phase' = phase /\ script' = script
  BY DEF NextEvent, NextOf
<1>2. wire \in Seq(Int) /\ pending \in Seq(Int) /\ work \in Seq(Int) /\ ToCome = work \o r
  BY DEF Marks, ToCome
<1>3. r \in Seq(Int)
  BY <1>2, KeptIs, ConcatProperties
<1> HIDE DEF r
<1>4. /\ k < n /\ EventEnd(work) \in 1..Len(work)
      /\ {work[i] : i \in {j \in DataLines(work) : j <= EventEnd(work)}} = {k + 1}
      /\ Ahead(w \o r, k + 1, n, c + EventEnd(work))
  BY <1>1, <1>2, <1>3, NextEnds
<1>5. NextOf(work) = script[k + 1]
  BY <1>4, DecodedNext DEF NextOf
<1>6. w \in Seq(Int)
  <2>1. EventEnd(work) \in 0..Len(work)
    BY <1>2, <1>4
  <2> QED
    BY <1>2, <2>1, Parts
<1>7. ToCome' = w \o r
  BY <1>1 DEF ToCome, r
<1> HIDE DEF w
<1>8. Marks'
  BY <1>1, <1>6 DEF Marks
<1>9. ASSUME phase = "tail", DataLines(work') = {} PROVE k + 1 = n
  <2>1. r = <<>> /\ w \o <<>> = w
    BY <1>6, <1>9, NoMarks DEF r, Marks
  <2>2. Ahead(w, k + 1, n, c + EventEnd(work))
    BY <1>4, <2>1
  <2> QED
    BY <1>1, <1>6, <1>9, <2>2, AllRead
<1> QED
  BY <1>1, <1>4, <1>5, <1>7, <1>8, <1>9

\* At the flush nothing is ahead.
LEMMA FlushFrames ==
    ASSUME Marks, Flush, NEW k, NEW n, NEW c, Ahead(ToCome, k, n, c)
    PROVE  Marks' /\ ToCome' = ToCome /\ k = n
<1>1. /\ phase = "tail" /\ phase' = "end" /\ DataLines(work) = {}
      /\ wire' = wire /\ pending' = pending /\ work' = work
  BY DEF Flush
<1>2. work \in Seq(Int) /\ wire = <<>> /\ pending = <<>>
  BY <1>1 DEF Marks
<1>3. ToCome = work
  <2>1. work \o (<<>> \o <<>>) = work
    BY <1>2
  <2> QED
    BY <1>2, <2>1, NoMarks DEF ToCome
<1>4. k = n
  BY <1>1, <1>2, <1>3, AllRead
<1>5. Marks' /\ ToCome' = ToCome
  BY <1>1 DEF Marks, ToCome
<1> QED
  BY <1>4, <1>5

\* k of the events have been taken.
Place(k) ==
    /\ Marks /\ script \in Scripts /\ k \in 0..Len(script)
    /\ \E c : Ahead(ToCome, k, Len(script), c)
    /\ phase = "end" => k = Len(script)

\* An answer is a sequence of events, of which only the last may be [DONE].
LEMMA ScriptIs ==
    ASSUME script \in Scripts
    PROVE  /\ script \in Seq(Event) /\ Len(script) \in Nat /\ DOMAIN script = 1..Len(script)
           /\ \A i \in 1..Len(script) : script[i] \in Event /\ (script[i] = Done => i = Len(script))
<1>1. /\ Scripts \subseteq Seq(Event)
      /\ \A s \in Scripts : \A i \in DOMAIN s : s[i] = Done => i = Len(s)
  BY SseAssumption, Zenon
<1> DEFINE S == Event
<1>2. script \in Seq(S)
  BY <1>1
<1> HIDE DEF S
<1>3. /\ Len(script) \in Nat /\ DOMAIN script = 1..Len(script)
      /\ \A i \in 1..Len(script) : script[i] \in S
  BY <1>2
<1> QED
  BY <1>1, <1>2, <1>3 DEF S

\* The three kinds of events.
LEMMA EventIs ==
    ASSUME NEW e \in Event
    PROVE  /\ e.kind = "done" => e = Done
           /\ e.kind = "delta" => e.choice \in ChoiceIds /\ e.text \in Seq(STRING)
           /\ e.kind \in {"done", "delta", "other"}
<1> DEFINE T == Seq(STRING)
<1> HIDE DEF T
<1>1. e \in {Done, Other} \union [kind : {"delta"}, choice : ChoiceIds, text : T]
  BY DEF Event, T
<1>2. /\ e.kind = "done" => e = Done
      /\ e.kind = "delta" => e.choice \in ChoiceIds /\ e.text \in T
      /\ e.kind \in {"done", "delta", "other"}
  BY <1>1 DEF Done, Other
<1> QED
  BY <1>2 DEF T

\* The reader starts before the first event.
LEMMA PlaceFirst ==
    ASSUME SseInit
    PROVE  Place(0) /\ buf = <<>> /\ out = <<>> /\ phase = "reading"
<1>1. /\ script \in Scripts /\ pending = <<>> /\ work = <<>> /\ phase = "reading"
      /\ buf = <<>> /\ out = <<>>
  BY DEF SseInit
<1>2. PICK e \in Endings, m \in Tails : wire = RawOf(script, e, m)
  BY DEF SseInit
<1>3. wire \in Seq(Int) /\ LineEnds(wire) /\ Ahead(Without(wire), 0, Len(script), 0)
  BY <1>1, <1>2, RawIs
<1>4. Marks
  BY <1>1, <1>3, NoMarks DEF Marks
<1>5. ToCome = Without(wire)
  <2>1. Without(wire) \in Seq(Int)
    BY <1>3, KeptIs
  <2> DEFINE y == Without(wire)
  <2> HIDE DEF y
  <2>2. <<>> \o (<<>> \o y) = y
    BY <2>1 DEF y
  <2>3. ToCome = <<>> \o (<<>> \o y)
    BY <1>1, NoMarks DEF ToCome, y
  <2> QED
    BY <2>2, <2>3 DEF y
<1>6. 0 \in 0..Len(script)
  <2>1. Len(script) \in Nat
    BY <1>1, ScriptIs
  <2> QED
    BY <2>1
<1> QED
  BY <1>1, <1>3, <1>4, <1>5, <1>6 DEF Place

\* A step either takes the next event, or sends what is left at the end, or leaves
\* the events and the tail as they are.
LEMMA PlaceNext ==
    ASSUME NEW k, Place(k), [SseNext]_sseVars
    PROVE  /\ script' = script
           /\ \/ /\ Place(k)' /\ buf' = buf /\ out' = out
                 /\ phase' = "end" => phase = "end"
              \/ /\ Place(k + 1)' /\ k + 1 \in 1..Len(script) /\ phase' = phase /\ phase # "end"
                 /\ phase = "tail" /\ DataLines(work') = {} => k + 1 = Len(script)
                 /\ SendDone(script[k + 1]) \/ SendDelta(script[k + 1]) \/ SendOther(script[k + 1])
              \/ /\ Place(k)' /\ k = Len(script) /\ phase' = "end"
                 /\ out' = out \o Leftover /\ buf' = <<>>
<1>1. /\ Marks /\ script \in Scripts /\ k \in 0..Len(script)
      /\ phase = "end" => k = Len(script)
  BY DEF Place
<1>2. PICK c : Ahead(ToCome, k, Len(script), c)
  BY DEF Place
<1>3. CASE Receive
  <2>1. Marks' /\ ToCome' = ToCome /\ phase = "reading"
    BY <1>1, <1>3, ReceiveFrames
  <2>2. script' = script /\ phase' = phase /\ buf' = buf /\ out' = out
    BY <1>3 DEF Receive
  <2>3. Ahead(ToCome', k, Len(script'), c)
    BY <1>2, <2>1, <2>2
  <2> QED
    BY <1>1, <2>1, <2>2, <2>3 DEF Place
<1>4. CASE NextBlock
  <2>1. Marks' /\ Ahead(ToCome', k, Len(script), c + Len(work)) /\ phase = "reading"
    BY <1>1, <1>2, <1>4, NextBlockFrames
  <2>2. script' = script /\ phase' = phase /\ buf' = buf /\ out' = out
    BY <1>4 DEF NextBlock
  <2>3. Ahead(ToCome', k, Len(script'), c + Len(work))
    BY <2>1, <2>2
  <2> QED
    BY <1>1, <2>1, <2>2, <2>3 DEF Place
<1>5. CASE EndOfBody
  <2>1. Marks' /\ Ahead(ToCome', k, Len(script), c + Len(work)) /\ phase = "reading"
    BY <1>1, <1>2, <1>5, EndOfBodyFrames
  <2>2. script' = script /\ phase' = "tail" /\ buf' = buf /\ out' = out
    BY <1>5 DEF EndOfBody
  <2>3. Ahead(ToCome', k, Len(script'), c + Len(work))
    BY <2>1, <2>2
  <2> QED
    BY <1>1, <2>1, <2>2, <2>3 DEF Place
<1>6. CASE NextEvent
  <2>1. /\ Marks' /\ k < Len(script)
        /\ Ahead(ToCome', k + 1, Len(script), c + EventEnd(work))
        /\ phase = "tail" /\ DataLines(work') = {} => k + 1 = Len(script)
        /\ SendDone(script[k + 1]) \/ SendDelta(script[k + 1]) \/ SendOther(script[k + 1])
        /\ script' = script /\ phase' = phase
    BY <1>1, <1>2, <1>6, NextEventFrames
  <2>2. Ahead(ToCome', k + 1, Len(script'), c + EventEnd(work))
    BY <2>1
  <2>3. Len(script) \in Nat
    BY <1>1, ScriptIs
  <2>4. k + 1 \in 1..Len(script) /\ k + 1 \in 0..Len(script) /\ phase # "end"
    BY <1>1, <2>1, <2>3
  <2>5. Place(k + 1)'
    BY <1>1, <2>1, <2>2, <2>4 DEF Place
  <2> QED
    BY <2>1, <2>4, <2>5
<1>7. CASE Flush
  <2>1. Marks' /\ ToCome' = ToCome /\ k = Len(script)
    BY <1>1, <1>2, <1>7, FlushFrames
  <2>2. script' = script /\ phase' = "end" /\ buf' = <<>> /\ out' = out \o Leftover
    BY <1>7 DEF Flush
  <2>3. Ahead(ToCome', k, Len(script'), c)
    BY <1>2, <2>1, <2>2
  <2>4. Place(k)'
    BY <1>1, <2>1, <2>2, <2>3 DEF Place
  <2> QED
    BY <2>1, <2>2, <2>4
<1>8. CASE UNCHANGED sseVars
  <2>1. /\ script' = script /\ wire' = wire /\ pending' = pending /\ work' = work
        /\ buf' = buf /\ out' = out /\ phase' = phase
    BY <1>8 DEF sseVars
  <2>2. Marks' /\ ToCome' = ToCome
    BY <1>1, <2>1 DEF Marks, ToCome
  <2>3. Ahead(ToCome', k, Len(script'), c)
    BY <1>2, <2>1, <2>2
  <2> QED
    BY <1>1, <2>1, <2>2, <2>3 DEF Place
<1> QED
  BY <1>3, <1>4, <1>5, <1>6, <1>7, <1>8 DEF SseNext
--------------------------------------------------------------------------------
(* SseStream: what is sent, and the tail                                      *)

\* The restorer holds back text, and no more than an unfinished token.
LEMMA FeedTyped ==
    ASSUME NEW b \in Seq(STRING), NEW x \in Seq(STRING)
    PROVE  /\ Feed(b, x).keep \in Seq(STRING) /\ Feed(b, x).emit \in Seq(STRING)
           /\ Feed(b, x).keep = b \/ Len(Feed(b, x).keep) <= BodyLen + 2
<1>1. CASE x = <<>> \/ DOMAIN Mapping = {}
  BY <1>1 DEF Feed
<1>2. CASE ~(x = <<>> \/ DOMAIN Mapping = {})
  <2> DEFINE a == b \o x
             l == Len(a)
             h == Held(a)
             u == SubSeq(a, 1, l - h)
             w == SubSeq(a, l - h + 1, l)
  <2>1. Feed(b, x).emit = RestoreComplete(u) /\ Feed(b, x).keep = w
    BY <1>2 DEF Feed
  <2>2. a \in Seq(STRING) /\ l \in Nat
    OBVIOUS
  <2>3. h \in 0..l /\ h <= BodyLen + 2
    BY <2>2, HeldBounded
  <2> HIDE DEF a, l, h
  <2>4. /\ Windowed(SubSeq(a, 0 + 1, l - h), a, 0)
        /\ Windowed(w, a, l - h) /\ Len(w) = l - (l - h)
    <3>1. l - h \in Nat /\ 0 <= l - h /\ l - h <= l /\ l <= Len(a)
      BY <2>2, <2>3 DEF l
    <3> QED
      BY <2>2, <3>1, WindowIs
  <2>5. u \in Seq(STRING) /\ w \in Seq(STRING)
    BY <2>4 DEF Windowed
  <2>6. Len(w) = h
    BY <2>2, <2>3, <2>4
  <2> QED
    BY <2>1, <2>3, <2>5, <2>6, RestoreIsPieces
<1> QED
  BY <1>1, <1>2

\* What the client may be sent: events, and what was left of the texts.
Sendable == Event \union {Delta(0, x) : x \in Seq(STRING)}

\* What EventsInOrder compares: whether an event is a delta, and of which choice.
ShapeOf(e) == IF e.kind = "delta" THEN e.choice ELSE -1

\* A delta keeps its shape when its text is replaced.
LEMMA SendableIs ==
    /\ \A e \in Event : e \in Sendable
    /\ \A e \in Event, x \in Seq(STRING) :
          e.kind = "delta" => /\ Delta(e.choice, x) \in Sendable
                              /\ ShapeOf(Delta(e.choice, x)) = ShapeOf(e)
    /\ \A x \in Seq(STRING) : Delta(0, x) \in Sendable
    /\ \A e \in Sendable : e.kind = "delta" => e.text \in Seq(STRING)
<1> DEFINE T == Seq(STRING)
<1> HIDE DEF T
<1>1. /\ Event = {Done, Other} \union [kind : {"delta"}, choice : ChoiceIds, text : T]
      /\ Sendable = Event \union {Delta(0, x) : x \in T}
  BY DEF Event, Sendable, T
<1>2. \A e \in Event, x \in T : e.kind = "delta" =>
          Delta(e.choice, x) \in Event /\ ShapeOf(Delta(e.choice, x)) = ShapeOf(e)
  BY <1>1 DEF Delta, ShapeOf, Done, Other
<1>3. \A e \in Sendable : e.kind = "delta" => e.text \in T
  BY <1>1 DEF Delta, Done, Other
<1>4. (\A e \in Event : e \in Sendable) /\ (\A x \in T : Delta(0, x) \in Sendable)
  BY <1>1
<1> QED
  BY <1>2, <1>3, <1>4 DEF T

\* Nothing is restored to nothing.
LEMMA NothingToRestore == RestoreComplete(<<>>) = <<>> /\ <<>> \in Seq(STRING)
<1>1. <<>> \in Seq(STRING) /\ Len(<<>>) = 0
  OBVIOUS
<1>2. /\ RestoreComplete(<<>>) = FlattenSeq(PiecesOf(<<>>))
      /\ PiecesOf(<<>>) \in Rows(STRING) /\ Len(PiecesOf(<<>>)) = 0
  BY <1>1, RestoreIsPieces
<1> DEFINE T == Seq(STRING)
           q == PiecesOf(<<>>)
<1> HIDE DEF T, q
<1>3. q \in Seq(T) /\ Len(q) = 0
  BY <1>2 DEF Rows, T, q
<1>4. q = <<>>
  BY <1>3
<1>5. FlattenSeq(<<>>) = <<>>
  BY DEF FlattenSeq
<1> QED
  BY <1>1, <1>2, <1>4, <1>5 DEF q

\* What the flush sends: the restored buffer, if there is one.
LEMMA LeftoverIs ==
    ASSUME buf \in Seq(STRING)
    PROVE  /\ Delta(0, RestoreComplete(buf)) \in Sendable
           /\ \/ Leftover = <<>> /\ RestoreComplete(buf) = <<>>
              \/ Leftover = <<Delta(0, RestoreComplete(buf))>> /\ buf # <<>>
<1>1. RestoreComplete(buf) \in Seq(STRING)
  BY RestoreIsPieces
<1> QED
  BY <1>1, SendableIs, NothingToRestore DEF Leftover

\* One element more.
LEMMA AppendIs ==
    ASSUME NEW S, NEW o \in Seq(S), NEW x \in S
    PROVE  /\ Append(o, x) \in Seq(S) /\ Len(Append(o, x)) = Len(o) + 1 /\ Len(o) \in Nat
           /\ Append(o, x)[Len(o) + 1] = x /\ \A i \in 1..Len(o) : Append(o, x)[i] = o[i]
           /\ o \o <<x>> = Append(o, x) /\ o \o <<>> = o
  OBVIOUS

\* Taking out the one that was put between.
LEMMA OneTooMany ==
    ASSUME NEW S, NEW o \in Seq(S), NEW x \in S, NEW y \in S
    PROVE  /\ RemoveAt(Append(o, x), Len(o) + 1) = o
           /\ RemoveAt(Append(Append(o, x), y), Len(o) + 1) = Append(o, y)
<1> DEFINE n == Len(o)
           p == Append(o, x)
           q == Append(p, y)
<1>1. /\ p \in Seq(S) /\ Len(p) = n + 1 /\ n \in Nat /\ \A i \in 1..n : p[i] = o[i]
  BY AppendIs
<1>2. /\ q \in Seq(S) /\ Len(q) = n + 2 /\ q[n + 2] = y /\ \A i \in 1..n : q[i] = o[i]
  <2>1. /\ q \in Seq(S) /\ Len(q) = Len(p) + 1 /\ q[Len(p) + 1] = y
        /\ \A i \in 1..Len(p) : q[i] = p[i]
    BY <1>1, AppendIs
  <2> HIDE DEF q, p, n
  <2>2. \A i \in 1..n : i \in 1..Len(p) /\ (n + 1) + 1 = n + 2
    BY <1>1
  <2>3. Len(q) = n + 2 /\ q[n + 2] = y
    BY <1>1, <2>1
  <2> QED
    BY <1>1, <2>1, <2>2, <2>3
<1> HIDE DEF p, q
<1>3. SubSeq(p, 1, n) = o /\ SubSeq(q, 1, n) = o
  <2>1. \A r \in Seq(S) : Len(r) >= n /\ (\A i \in 1..n : r[i] = o[i]) => SubSeq(r, 1, n) = o
    BY DEF n
  <2> HIDE DEF n
  <2>2. Len(p) >= n /\ Len(q) >= n
    BY <1>1, <1>2
  <2>3. SubSeq(p, 1, n) = o
    BY <1>1, <2>1, <2>2
  <2>4. SubSeq(q, 1, n) = o
    BY <1>2, <2>1, <2>2
  <2> QED
    BY <2>3, <2>4
<1>4. SubSeq(p, n + 2, n + 1) = <<>> /\ SubSeq(q, n + 2, n + 2) = <<y>>
  <2>1. SubSeq(p, n + 2, n + 1) = <<>>
    BY <1>1
  <2> DEFINE u == SubSeq(q, n + 2, n + 2)
  <2>2. u \in Seq(S) /\ Len(u) = 1 /\ u[1] = q[n + 2]
    <3>1. n + 2 \in 1..Len(q) /\ n + 2 <= (n + 2) + 1 /\ ((n + 2) - (n + 2)) + 1 = 1
      BY <1>1, <1>2
    <3> QED
      BY <1>2, <3>1
  <2> HIDE DEF u
  <2>3. u = <<y>>
    BY <1>2, <2>2
  <2> QED
    BY <2>1, <2>3 DEF u
<1>5. RemoveAt(p, n + 1) = o \o <<>>
  <2>1. (n + 1) - 1 = n /\ (n + 1) + 1 = n + 2
    BY <1>1
  <2> QED
    BY <1>1, <1>3, <1>4, <2>1 DEF RemoveAt
<1>6. RemoveAt(q, n + 1) = o \o <<y>>
  <2>1. (n + 1) - 1 = n /\ (n + 1) + 1 = n + 2
    BY <1>1
  <2> QED
    BY <1>2, <1>3, <1>4, <2>1 DEF RemoveAt
<1> QED
  BY <1>5, <1>6, AppendIs DEF p, q, n

\* One event is sent for an event, and before [DONE] perhaps what was left.
LEMMA Sends ==
    ASSUME out \in Seq(Sendable), buf \in Seq(STRING), NEW e \in Event,
           SendDone(e) \/ SendDelta(e) \/ SendOther(e)
    PROVE  \E x \in Sendable :
              /\ ShapeOf(x) = ShapeOf(e)
              /\ \/ out' = Append(out, x)
                 \/ /\ e = Done /\ phase = "reading" /\ buf' = <<>>
                    /\ out' = Append(Append(out, Delta(0, RestoreComplete(buf))), x)
<1>1. CASE SendDelta(e)
  <2>1. e.kind = "delta" /\ e.text \in Seq(STRING)
    BY <1>1, EventIs DEF SendDelta
  <2> DEFINE f == Feed(buf, e.text)
  <2>2. f.emit \in Seq(STRING) /\ f.keep \in Seq(STRING)
    BY <2>1, FeedTyped
  <2>3. \/ out' = Append(out, Delta(e.choice, f.emit))
        \/ out' = Append(out, Delta(e.choice, f.emit \o RestoreComplete(f.keep)))
    BY <1>1 DEF SendDelta
  <2> HIDE DEF f
  <2>4. f.emit \o RestoreComplete(f.keep) \in Seq(STRING)
    BY <2>2, RestoreIsPieces, ConcatProperties
  <2> QED
    BY <2>1, <2>2, <2>3, <2>4, SendableIs
<1>2. CASE SendOther(e) \/ (SendDone(e) /\ phase # "reading")
  <2>1. out' = Append(out, e)
    BY <1>2 DEF SendOther, SendDone
  <2> QED
    BY <2>1, SendableIs
<1>3. CASE SendDone(e) /\ phase = "reading"
  <2>1. out' = (out \o Leftover) \o <<e>> /\ buf' = <<>> /\ e = Done
    BY <1>3, EventIs DEF SendDone
  <2> DEFINE x == Delta(0, RestoreComplete(buf))
  <2>2. x \in Sendable /\ (Leftover = <<>> \/ Leftover = <<x>>) /\ e \in Sendable
    BY LeftoverIs, SendableIs
  <2> HIDE DEF x
  <2>3. out \o <<>> = out /\ out \o <<x>> = Append(out, x) /\ Append(out, x) \in Seq(Sendable)
    BY <2>2, AppendIs
  <2>4. out \o <<e>> = Append(out, e) /\ Append(out, x) \o <<e>> = Append(Append(out, x), e)
    BY <2>2, <2>3, AppendIs
  <2>5. out' = Append(out, e) \/ out' = Append(Append(out, x), e)
    BY <2>1, <2>2, <2>3, <2>4
  <2> QED
    BY <1>3, <2>1, <2>2, <2>5, SendableIs DEF x
<1> QED
  BY <1>1, <1>2, <1>3

\* The reader is somewhere in the answer, and the tail is bounded.
ReaderInv ==
    /\ \E k \in 0..Len(script) : Place(k)
    /\ buf \in Seq(STRING) /\ out \in Seq(Sendable)
    /\ TailBounded

\* This holds at the start ...
LEMMA ReaderFirst == SseInit => ReaderInv
<1> SUFFICES ASSUME SseInit PROVE ReaderInv
  OBVIOUS
<1>1. Place(0) /\ buf = <<>> /\ out = <<>>
  BY PlaceFirst
<1>2. 0 \in 0..Len(script)
  BY <1>1 DEF Place
<1>3. Len(buf) <= BodyLen + 2
  BY <1>1, Width
<1>4. <<>> \in Seq(STRING) /\ <<>> \in Seq(Sendable)
  OBVIOUS
<1> QED
  BY <1>1, <1>2, <1>3, <1>4 DEF ReaderInv, TailBounded

\* ... and every step keeps it.
LEMMA ReaderNext == ReaderInv /\ [SseNext]_sseVars => ReaderInv'
<1> SUFFICES ASSUME ReaderInv, [SseNext]_sseVars PROVE ReaderInv'
  OBVIOUS
<1>1. PICK k \in 0..Len(script) : Place(k)
  BY DEF ReaderInv
<1>2. buf \in Seq(STRING) /\ Len(buf) <= BodyLen + 2 /\ BodyLen \in Nat
  BY Width DEF ReaderInv, TailBounded
<1>3. buf' = buf \/ buf' = <<>> => buf' \in Seq(STRING) /\ Len(buf') <= BodyLen + 2
  <2>1. <<>> \in Seq(STRING) /\ Len(<<>>) = 0 /\ 0 <= BodyLen + 2
    BY <1>2
  <2>2. buf' = buf => buf' \in Seq(STRING) /\ Len(buf') <= BodyLen + 2
    BY <1>2
  <2> QED
    BY <2>1, <2>2
<1>4. ASSUME NEW j, Place(j)' PROVE \E i \in 0..Len(script') : Place(i)'
  BY <1>4 DEF Place
<1>0. out \in Seq(Sendable)
  BY DEF ReaderInv
<1>5. CASE Place(k)' /\ buf' = buf /\ out' = out
  BY <1>0, <1>3, <1>4, <1>5 DEF ReaderInv, TailBounded
<1>6. CASE /\ Place(k + 1)' /\ k + 1 \in 1..Len(script)
           /\ SendDone(script[k + 1]) \/ SendDelta(script[k + 1]) \/ SendOther(script[k + 1])
  <2> DEFINE e == script[k + 1]
  <2>1. e \in Event
    BY <1>1, <1>6, ScriptIs DEF Place
  <2>2. out' \in Seq(Sendable)
    <3>1. PICK x \in Sendable : \/ out' = Append(out, x)
                                \/ out' = Append(Append(out, Delta(0, RestoreComplete(buf))), x)
      BY <1>0, <1>2, <1>6, <2>1, Sends
    <3> DEFINE y == Delta(0, RestoreComplete(buf))
    <3>2. y \in Sendable
      BY <1>2, LeftoverIs
    <3> HIDE DEF y
    <3>3. Append(out, y) \in Seq(Sendable)
      BY <1>0, <3>2, AppendIs
    <3>4. Append(out, x) \in Seq(Sendable) /\ Append(Append(out, y), x) \in Seq(Sendable)
      BY <1>0, <3>3
    <3> QED
      BY <3>1, <3>4 DEF y
  <2>3. buf' \in Seq(STRING) /\ Len(buf') <= BodyLen + 2
    <3>1. CASE SendDone(e) \/ SendOther(e)
      <4>1. buf' = buf \/ buf' = <<>>
        BY <3>1 DEF SendDone, SendOther
      <4> QED
        BY <1>3, <4>1
    <3>2. CASE SendDelta(e)
      <4>1. e.text \in Seq(STRING)
        BY <2>1, <3>2, EventIs DEF SendDelta
      <4> DEFINE g == Feed(buf, e.text).keep
      <4>2. g \in Seq(STRING) /\ Len(g) <= BodyLen + 2
        BY <1>2, <4>1, FeedTyped
      <4>3. buf' = <<>> \/ buf' = g
        BY <3>2 DEF SendDelta
      <4> HIDE DEF g
      <4> QED
        BY <1>3, <4>2, <4>3
    <3> QED
      BY <1>6, <3>1, <3>2
  <2> QED
    BY <1>4, <1>6, <2>2, <2>3 DEF ReaderInv, TailBounded
<1>7. CASE Place(k)' /\ out' = out \o Leftover /\ buf' = <<>>
  <2> DEFINE y == Delta(0, RestoreComplete(buf))
  <2>1. y \in Sendable /\ (Leftover = <<>> \/ Leftover = <<y>>)
    BY <1>2, LeftoverIs
  <2> HIDE DEF y
  <2>2. out \o <<>> \in Seq(Sendable) /\ out \o <<y>> \in Seq(Sendable)
    BY <1>0, <2>1
  <2>3. out' \in Seq(Sendable)
    BY <1>7, <2>1, <2>2
  <2> QED
    BY <1>3, <1>4, <1>7, <2>3 DEF ReaderInv, TailBounded
<1> QED
  BY <1>1, <1>5, <1>6, <1>7, PlaceNext

\* The tail is bounded.
THEOREM TailBoundedHolds == SseSpec => []TailBounded
<1>1. ReaderInv => TailBounded
  BY DEF ReaderInv
<1> QED
  BY <1>1, ReaderFirst, ReaderNext, PTL DEF SseSpec
--------------------------------------------------------------------------------
(* SseStream: the events in order                                             *)

\* The events o follow the first k events of the answer, one for one.
Follows(o, k) == /\ o \in Seq(Sendable) /\ Len(o) = k
                 /\ \A i \in 1..k : ShapeOf(o[i]) = ShapeOf(script[i])

\* They follow one more, if the next one has its shape.
LEMMA FollowsOn ==
    ASSUME NEW k, NEW o, Follows(o, k), NEW x \in Sendable, ShapeOf(x) = ShapeOf(script[k + 1])
    PROVE  Follows(Append(o, x), k + 1)
<1> DEFINE p == Append(o, x)
<1>1. o \in Seq(Sendable) /\ Len(o) = k /\ \A i \in 1..k : ShapeOf(o[i]) = ShapeOf(script[i])
  BY DEF Follows
<1>2. /\ p \in Seq(Sendable) /\ Len(p) = k + 1 /\ k \in Nat
      /\ p[k + 1] = x /\ \A i \in 1..k : p[i] = o[i]
  BY <1>1, AppendIs
<1> HIDE DEF p
<1>3. ASSUME NEW i \in 1..k + 1 PROVE ShapeOf(p[i]) = ShapeOf(script[i])
  <2>1. i = k + 1 \/ i \in 1..k
    BY <1>2
  <2> QED
    BY <1>1, <1>2, <2>1
<1> QED
  BY <1>2, <1>3 DEF Follows, p

\* o is what was sent for the events; at the end one more may have been sent.
SentFor(o, k) ==
    /\ Follows(o, k)
    /\ out = o \/ (k = Len(script) /\ buf = <<>> /\ \E j \in 1..Len(out) : o = RemoveAt(out, j))

\* What has been sent is what was owed for the events that have been read.
OrderInv == \E k \in 0..Len(script) : Place(k) /\ \E o : SentFor(o, k)

\* This holds at the start ...
LEMMA OrderFirst == SseInit => OrderInv
<1> SUFFICES ASSUME SseInit PROVE OrderInv
  OBVIOUS
<1>1. Place(0) /\ buf = <<>> /\ out = <<>>
  BY PlaceFirst
<1>2. 0 \in 0..Len(script)
  BY <1>1 DEF Place
<1>3. SentFor(<<>>, 0)
  BY <1>1 DEF SentFor, Follows
<1> QED
  BY <1>1, <1>2, <1>3 DEF OrderInv

\* ... every step keeps it ...
LEMMA OrderNext == ReaderInv /\ OrderInv /\ [SseNext]_sseVars => OrderInv'
<1> SUFFICES ASSUME ReaderInv, OrderInv, [SseNext]_sseVars PROVE OrderInv'
  OBVIOUS
<1>1. PICK k \in 0..Len(script) : Place(k) /\ \E o : SentFor(o, k)
  BY DEF OrderInv
<1>2. PICK o : SentFor(o, k)
  BY <1>1
<1>3. /\ Follows(o, k) /\ o \in Seq(Sendable) /\ Len(o) = k /\ k \in Nat
      /\ out = o \/ (k = Len(script) /\ buf = <<>> /\ \E j \in 1..Len(out) : o = RemoveAt(out, j))
  BY <1>2 DEF SentFor, Follows
<1>4. buf \in Seq(STRING) /\ out \in Seq(Sendable)
  BY DEF ReaderInv
<1>5. ASSUME NEW j, Place(j)', NEW p, SentFor(p, j)' PROVE OrderInv'
  BY <1>5 DEF OrderInv, Place
<1>6. CASE Place(k)' /\ buf' = buf /\ out' = out /\ script' = script
  <2>1. SentFor(o, k)'
    BY <1>2, <1>6 DEF SentFor, Follows
  <2> QED
    BY <1>5, <1>6, <2>1
<1>7. CASE /\ Place(k)' /\ k = Len(script) /\ script' = script
           /\ out' = out \o Leftover /\ buf' = <<>>
  <2>1. Follows(o, k)'
    BY <1>3, <1>7 DEF Follows
  <2>2. out' = o \/ \E j \in 1..Len(out') : o = RemoveAt(out', j)
    <3>1. CASE out = o
      <4>1. CASE Leftover = <<>>
        BY <1>3, <1>7, <3>1, <4>1, AppendIs, ConcatEmptySeq
      <4>2. CASE Leftover # <<>>
        <5> DEFINE x == Delta(0, RestoreComplete(buf))
        <5>1. Leftover = <<x>> /\ x \in Sendable
          BY <1>4, <4>2, LeftoverIs
        <5> HIDE DEF x
        <5>2. out' = Append(o, x) /\ Len(Append(o, x)) = k + 1 /\ RemoveAt(Append(o, x), k + 1) = o
          BY <1>3, <1>7, <3>1, <5>1, AppendIs, OneTooMany
        <5>3. k + 1 \in 1..Len(out')
          BY <1>3, <5>2
        <5> QED
          BY <5>2, <5>3
      <4> QED
        BY <4>1, <4>2
    <3>2. CASE buf = <<>> /\ \E j \in 1..Len(out) : o = RemoveAt(out, j)
      <4>1. Leftover = <<>>
        BY <1>4, <3>2, LeftoverIs
      <4>2. out' = out
        BY <1>4, <1>7, <4>1, ConcatEmptySeq
      <4> QED
        BY <3>2, <4>2
    <3> QED
      BY <1>3, <3>1, <3>2
  <2> QED
    BY <1>5, <1>7, <2>1, <2>2 DEF SentFor
<1>8. CASE /\ Place(k + 1)' /\ k + 1 \in 1..Len(script) /\ script' = script
           /\ SendDone(script[k + 1]) \/ SendDelta(script[k + 1]) \/ SendOther(script[k + 1])
  <2>1. /\ script[k + 1] \in Event /\ (script[k + 1] = Done => k + 1 = Len(script))
        /\ Len(script) \in Nat
    BY <1>1, <1>8, ScriptIs DEF Place
  <2>2. out = o
    BY <1>3, <1>8, <2>1
  <2> DEFINE y == Delta(0, RestoreComplete(buf))
  <2>3. PICK x \in Sendable :
           /\ ShapeOf(x) = ShapeOf(script[k + 1])
           /\ \/ out' = Append(out, x)
              \/ script[k + 1] = Done /\ buf' = <<>> /\ out' = Append(Append(out, y), x)
    BY <1>4, <1>8, <2>1, Sends
  <2>4. y \in Sendable
    BY <1>4, LeftoverIs
  <2> HIDE DEF y
  <2> DEFINE p == Append(o, x)
  <2>5. Follows(p, k + 1)
    BY <1>3, <2>3, FollowsOn
  <2>6. CASE out' = p
    <3>1. SentFor(p, k + 1)'
      BY <1>8, <2>5, <2>6 DEF SentFor, Follows
    <3> QED
      BY <1>5, <1>8, <3>1
  <2>7. CASE script[k + 1] = Done /\ buf' = <<>> /\ out' = Append(Append(o, y), x)
    <3>1. p = RemoveAt(out', k + 1)
      BY <1>3, <2>3, <2>4, <2>7, OneTooMany
    <3>2. k + 1 \in 1..Len(out')
      <4>1. Append(o, y) \in Seq(Sendable) /\ Len(Append(o, y)) = k + 1
        BY <1>3, <2>4, AppendIs
      <4>2. Len(out') = (k + 1) + 1
        BY <2>3, <2>7, <4>1, AppendIs
      <4> QED
        BY <1>3, <4>2
    <3> HIDE DEF p
    <3>3. k + 1 = Len(script')
      BY <1>8, <2>1, <2>7
    <3>4. Follows(p, k + 1)'
      BY <1>8, <2>5 DEF Follows
    <3>5. SentFor(p, k + 1)'
      BY <2>7, <3>1, <3>2, <3>3, <3>4 DEF SentFor
    <3> QED
      BY <1>5, <1>8, <3>5
  <2> QED
    BY <2>2, <2>3, <2>6, <2>7
<1> QED
  BY <1>1, <1>6, <1>7, <1>8, PlaceNext

\* ... and it is what EventsInOrder asks for.
LEMMA OrderShown ==
    ASSUME OrderInv
    PROVE  EventsInOrder
<1>p. PICK k \in 0..Len(script) : Place(k) /\ \E o : SentFor(o, k)
  BY DEF OrderInv
<1>q. PICK o : SentFor(o, k)
  BY <1>p
<1>1. k \in 0..Len(script) /\ Place(k) /\ SentFor(o, k)
  BY <1>p, <1>q
<1> DEFINE shape(s) == [i \in DOMAIN s |-> IF s[i].kind = "delta" THEN s[i].choice ELSE -1]
           sent == {out} \union {RemoveAt(out, i) : i \in DOMAIN out}
<1>2. /\ script \in Seq(Event) /\ Len(script) \in Nat /\ DOMAIN script = 1..Len(script)
      /\ phase = "end" => k = Len(script)
  BY <1>1, ScriptIs DEF Place
<1>n. Len(script) \in Nat
  BY <1>2
<1>3. /\ o \in Seq(Sendable) /\ Len(o) = k /\ k \in Nat /\ DOMAIN o = 1..k
      /\ \A i \in 1..k : ShapeOf(o[i]) = ShapeOf(script[i])
  <2>1. o \in Seq(Sendable) /\ Len(o) = k
    BY <1>1 DEF SentFor, Follows
  <2> QED
    BY <1>1, <2>1 DEF SentFor, Follows
<1>4. o \in sent
  <2>1. out = o \/ \E j \in 1..Len(out) : o = RemoveAt(out, j)
    BY <1>1 DEF SentFor
  <2>2. \A j \in 1..Len(out) : j \in DOMAIN out
    OBVIOUS
  <2> QED
    BY <2>1, <2>2
<1>5. IsPrefix(shape(o), shape(script))
  <2> DEFINE a == shape(o)
             b == shape(script)
  <2>1. a = [i \in 1..k |-> ShapeOf(o[i])] /\ b = [i \in 1..Len(script) |-> ShapeOf(script[i])]
    <3>1. DOMAIN o = 1..k /\ DOMAIN script = 1..Len(script)
      BY <1>2, <1>3
    <3>2. a = [i \in 1..k |-> ShapeOf(o[i])]
      BY <3>1 DEF ShapeOf
    <3>3. b = [i \in 1..Len(script) |-> ShapeOf(script[i])]
      BY <3>1 DEF ShapeOf
    <3> QED
      BY <3>2, <3>3
  <2> HIDE DEF a, b
  <2>2. Len(a) = k /\ Len(b) = Len(script)
    BY <1>3, <1>n, <2>1
  <2> DEFINE S == {a[i] : i \in 1..k} \union {b[i] : i \in 1..Len(script)}
  <2>m. k <= Len(script)
    BY <1>n
  <2>n. (\A i \in 1..k : a[i] \in S) /\ (\A i \in 1..Len(script) : b[i] \in S)
    OBVIOUS
  <2> HIDE DEF S
  <2>f. a \in [1..k -> S] /\ b \in [1..Len(script) -> S]
    BY <2>1, <2>n
  <2>3. a \in Seq(S) /\ b \in Seq(S) /\ k <= Len(script) /\ \A i \in 1..k : a[i] = b[i]
    <3>1. a \in Seq(S) /\ b \in Seq(S)
      BY <1>3, <1>n, <2>f
    <3>2. \A i \in 1..k : i \in 1..Len(script)
      BY <1>3, <1>n, <2>m
    <3> QED
      BY <1>3, <2>1, <2>m, <3>1, <3>2
  <2>4. SubSeq(a, 1, k) = SubSeq(b, 1, k)
    <3> DEFINE u == SubSeq(a, 1, k)
               v == SubSeq(b, 1, k)
    <3>1. /\ u \in Seq(S) /\ Len(u) = k /\ \A i \in 1..k : u[i] = a[i]
      BY <1>3, <2>2, <2>3
    <3>2. /\ v \in Seq(S) /\ Len(v) = k /\ \A i \in 1..k : v[i] = b[i]
      BY <1>3, <1>n, <2>2, <2>3
    <3> HIDE DEF u, v
    <3> QED
      BY <2>3, <3>1, <3>2
  <2>5. IsPrefix(a, b)
    BY <2>2, <2>3, <2>4 DEF IsPrefix
  <2> QED
    BY <2>5 DEF a, b
<1> QED
  BY <1>2, <1>3, <1>4, <1>5 DEF EventsInOrder

\* The events come out one for one and in order.
THEOREM EventsInOrderHolds == SseSpec => []EventsInOrder
<1>1. OrderInv => EventsInOrder
  BY OrderShown
<1> QED
  BY <1>1, ReaderFirst, ReaderNext, OrderFirst, OrderNext, PTL DEF SseSpec
--------------------------------------------------------------------------------
(* SseStream: the text of the answer                                          *)

\* What an event says in the one choice.
Said(e) == IF e.kind = "delta" /\ e.choice = 0 THEN e.text ELSE <<>>

\* The texts of a sequence of events.
SaidBy(s) == [i \in DOMAIN s |-> Said(s[i])]

\* TextOf joins them.
LEMMA SaidIs ==
    ASSUME NEW s \in Seq(Sendable)
    PROVE  /\ TextOf(s, 0) = FlattenSeq(SaidBy(s)) /\ TextOf(s, 0) \in Seq(STRING)
           /\ SaidBy(s) \in Rows(STRING) /\ Len(SaidBy(s)) = Len(s) /\ Len(s) \in Nat
           /\ \A i \in 1..Len(s) : SaidBy(s)[i] = Said(s[i])
<1> DEFINE T == Seq(STRING)
           q == SaidBy(s)
<1>1. \A e \in Sendable : Said(e) \in T
  BY SendableIs, NothingToRestore DEF Said
<1>2. Len(s) \in Nat /\ \A i \in 1..Len(s) : s[i] \in Sendable
  OBVIOUS
<1>3. DOMAIN s = 1..Len(s)
  OBVIOUS
<1> HIDE DEF T
<1>4. q = [i \in 1..Len(s) |-> Said(s[i])]
  BY <1>3 DEF SaidBy
<1> HIDE DEF q
<1>5. q \in [1..Len(s) -> T]
  BY <1>1, <1>2, <1>4
<1>6. q \in Seq(T) /\ Len(q) = Len(s)
  BY <1>2, <1>5
<1>7. TextOf(s, 0) = FlattenSeq(q)
  BY DEF TextOf, SaidBy, Said, q
<1>8. q \in Rows(STRING)
  BY <1>6 DEF Rows, T
<1>9. FlattenSeq(q) \in Seq(STRING)
  BY <1>8, FlattenTyped
<1> QED
  BY <1>2, <1>4, <1>6, <1>7, <1>8, <1>9 DEF q

\* The text of events that follow others follows theirs.
LEMMA SaidConcat ==
    ASSUME NEW s \in Seq(Sendable), NEW r \in Seq(Sendable)
    PROVE  TextOf(s \o r, 0) = TextOf(s, 0) \o TextOf(r, 0)
<1> DEFINE T == Seq(STRING)
           p == SaidBy(s)
           q == SaidBy(r)
           u == SaidBy(s \o r)
<1>1. /\ Len(s) \in Nat /\ Len(r) \in Nat /\ s \o r \in Seq(Sendable)
      /\ Len(s \o r) = Len(s) + Len(r)
      /\ \A i \in 1..Len(s) : (s \o r)[i] = s[i]
      /\ \A i \in 1..Len(r) : (s \o r)[Len(s) + i] = r[i]
  OBVIOUS
<1>2. /\ TextOf(s, 0) = FlattenSeq(p) /\ TextOf(r, 0) = FlattenSeq(q)
      /\ TextOf(s \o r, 0) = FlattenSeq(u)
      /\ p \in Rows(STRING) /\ q \in Rows(STRING) /\ u \in Rows(STRING)
      /\ Len(p) = Len(s) /\ Len(q) = Len(r) /\ Len(u) = Len(s) + Len(r)
  BY <1>1, SaidIs
<1>3. /\ \A i \in 1..Len(s) : p[i] = Said(s[i])
      /\ \A i \in 1..Len(r) : q[i] = Said(r[i])
      /\ \A i \in 1..Len(s) + Len(r) : u[i] = Said((s \o r)[i])
  BY <1>1, SaidIs
<1> HIDE DEF T, p, q, u
<1>4. \A i \in 1..Len(s) : i \in 1..Len(s) + Len(r) /\ u[i] = p[i]
  BY <1>1, <1>3
<1>5. \A i \in 1..Len(r) : Len(s) + i \in 1..Len(s) + Len(r) /\ u[Len(s) + i] = q[i]
  BY <1>1, <1>3
<1>6. u = p \o q
  <2>1. /\ p \in Seq(T) /\ q \in Seq(T) /\ u \in Seq(T) /\ Len(u) = Len(p) + Len(q)
        /\ \A i \in 1..Len(p) : u[i] = p[i]
        /\ \A i \in 1..Len(q) : u[Len(p) + i] = q[i]
    BY <1>2, <1>4, <1>5 DEF Rows, T
  <2> QED
    BY <2>1, JoinedIs
<1> QED
  BY <1>2, <1>6, FlattenConcat

\* The text of one event more.
LEMMA SaidAppend ==
    ASSUME NEW s \in Seq(Sendable), NEW x \in Sendable
    PROVE  TextOf(Append(s, x), 0) = TextOf(s, 0) \o Said(x) /\ Said(x) \in Seq(STRING)
<1>1. Append(s, x) = s \o <<x>> /\ <<x>> \in Seq(Sendable)
  OBVIOUS
<1>2. Said(x) \in Seq(STRING)
  BY SendableIs, NothingToRestore DEF Said
<1>3. SaidBy(<<x>>) = <<Said(x)>>
  <2> DEFINE u == SaidBy(<<x>>)
             y == Said(x)
  <2> DEFINE z == <<x>>
  <2>1. Len(z) = 1 /\ z[1] = x /\ z \in Seq(Sendable)
    OBVIOUS
  <2>z. u = SaidBy(z)
    OBVIOUS
  <2> HIDE DEF z
  <2>2. u \in Rows(STRING) /\ Len(u) = 1 /\ u[1] = y
    <3>1. /\ SaidBy(z) \in Rows(STRING) /\ Len(SaidBy(z)) = 1
          /\ \A i \in 1..1 : SaidBy(z)[i] = Said(z[i])
      BY <2>1, SaidIs
    <3> QED
      BY <2>1, <2>z, <3>1
  <2> DEFINE T == Seq(STRING)
  <2> HIDE DEF u, y, T
  <2>3. u \in Seq(T) /\ Len(u) = 1 /\ u[1] = y /\ y \in T
    BY <1>2, <2>2 DEF Rows, T, y
  <2>4. u = <<y>>
    BY <2>3
  <2> QED
    BY <2>4 DEF u, y
<1>4. TextOf(<<x>>, 0) = Said(x)
  BY <1>1, <1>2, <1>3, SaidIs, FlattenOne
<1> QED
  BY <1>1, <1>2, <1>4, SaidConcat

\* The text of the answer, and what of it k events have brought.
Full == TextOf(script, 0)
\* The text of the first k of its events.
ReadTo(k) == TextOf(SubSeq(script, 1, k), 0)

\* The text of the events that have been read is a beginning of the whole.
LEMMA ReadToIs ==
    ASSUME script \in Scripts, NEW k \in 0..Len(script)
    PROVE  /\ Full \in Seq(STRING) /\ ReadTo(k) \in Seq(STRING)
           /\ Len(ReadTo(k)) \in 0..Len(Full)
           /\ \A i \in 1..Len(ReadTo(k)) : ReadTo(k)[i] = Full[i]
<1> DEFINE n == Len(script)
           a == SubSeq(script, 1, k)
           b == SubSeq(script, k + 1, n)
<1>1. script \in Seq(Event) /\ \A e \in Event : e \in Sendable
  BY ScriptIs, SendableIs
<1>2. script \in Seq(Sendable) /\ n \in Nat
  BY <1>1
<1>3. a \in Seq(Sendable) /\ b \in Seq(Sendable) /\ a \o b = script
  BY <1>2, Parts
<1> HIDE DEF n, a, b
<1> DEFINE x == TextOf(a, 0)
           y == TextOf(b, 0)
<1>4. Full = x \o y /\ x \in Seq(STRING) /\ y \in Seq(STRING) /\ ReadTo(k) = x
  BY <1>3, SaidIs, SaidConcat DEF Full, ReadTo, a
<1> HIDE DEF x, y
<1>5. /\ x \o y \in Seq(STRING) /\ Len(x) \in 0..Len(x \o y)
      /\ \A i \in 1..Len(x) : (x \o y)[i] = x[i]
  BY <1>4
<1> QED
  BY <1>4, <1>5

\* Before the first event it is empty, and after the last one it is all.
LEMMA ReadToEnds ==
    ASSUME script \in Scripts
    PROVE  ReadTo(0) = <<>> /\ ReadTo(Len(script)) = Full
<1>1. script \in Seq(Event) /\ \A e \in Event : e \in Sendable
  BY ScriptIs, SendableIs
<1>2. script \in Seq(Sendable)
  BY <1>1
<1>3. SubSeq(script, 1, Len(script)) = script /\ SubSeq(script, 1, 0) = <<>>
  BY <1>2, WholeIs
<1>4. TextOf(<<>>, 0) = <<>>
  <2> DEFINE u == TextOf(<<>>, 0)
  <2>1. <<>> \in Seq(Sendable) /\ <<>> \o <<>> = <<>>
    OBVIOUS
  <2>2. u \in Seq(STRING) /\ u = u \o u
    BY <2>1, SaidIs, SaidConcat
  <2> HIDE DEF u
  <2>3. Len(u) \in Nat /\ Len(u) = Len(u) + Len(u)
    BY <2>2
  <2> QED
    BY <2>2, <2>3 DEF u
<1> QED
  BY <1>3, <1>4 DEF ReadTo, Full

\* The next event adds the part of the text between.
LEMMA ReadToNext ==
    ASSUME script \in Scripts, NEW k \in 0..Len(script), k + 1 \in 1..Len(script)
    PROVE  LET x == Said(script[k + 1])
               e == Len(ReadTo(k))
               g == Len(ReadTo(k + 1))
           IN  /\ x \in Seq(STRING) /\ script[k + 1] \in Sendable
               /\ e \in Nat /\ g \in Nat /\ g = e + Len(x) /\ g <= Len(Full)
               /\ x = SubSeq(Full, e + 1, g)
<1> DEFINE x == Said(script[k + 1])
           y == script[k + 1]
           a == SubSeq(script, 1, k)
           e == Len(ReadTo(k))
           g == Len(ReadTo(k + 1))
<1>1. script \in Seq(Event) /\ \A z \in Event : z \in Sendable
  BY ScriptIs, SendableIs
<1>2. script \in Seq(Sendable) /\ Len(script) \in Nat
  BY <1>1
<1>3. /\ y \in Sendable /\ a \in Seq(Sendable)
      /\ SubSeq(script, 1, k + 1) = Append(a, y)
  BY <1>2
<1>4. ReadTo(k + 1) = ReadTo(k) \o x /\ x \in Seq(STRING)
  BY <1>3, SaidAppend DEF ReadTo
<1>5. k + 1 \in 0..Len(script)
  BY <1>2
<1>6. /\ Full \in Seq(STRING) /\ ReadTo(k) \in Seq(STRING) /\ ReadTo(k + 1) \in Seq(STRING)
      /\ e \in 0..Len(Full) /\ g \in 0..Len(Full)
      /\ \A i \in 1..g : ReadTo(k + 1)[i] = Full[i]
  BY <1>5, ReadToIs
<1> DEFINE p == ReadTo(k)
           q == ReadTo(k + 1)
<1> HIDE DEF x, p, q, y, a
<1>7. /\ e = Len(p) /\ g = Len(q) /\ q = p \o x /\ p \in Seq(STRING) /\ q \in Seq(STRING)
      /\ \A i \in 1..g : q[i] = Full[i]
  BY <1>4, <1>6 DEF p, q
<1> HIDE DEF e, g
<1>8. e \in Nat /\ g \in Nat /\ Len(x) \in Nat /\ g = e + Len(x) /\ g <= Len(Full) /\ e <= g
  <2>1. Len(p \o x) = Len(p) + Len(x) /\ Len(x) \in Nat
    BY <1>4, <1>7
  <2>2. Len(Full) \in Nat
    BY <1>6
  <2> QED
    BY <1>6, <1>7, <2>1, <2>2
<1>9. \A i \in 1..Len(x) : e + i \in 1..g /\ q[e + i] = x[i]
  BY <1>4, <1>7, <1>8
<1> DEFINE w == SubSeq(Full, e + 1, g)
<1>10. Windowed(w, Full, e) /\ Len(w) = g - e
  BY <1>6, <1>8, WindowIs
<1>11. w \in Seq(STRING) /\ Len(w) = Len(x) /\ \A i \in 1..Len(x) : w[i] = Full[e + i]
  BY <1>8, <1>10 DEF Windowed
<1> HIDE DEF w
<1>12. w = x
  <2>1. x \in Seq(STRING) /\ w \in Seq(STRING) /\ Len(w) = Len(x)
    BY <1>4, <1>11
  <2>2. \A i \in 1..Len(w) : w[i] = x[i]
    BY <1>7, <1>9, <1>11
  <2> QED
    BY <2>1, <2>2, SameElements
<1> QED
  BY <1>3, <1>4, <1>8, <1>12 DEF e, g, w, x, y

\* A piece of a window of t is a window of t, and two that meet make one.
LEMMA WindowsMeet ==
    ASSUME NEW t \in Seq(STRING), NEW a \in Nat, NEW b \in Nat, NEW c \in Nat,
           a <= b, b <= c, c <= Len(t)
    PROVE  LET w == SubSeq(t, a + 1, c)
           IN  /\ SubSeq(t, a + 1, b) \o SubSeq(t, b + 1, c) = w
               /\ SubSeq(w, 1, b - a) = SubSeq(t, a + 1, b)
               /\ SubSeq(w, (b - a) + 1, Len(w)) = SubSeq(t, b + 1, c)
               /\ w \in Seq(STRING) /\ Len(w) = c - a
<1> DEFINE w == SubSeq(t, a + 1, c)
           u == SubSeq(t, a + 1, b)
           v == SubSeq(t, b + 1, c)
           k == b - a
<1>1. /\ Windowed(w, t, a) /\ Len(w) = c - a
      /\ Windowed(u, t, a) /\ Len(u) = b - a
      /\ Windowed(v, t, b) /\ Len(v) = c - b
  <2>1. a <= c
    OBVIOUS
  <2> QED
    BY <2>1, WindowIs
<1>2. /\ w \in Seq(STRING) /\ \A i \in 1..c - a : w[i] = t[a + i]
      /\ u \in Seq(STRING) /\ \A i \in 1..b - a : u[i] = t[a + i]
      /\ v \in Seq(STRING) /\ \A i \in 1..c - b : v[i] = t[b + i]
  BY <1>1 DEF Windowed
<1> HIDE DEF w, u, v
<1>3. k \in 0..Len(w) /\ k \in Nat /\ Len(w) - k = c - b /\ c - a = Len(u) + Len(v)
  BY <1>1
<1>4. u \o v = w
  <2>1. \A i \in 1..Len(u) : w[i] = u[i]
    <3> SUFFICES ASSUME NEW i \in 1..Len(u) PROVE w[i] = u[i]
      OBVIOUS
    <3>1. i \in 1..b - a /\ i \in 1..c - a
      BY <1>1
    <3> QED
      BY <1>2, <3>1
  <2>2. \A i \in 1..Len(v) : w[Len(u) + i] = v[i]
    <3> SUFFICES ASSUME NEW i \in 1..Len(v) PROVE w[Len(u) + i] = v[i]
      OBVIOUS
    <3>1. i \in 1..c - b /\ Len(u) + i \in 1..c - a /\ a + (Len(u) + i) = b + i
      BY <1>1
    <3> QED
      BY <1>2, <3>1
  <2>3. Len(w) = Len(u) + Len(v)
    BY <1>1, <1>3
  <2> QED
    BY <1>2, <2>1, <2>2, <2>3, JoinedIs
<1> DEFINE x == SubSeq(w, 1, k)
           y == SubSeq(w, k + 1, Len(w))
<1> HIDE DEF k
<1>5. /\ x \in Seq(STRING) /\ Len(x) = k /\ \A i \in 1..k : x[i] = w[i]
      /\ y \in Seq(STRING) /\ Len(y) = Len(w) - k /\ \A i \in 1..Len(w) - k : y[i] = w[k + i]
  BY <1>2, <1>3, Parts
<1> HIDE DEF x, y
<1>6. x = u
  <2>1. Len(x) = Len(u)
    BY <1>1, <1>5 DEF k
  <2>2. \A i \in 1..Len(x) : x[i] = u[i]
    <3> SUFFICES ASSUME NEW i \in 1..Len(x) PROVE x[i] = u[i]
      OBVIOUS
    <3>1. i \in 1..k /\ i \in 1..b - a /\ i \in 1..c - a
      BY <1>5 DEF k
    <3> QED
      BY <1>2, <1>5, <3>1
  <2> QED
    BY <1>2, <1>5, <2>1, <2>2, SameElements
<1>7. y = v
  <2>1. Len(y) = Len(v)
    BY <1>1, <1>3, <1>5
  <2>2. \A i \in 1..Len(y) : y[i] = v[i]
    <3> SUFFICES ASSUME NEW i \in 1..Len(y) PROVE y[i] = v[i]
      OBVIOUS
    <3>1. i \in 1..Len(w) - k /\ i \in 1..c - b /\ k + i \in 1..c - a /\ a + (k + i) = b + i
      BY <1>3, <1>5 DEF k
    <3>2. y[i] = w[k + i]
      BY <1>5, <3>1
    <3>3. w[k + i] = t[a + (k + i)] /\ v[i] = t[b + i]
      BY <1>2, <3>1
    <3> QED
      BY <3>1, <3>2, <3>3
  <2> QED
    BY <1>2, <1>5, <2>1, <2>2, SameElements
<1> QED
  BY <1>1, <1>2, <1>4, <1>6, <1>7 DEF w, u, v, x, y, k

\* The tail is what stands behind d and before e, and the delta goes on to g.
Fed(t, d, e, g) ==
    LET f == Feed(SubSeq(t, d + 1, e), SubSeq(t, e + 1, g))
    IN  \E c \in 0..g :
           /\ f.keep = SubSeq(t, c + 1, g) /\ Clean(t, c)
           /\ RestoreComplete(SubSeq(t, 1, d)) \o f.emit = RestoreComplete(SubSeq(t, 1, c))
           /\ DOMAIN Mapping = {} => c = g

\* What a delta lets through is what the text has more; the rest stays in the tail.
LEMMA FeedReads ==
    ASSUME NEW t \in Seq(STRING), NEW d \in Nat, NEW e \in Nat, NEW g \in Nat,
           d <= e, e <= g, g <= Len(t), Clean(t, d), DOMAIN Mapping = {} => d = e
    PROVE  Fed(t, d, e, g)
<1> DEFINE b == SubSeq(t, d + 1, e)
           x == SubSeq(t, e + 1, g)
           r(a) == RestoreComplete(SubSeq(t, 1, a))
<1>0. ASSUME NEW a \in Nat, a <= Len(t)
      PROVE  SubSeq(t, 1, a) \in Seq(STRING) /\ r(a) \in Seq(STRING)
  BY <1>0, ClippedIs, RestoreIsPieces DEF Windowed
<1>1. CASE DOMAIN Mapping = {}
  <2>1. Feed(b, x).keep = b /\ Feed(b, x).emit = x /\ d = e /\ d <= g /\ d <= Len(t) /\ e <= Len(t)
    BY <1>1 DEF Feed
  <2>2. b = SubSeq(t, g + 1, g)
    BY <2>1
  <2>3. SubSeq(t, 1, d) \o x = SubSeq(t, 1, g)
    <3>1. 0 \in Nat /\ 0 <= d /\ 0 + 1 = 1
      OBVIOUS
    <3>2. SubSeq(t, 0 + 1, d) \o SubSeq(t, d + 1, g) = SubSeq(t, 0 + 1, g)
      BY <2>1, <3>1, WindowsMeet
    <3> QED
      BY <2>1, <3>1, <3>2
  <2>4. r(d) \o x = r(g)
    <3>1. r(d) = SubSeq(t, 1, d) /\ r(g) = SubSeq(t, 1, g)
      BY <1>0, <1>1, <2>1, NothingRestored
    <3> QED
      BY <2>3, <3>1
  <2>5. Clean(t, g)
    BY <1>1 DEF Clean, Known
  <2>6. g \in 0..g
    OBVIOUS
  <2> QED
    BY <2>1, <2>2, <2>4, <2>5, <2>6 DEF Fed
<1>2. CASE DOMAIN Mapping # {} /\ x = <<>>
  <2>1. Feed(b, x).keep = b /\ Feed(b, x).emit = <<>>
    BY <1>2 DEF Feed
  <2>2. e = g /\ d \in 0..g /\ d <= Len(t)
    <3>1. Len(SubSeq(t, e + 1, g)) = g - e
      BY WindowIs
    <3>2. Len(x) = 0
      BY <1>2
    <3> QED
      BY <3>1, <3>2
  <2>3. r(d) \o <<>> = r(d)
    BY <1>0, <2>2, ConcatEmptySeq
  <2> QED
    BY <1>2, <2>1, <2>2, <2>3 DEF Fed
<1>3. CASE DOMAIN Mapping # {} /\ x # <<>>
  <2> DEFINE a == b \o x
             h == Held(a)
             c == g - h
  <2>1. a = SubSeq(t, d + 1, g) /\ a \in Seq(STRING) /\ Len(a) = g - d
    BY WindowsMeet
  <2>2. h \in 0..Len(a)
    BY <2>1, HeldBounded
  <2>3. Clean(t, c)
    <3>1. d <= g
      OBVIOUS
    <3> QED
      BY <2>1, <3>1, StaysClean
  <2>f. /\ Feed(b, x).emit = RestoreComplete(SubSeq(a, 1, Len(a) - h))
        /\ Feed(b, x).keep = SubSeq(a, (Len(a) - h) + 1, Len(a))
    BY <1>3 DEF Feed
  <2> HIDE DEF h
  <2>4. c \in Nat /\ d <= c /\ c <= g /\ c <= Len(t) /\ Len(a) - h = c - d /\ c \in 0..g
    BY <2>1, <2>2
  <2> HIDE DEF c
  <2>5. /\ SubSeq(a, 1, c - d) = SubSeq(t, d + 1, c)
        /\ SubSeq(a, (c - d) + 1, Len(a)) = SubSeq(t, c + 1, g)
    <3> DEFINE w == SubSeq(t, d + 1, g)
    <3>1. /\ SubSeq(w, 1, c - d) = SubSeq(t, d + 1, c)
          /\ SubSeq(w, (c - d) + 1, Len(w)) = SubSeq(t, c + 1, g)
      BY <2>4, WindowsMeet
    <3> HIDE DEF w, a
    <3>2. a = w
      BY <2>1 DEF w
    <3> QED
      BY <3>1, <3>2
  <2> HIDE DEF a
  <2>6. /\ Feed(b, x).emit = RestoreComplete(SubSeq(t, d + 1, c))
        /\ Feed(b, x).keep = SubSeq(t, c + 1, g)
    BY <2>f, <2>4, <2>5
  <2>7. r(d) \o RestoreComplete(SubSeq(t, d + 1, c)) = r(c)
    BY <2>4, RestoreSplits
  <2> QED
    BY <1>3, <2>3, <2>4, <2>6, <2>7 DEF Fed
<1> QED
  BY <1>1, <1>2, <1>3

\* The end of the text is no place inside a token.
LEMMA CleanEnd ==
    ASSUME NEW t \in Seq(STRING)
    PROVE  Clean(t, Len(t)) /\ Clean(t, 0)
<1>1. \A i \in 1..Len(t) : Known(t, i) => i + BodyLen + 2 <= Len(t)
  BY DEF Known, TokenAt
<1>2. 1..0 = {}
  OBVIOUS
<1> QED
  BY <1>1, <1>2 DEF Clean

\* What is left, restored, completes the text.
LEMMA RestReads ==
    ASSUME NEW t \in Seq(STRING), NEW d \in 0..Len(t), Clean(t, d)
    PROVE  /\ RestoreComplete(SubSeq(t, 1, d)) \o RestoreComplete(SubSeq(t, d + 1, Len(t)))
                = RestoreComplete(t)
           /\ RestoreComplete(SubSeq(t, 1, d)) \in Seq(STRING)
           /\ RestoreComplete(SubSeq(t, d + 1, Len(t))) \in Seq(STRING)
           /\ RestoreComplete(t) \in Seq(STRING)
<1>1. Len(t) \in Nat /\ d \in Nat /\ d <= Len(t)
  OBVIOUS
<1>2. SubSeq(t, 1, Len(t)) = t
  BY WholeIs
<1>3. RestoreComplete(SubSeq(t, 1, Len(t)))
        = RestoreComplete(SubSeq(t, 1, d)) \o RestoreComplete(SubSeq(t, d + 1, Len(t)))
  <2>1. Len(t) <= Len(t)
    BY <1>1
  <2> QED
    BY <1>1, <2>1, RestoreSplits
<1>4. SubSeq(t, 1, d) \in Seq(STRING) /\ SubSeq(t, d + 1, Len(t)) \in Seq(STRING)
  BY Parts
<1> QED
  BY <1>2, <1>3, <1>4, RestoreIsPieces

\* Of the first m characters of t those before some place d are heard, restored; b is the rest.
Hears(t, m, heard, b) ==
    \E d \in 0..m : /\ b = SubSeq(t, d + 1, m) /\ Clean(t, d)
                    /\ heard = RestoreComplete(SubSeq(t, 1, d))
                    /\ DOMAIN Mapping = {} => d = m

\* k events have been read: the client has heard them, but for the tail.
Heard(k) == Hears(Full, Len(ReadTo(k)), TextOf(out, 0), buf)

\* The whole text has been sent.
AllHeard == TextOf(out, 0) = RestoreComplete(Full) /\ buf = <<>>

\* The client has heard the events that have been read, and at the end all the text.
HeardInv == /\ \E k \in 0..Len(script) : Place(k) /\ Heard(k)
            /\ phase = "end" => AllHeard

\* Who has been sent all of a text, restored, has heard it.
LEMMA HearsAll ==
    ASSUME NEW t \in Seq(STRING)
    PROVE  Hears(t, Len(t), RestoreComplete(t), <<>>)
<1>1. SubSeq(t, 1, Len(t)) = t /\ Len(t) \in 0..Len(t) /\ SubSeq(t, Len(t) + 1, Len(t)) = <<>>
  OBVIOUS
<1> QED
  BY <1>1, CleanEnd DEF Hears

\* When the buffer is restored as well, the client has heard all.
LEMMA HearsRest ==
    ASSUME NEW t \in Seq(STRING), NEW heard, NEW b, Hears(t, Len(t), heard, b)
    PROVE  heard \o RestoreComplete(b) = RestoreComplete(t)
<1>1. PICK d \in 0..Len(t) : /\ b = SubSeq(t, d + 1, Len(t)) /\ Clean(t, d)
                             /\ heard = RestoreComplete(SubSeq(t, 1, d))
  BY DEF Hears
<1> QED
  BY <1>1, RestReads

\* At the start there is nothing to hear.
LEMMA TextFirst == SseInit => HeardInv
<1> SUFFICES ASSUME SseInit PROVE HeardInv
  OBVIOUS
<1>1. Place(0) /\ buf = <<>> /\ out = <<>> /\ phase = "reading"
  BY PlaceFirst
<1>2. script \in Scripts /\ 0 \in 0..Len(script)
  BY <1>1 DEF Place
<1>3. ReadTo(0) = <<>> /\ Full \in Seq(STRING)
  BY <1>2, ReadToEnds, ReadToIs
<1>4. TextOf(<<>>, 0) = <<>>
  <2>1. <<>> \in Seq(Sendable)
    OBVIOUS
  <2>2. SubSeq(script, 1, 0) = <<>>
    <3>1. script \in Seq(Event)
      BY <1>2, ScriptIs
    <3> QED
      BY <3>1, WholeIs
  <2> QED
    BY <1>3, <2>2 DEF ReadTo
<1>5. SubSeq(Full, 1, 0) = <<>> /\ SubSeq(Full, 0 + 1, 0) = <<>> /\ Len(<<>>) = 0 /\ 0 \in 0..0
  BY <1>3
<1>6. Heard(0)
  BY <1>1, <1>3, <1>4, <1>5, CleanEnd, NothingToRestore DEF Heard, Hears
<1> QED
  BY <1>1, <1>2, <1>6 DEF HeardInv

\* [DONE] and other data say nothing, and leave the tail alone in the tail.
LEMMA QuietHears ==
    ASSUME NEW k, script \in Scripts, k \in 0..Len(script), k + 1 \in 1..Len(script),
           out \in Seq(Sendable), Heard(k), Said(script[k + 1]) = <<>>, script' = script,
           out' = Append(out, script[k + 1]), buf' = buf
    PROVE  Heard(k + 1)'
<1> DEFINE y == script[k + 1]
           e == Len(ReadTo(k))
<1>1. /\ y \in Sendable /\ e \in Nat
      /\ Len(ReadTo(k + 1)) = e + Len(<<>>)
  BY ReadToNext
<1>2. Len(ReadTo(k + 1)) = e
  BY <1>1
<1>3. TextOf(out', 0) = TextOf(out, 0)
  <2>1. TextOf(out', 0) = TextOf(out, 0) \o <<>> /\ TextOf(out, 0) \in Seq(STRING)
    BY <1>1, SaidAppend, SaidIs
  <2> QED
    BY <2>1, ConcatEmptySeq
<1>4. PICK d \in 0..e : /\ buf = SubSeq(Full, d + 1, e) /\ Clean(Full, d)
                        /\ TextOf(out, 0) = RestoreComplete(SubSeq(Full, 1, d))
                        /\ DOMAIN Mapping = {} => d = e
  BY DEF Heard, Hears
<1>5. Full' = Full /\ Len(ReadTo(k + 1)') = e
  BY <1>2 DEF Full, ReadTo
<1> HIDE DEF e
<1> QED
  BY <1>3, <1>4, <1>5 DEF Heard, Hears

\* What is left is sent with [DONE], or at the end.
LEMMA LeftoverSaid ==
    ASSUME out \in Seq(Sendable), buf \in Seq(STRING)
    PROVE  /\ out \o Leftover \in Seq(Sendable)
           /\ TextOf(out \o Leftover, 0) = TextOf(out, 0) \o RestoreComplete(buf)
<1> DEFINE r == RestoreComplete(buf)
           x == Delta(0, r)
<1>1. x \in Sendable /\ ((Leftover = <<>> /\ r = <<>>) \/ Leftover = <<x>>)
  BY LeftoverIs
<1>2. Said(x) = r
  BY DEF Said, Delta
<1>3. TextOf(out, 0) \in Seq(STRING)
  BY SaidIs
<1> HIDE DEF x, r
<1>4. out \o <<>> = out /\ out \o <<x>> = Append(out, x) /\ Append(out, x) \in Seq(Sendable)
  BY <1>1, AppendIs
<1>5. CASE Leftover = <<>> /\ r = <<>>
  <2>1. TextOf(out, 0) \o <<>> = TextOf(out, 0)
    BY <1>3, ConcatEmptySeq
  <2> QED
    BY <1>4, <1>5, <2>1 DEF r
<1>6. CASE Leftover = <<x>>
  <2>1. TextOf(Append(out, x), 0) = TextOf(out, 0) \o r
    BY <1>1, <1>2, SaidAppend
  <2> QED
    BY <1>4, <1>6, <2>1 DEF r
<1> QED
  BY <1>1, <1>5, <1>6

\* Concatenation is associative (for text).
LEMMA TextsJoined ==
    ASSUME NEW a \in Seq(STRING), NEW b \in Seq(STRING), NEW c \in Seq(STRING)
    PROVE  (a \o b) \o c = a \o (b \o c)
  BY ConcatAssociative

\* When the text of a delta has been fed, the client has heard one event more.
LEMMA DeltaHears ==
    ASSUME ChoiceIds = {0}, NEW k, script \in Scripts, k \in 0..Len(script),
           k + 1 \in 1..Len(script), out \in Seq(Sendable), buf \in Seq(STRING), Heard(k),
           script' = script, SendDelta(script[k + 1]),
           phase = "tail" /\ DataLines(work') = {} => k + 1 = Len(script)
    PROVE  Heard(k + 1)'
<1> DEFINE y == script[k + 1]
           t == Full
           e == Len(ReadTo(k))
           g == Len(ReadTo(k + 1))
           x == y.text
           f == Feed(buf, x)
           s == TextOf(out, 0)
<1>1. y \in Event
  BY ScriptIs
<1>2. y.kind = "delta" /\ y.choice = 0 /\ Said(y) = x /\ x \in Seq(STRING)
  <2>1. y.kind = "delta"
    BY DEF SendDelta
  <2>2. y.choice \in ChoiceIds /\ y.text \in Seq(STRING)
    BY <1>1, <2>1, EventIs
  <2> QED
    BY <2>1, <2>2 DEF Said
<1>3. /\ e \in Nat /\ g \in Nat /\ g = e + Len(x) /\ g <= Len(t) /\ e <= g
      /\ x = SubSeq(t, e + 1, g)
  <2>1. /\ e \in Nat /\ g \in Nat /\ g = e + Len(Said(y)) /\ g <= Len(t)
        /\ Said(y) = SubSeq(t, e + 1, g)
    BY ReadToNext
  <2>2. Len(x) \in Nat
    BY <1>2
  <2> HIDE DEF x, e, g, t, y
  <2> QED
    BY <1>2, <2>1, <2>2
<1>4. t \in Seq(STRING) /\ s \in Seq(STRING)
  BY ReadToIs, SaidIs
<1>5. PICK d \in 0..e : /\ buf = SubSeq(t, d + 1, e) /\ Clean(t, d)
                        /\ s = RestoreComplete(SubSeq(t, 1, d))
                        /\ DOMAIN Mapping = {} => d = e
  BY DEF Heard, Hears
<1>6. /\ \/ out' = Append(out, Delta(0, f.emit)) /\ buf' = f.keep
         \/ /\ out' = Append(out, Delta(0, f.emit \o RestoreComplete(f.keep))) /\ buf' = <<>>
            /\ k + 1 = Len(script)
  BY <1>2 DEF SendDelta
<1>7. f.emit \in Seq(STRING) /\ f.keep \in Seq(STRING)
  BY <1>2, FeedTyped
<1>8. ASSUME NEW z \in Seq(STRING), out' = Append(out, Delta(0, z))
      PROVE  TextOf(out', 0) = s \o z
  <2>1. Delta(0, z) \in Sendable /\ Said(Delta(0, z)) = z
    BY SendableIs DEF Said, Delta
  <2> QED
    BY <1>8, <2>1, SaidAppend
<1>9. Full' = t /\ Len(ReadTo(k + 1)') = g
  BY DEF Full, ReadTo
<1> HIDE DEF y, t, e, g, x, f, s
<1>10. PICK c \in 0..g : /\ f.keep = SubSeq(t, c + 1, g) /\ Clean(t, c)
                         /\ s \o f.emit = RestoreComplete(SubSeq(t, 1, c))
                         /\ DOMAIN Mapping = {} => c = g
  <2>1. d \in Nat /\ d <= e
    BY <1>3
  <2>2. /\ e \in Nat /\ g \in Nat /\ e <= g /\ g <= Len(t) /\ t \in Seq(STRING)
        /\ x = SubSeq(t, e + 1, g)
    BY <1>3, <1>4
  <2>3. buf = SubSeq(t, d + 1, e) /\ Clean(t, d) /\ (DOMAIN Mapping = {} => d = e)
    BY <1>5
  <2>4. Fed(t, d, e, g)
    BY <2>1, <2>2, <2>3, FeedReads
  <2> QED
    BY <1>5, <2>2, <2>3, <2>4 DEF f, Fed
<1>11. CASE out' = Append(out, Delta(0, f.emit)) /\ buf' = f.keep
  <2>1. TextOf(out', 0) = s \o f.emit
    BY <1>7, <1>8, <1>11
  <2>2. Hears(t, g, TextOf(out', 0), buf')
    BY <1>10, <1>11, <2>1 DEF Hears
  <2> QED
    BY <1>9, <2>2 DEF Heard
<1>12. CASE /\ out' = Append(out, Delta(0, f.emit \o RestoreComplete(f.keep))) /\ buf' = <<>>
            /\ k + 1 = Len(script)
  <2> DEFINE p == f.emit
             q == RestoreComplete(f.keep)
  <2>1. p \in Seq(STRING) /\ q \in Seq(STRING)
    BY <1>7, RestoreIsPieces
  <2>2. p \o q \in Seq(STRING) /\ s \o (p \o q) = (s \o p) \o q
    <3> HIDE DEF p, q
    <3>1. p \o q \in Seq(STRING)
      BY <2>1
    <3>2. (s \o p) \o q = s \o (p \o q)
      BY <1>4, <2>1, TextsJoined
    <3> QED
      BY <3>1, <3>2
  <2>3. TextOf(out', 0) = s \o (p \o q)
    BY <1>8, <1>12, <2>2
  <2>4. g = Len(t)
    BY <1>12, ReadToEnds DEF g, t
  <2>5. Hears(t, g, s \o p, f.keep)
    BY <1>10 DEF Hears
  <2>6. (s \o p) \o q = RestoreComplete(t)
    <3> DEFINE h == s \o p
               b == f.keep
    <3>1. Hears(t, Len(t), h, b)
      BY <2>4, <2>5
    <3> HIDE DEF h, b
    <3>2. h \o RestoreComplete(b) = RestoreComplete(t)
      BY <1>4, <3>1, HearsRest
    <3> QED
      BY <3>2 DEF h, b
  <2>7. Hears(t, g, RestoreComplete(t), <<>>)
    BY <1>4, <2>4, HearsAll
  <2> QED
    BY <1>9, <1>12, <2>2, <2>3, <2>6, <2>7 DEF Heard
<1> QED
  BY <1>6, <1>11, <1>12

\* [DONE] before the end of the body sends all that is left.
LEMMA DoneHears ==
    ASSUME NEW k, script \in Scripts, k \in 0..Len(script), k + 1 = Len(script),
           k + 1 \in 1..Len(script), out \in Seq(Sendable), buf \in Seq(STRING), Heard(k),
           script' = script, script[k + 1] = Done,
           out' = out \o Leftover \o <<script[k + 1]>>, buf' = <<>>
    PROVE  Heard(k + 1)'
<1> DEFINE y == script[k + 1]
           t == Full
           s == TextOf(out, 0)
<1>1. Said(y) = <<>>
  BY DEF Said, Done
<1>2. y \in Sendable /\ ReadTo(k + 1) = t /\ t \in Seq(STRING) /\ Len(ReadTo(k)) = Len(t)
  <2>1. /\ y \in Sendable /\ Len(ReadTo(k)) \in Nat
        /\ Len(ReadTo(k + 1)) = Len(ReadTo(k)) + Len(<<>>)
    BY <1>1, ReadToNext
  <2>2. ReadTo(k + 1) = t /\ t \in Seq(STRING)
    BY ReadToEnds, ReadToIs
  <2> QED
    BY <2>1, <2>2
<1>3. s \o RestoreComplete(buf) = RestoreComplete(t)
  <2>1. Hears(t, Len(t), s, buf)
    BY <1>2 DEF Heard
  <2> HIDE DEF t, s
  <2> QED
    BY <1>2, <2>1, HearsRest
<1>4. TextOf(out', 0) = RestoreComplete(t)
  <2> DEFINE o == out \o Leftover
  <2>1. o \in Seq(Sendable) /\ TextOf(o, 0) = s \o RestoreComplete(buf)
    BY LeftoverSaid
  <2> HIDE DEF o, y
  <2>2. out' = Append(o, y)
    BY <1>2, <2>1, AppendIs DEF o, y
  <2>3. TextOf(Append(o, y), 0) = TextOf(o, 0) \o <<>> /\ TextOf(o, 0) \in Seq(STRING)
    BY <1>1, <1>2, <2>1, SaidAppend, SaidIs
  <2> QED
    BY <1>3, <2>1, <2>2, <2>3, ConcatEmptySeq
<1>5. Hears(t, Len(t), RestoreComplete(t), <<>>)
  BY <1>2, HearsAll
<1>6. Full' = t /\ ReadTo(k + 1)' = ReadTo(k + 1)
  BY DEF Full, ReadTo
<1> HIDE DEF t
<1> QED
  BY <1>2, <1>4, <1>5, <1>6 DEF Heard

\* Every step of the reader keeps what the client has heard up with what was read ...
LEMMA TextNext == ChoiceIds = {0} /\ ReaderInv /\ HeardInv /\ [SseNext]_sseVars => HeardInv'
<1> SUFFICES ASSUME ChoiceIds = {0}, ReaderInv, HeardInv, [SseNext]_sseVars PROVE HeardInv'
  OBVIOUS
<1>1. PICK k \in 0..Len(script) : Place(k) /\ Heard(k)
  BY DEF HeardInv
<1>2. script \in Scripts /\ k \in 0..Len(script) /\ (phase = "end" => AllHeard)
  BY <1>1 DEF Place, HeardInv
<1>3. buf \in Seq(STRING) /\ out \in Seq(Sendable)
  BY DEF ReaderInv
<1>4. ASSUME NEW j, Place(j)', Heard(j)', phase' = "end" => AllHeard' PROVE HeardInv'
  BY <1>4 DEF HeardInv, Place
<1>5. CASE /\ Place(k)' /\ buf' = buf /\ out' = out /\ script' = script
           /\ phase' = "end" => phase = "end"
  <2>1. Heard(k)' /\ (phase' = "end" => AllHeard')
    BY <1>1, <1>2, <1>5 DEF Heard, Full, ReadTo, AllHeard
  <2> QED
    BY <1>4, <1>5, <2>1
<1>6. CASE /\ Place(k + 1)' /\ k + 1 \in 1..Len(script) /\ script' = script
           /\ phase' = phase /\ phase # "end"
           /\ phase = "tail" /\ DataLines(work') = {} => k + 1 = Len(script)
           /\ SendDone(script[k + 1]) \/ SendDelta(script[k + 1]) \/ SendOther(script[k + 1])
  <2> DEFINE y == script[k + 1]
  <2>1. y \in Event /\ (y = Done => k + 1 = Len(script))
    BY <1>2, <1>6, ScriptIs
  <2>2. CASE SendDelta(y)
    <3>1. Heard(k + 1)'
      BY <1>1, <1>2, <1>3, <1>6, <2>2, DeltaHears
    <3> QED
      BY <1>4, <1>6, <3>1
  <2>3. CASE SendOther(y) \/ (SendDone(y) /\ phase # "reading")
    <3>1. out' = Append(out, y) /\ buf' = buf /\ y.kind # "delta"
      BY <2>3 DEF SendOther, SendDone
    <3>2. Said(y) = <<>>
      BY <3>1 DEF Said
    <3>3. Heard(k + 1)'
      BY <1>1, <1>2, <1>3, <1>6, <3>1, <3>2, QuietHears
    <3> QED
      BY <1>4, <1>6, <3>3
  <2>4. CASE SendDone(y) /\ phase = "reading"
    <3>1. y = Done /\ k + 1 = Len(script)
      BY <2>1, <2>4, EventIs DEF SendDone
    <3>2. out' = out \o Leftover \o <<y>> /\ buf' = <<>>
      BY <2>4 DEF SendDone
    <3>3. Heard(k + 1)'
      BY <1>1, <1>2, <1>3, <1>6, <3>1, <3>2, DoneHears
    <3> QED
      BY <1>4, <1>6, <3>3
  <2> QED
    BY <1>6, <2>2, <2>3, <2>4
<1>7. CASE /\ Place(k)' /\ k = Len(script) /\ script' = script
           /\ out' = out \o Leftover /\ buf' = <<>>
  <2>1. ReadTo(k) = Full /\ Full \in Seq(STRING)
    BY <1>2, <1>7, ReadToEnds, ReadToIs
  <2>2. TextOf(out, 0) \o RestoreComplete(buf) = RestoreComplete(Full)
    BY <1>1, <2>1, HearsRest DEF Heard
  <2>3. TextOf(out', 0) = RestoreComplete(Full)
    BY <1>3, <1>7, <2>2, LeftoverSaid
  <2>4. Full' = Full /\ ReadTo(k)' = ReadTo(k)
    BY <1>7 DEF Full, ReadTo
  <2>5. Hears(Full, Len(Full), RestoreComplete(Full), <<>>)
    BY <2>1, HearsAll
  <2>6. Heard(k)' /\ AllHeard'
    BY <1>7, <2>1, <2>3, <2>4, <2>5 DEF Heard, AllHeard
  <2> QED
    BY <1>4, <1>7, <2>6
<1> QED
  BY <1>1, <1>5, <1>6, <1>7, PlaceNext

\* ... which is what ReadsRestoredText asks for.
LEMMA TextShown ==
    ASSUME ChoiceIds = {0}, HeardInv
    PROVE  ReadsRestoredText
<1>1. PICK k \in 0..Len(script) : Place(k) /\ Heard(k)
  BY DEF HeardInv
<1>2. script \in Scripts /\ k \in 0..Len(script)
  BY <1>1 DEF Place
<1>3. Full \in Seq(STRING) /\ Len(ReadTo(k)) \in 0..Len(Full) /\ Wanted(0) = RestoreComplete(Full)
  BY <1>2, ReadToIs DEF Wanted, Full
<1>4. PICK d \in 0..Len(ReadTo(k)) : /\ TextOf(out, 0) = RestoreComplete(SubSeq(Full, 1, d))
                                     /\ Clean(Full, d)
  BY <1>1 DEF Heard, Hears
<1> DEFINE a == TextOf(out, 0)
           b == RestoreComplete(SubSeq(Full, d + 1, Len(Full)))
<1>5. Wanted(0) = a \o b /\ a \in Seq(STRING) /\ b \in Seq(STRING)
  <2>1. d \in 0..Len(Full)
    BY <1>3
  <2> QED
    BY <1>3, <1>4, <2>1, RestReads
<1>6. IsPrefix(a, Wanted(0))
  <2> HIDE DEF a, b
  <2>1. Len(a) <= Len(a \o b) /\ SubSeq(a, 1, Len(a)) = a /\ SubSeq(a \o b, 1, Len(a)) = a
    BY <1>5
  <2> QED
    BY <1>5, <2>1 DEF IsPrefix
<1>7. phase = "end" => TextOf(out, 0) = Wanted(0)
  BY <1>3 DEF HeardInv, AllHeard
<1> QED
  BY <1>6, <1>7 DEF ReadsRestoredText

\* What the client has read is always a beginning of the restored text, and at the end all
\* of it, when the answer has one choice.
THEOREM ReadsRestoredTextHolds ==
    ASSUME ChoiceIds = {0}
    PROVE  SseSpec => []ReadsRestoredText
<1>1. HeardInv => ReadsRestoredText
  BY TextShown
<1>2. ReaderInv /\ HeardInv /\ [SseNext]_sseVars => HeardInv'
  BY TextNext
<1> QED
  BY <1>1, <1>2, ReaderFirst, ReaderNext, TextFirst, PTL DEF SseSpec
================================================================================
