------------------------------- MODULE Redaction -------------------------------
(* From what the detectors report about one text to the text that goes out.     *)
(* Two ways use it: a text part of a chat request (dlp/transformer.py) and a     *)
(* prompt that an MCP client has protected (scan.py and Vault.sanitize).         *)
(* The text is a row of characters, the rules and models that find something in   *)
(* it are outside: they may report anything that Catalogue and Verdicts list.     *)
EXTENDS Integers, Sequences, FiniteSets

CONSTANTS
    Paths,       \* the ways to take: "proxy", "protect"
    TextLen,     \* characters of the text
    Catalogue,   \* kinds of findings of the rules and of Presidio
    Answers,     \* kinds of findings of the local LLM
    \* bounds of the model
    MaxReports,  \* on findings of rules and Presidio
    MaxVerdicts, \* on findings of the LLM
    MaxBoth      \* on both together

BENIGN == 0
SECRET == 4
ConfidentAt == 2

\* A kind of finding: who found it, its tier, its confidence, whether it is the
\* catch-all rule "generic-api-key", and whether the proxy redacts its type.
Kinds == [source : {"secrets", "pii", "llm"}, tier : BENIGN..SECRET, conf : Nat,
          generic : BOOLEAN, dlp : BOOLEAN]

Findings == {f \in [kind : Kinds, from : 0..TextLen, to : 0..TextLen] : f.from < f.to}

\* What is found: a kind of the list at any place.
Found(kinds) ==
    {[kind |-> k, from |-> s[1], to |-> s[2]] :
        k \in kinds, s \in {s \in (0..TextLen) \X (0..TextLen) : s[1] < s[2]}}

\* Sets of up to n members.
UpTo(n, S) == {{}} \union {{f[i] : i \in 1..n} : f \in [1..n -> S]}

ASSUME RedactionAssumption ==
    /\ Paths \subseteq {"proxy", "protect"}
    /\ TextLen \in Nat \ {0}
    /\ Catalogue \subseteq {k \in Kinds : \/ k.source = "secrets" /\ k.tier = SECRET
                                          \/ k.source = "pii" /\ k.tier \in 1..3}
    /\ Answers \subseteq {k \in Kinds : k.source = "llm"}
    /\ MaxReports \in Nat /\ MaxVerdicts \in Nat /\ MaxBoth \in Nat

VARIABLES
    path,       \* which way the text takes
    reports,    \* what detect() of the rules and of Presidio return
    pass,       \* where the code is
    given,      \* the argument of the resolve_overlaps that runs
    todo,       \* what its loop, or the replacement, has still to do
    kept,       \* what its loop has kept
    found,      \* the findings of the passes that are over
    verdicts,   \* what the LLM has answered
    spans,      \* what is to be replaced
    text,       \* the text as it is now
    outcome     \* what becomes of it

vars == <<path, reports, pass, given, todo, kept, found, verdicts, spans, text, outcome>>

\* A piece of the text: a character as it was, or the replacement of a stretch.
Pieces == [from : 0..TextLen, to : 0..TextLen, raw : BOOLEAN]
Character(i) == [from |-> i - 1, to |-> i, raw |-> TRUE]
Replacement(s) == [from |-> s.from, to |-> s.to, raw |-> FALSE]

\* Types of the variables; no replacement makes the text longer.
TypeOK == /\ path \in Paths
          /\ reports \subseteq Found(Catalogue)
          /\ pass \in {"secrets", "pii", "both", "ask", "merge", "spans", "sanitize",
                       "replace", "done"}
          /\ given \subseteq Findings /\ todo \subseteq Findings /\ kept \subseteq Findings
          /\ found \subseteq Findings
          /\ verdicts \subseteq Found(Answers)
          /\ spans \subseteq Findings
          /\ text \in Seq(Pieces) /\ Len(text) <= TextLen
          /\ outcome \in {"none", "redacted", "allowed", "blocked", "failed"}

From(source) == {f \in reports : f.kind.source = source}

Init == /\ path \in Paths
        /\ reports \in UpTo(MaxReports, Found(Catalogue))
        /\ pass = "secrets"
        /\ given = From("secrets") /\ todo = From("secrets") /\ kept = {}
        /\ found = {} /\ verdicts = {} /\ spans = {}
        /\ text = [i \in 1..TextLen |-> Character(i)]
        /\ outcome = "none"
--------------------------------------------------------------------------------
(* resolve_overlaps, and the loop of _merge_spans                              *)

NeedsEscalation(f) == f.kind.source # "llm" /\ f.kind.conf < ConfidentAt
Apart(f, g) == f.to <= g.from \/ f.from >= g.to

\* Lexicographic order of two rows of numbers.
Less(a, b) == \E k \in DOMAIN a : a[k] < b[k] /\ \A j \in 1..(k - 1) : a[j] = b[j]

Flag(b) == IF b THEN 1 ELSE 0

\* a ranking in which length goes before tier
RankByLength(f) == <<f.from - f.to, -f.kind.tier, -f.kind.conf, Flag(f.kind.generic), f.from>>

\* a ranking that prefers what is unsure
RankUnsureFirst(f) ==
    <<-f.kind.tier, f.kind.conf, Flag(f.kind.generic), f.from - f.to, f.from>>

\* Higher tier, then higher confidence, then not the catch-all, then longer.
Rank(f) == <<-f.kind.tier, -f.kind.conf, Flag(f.kind.generic), f.from - f.to, f.from>>

\* _merge_spans goes through the text instead.
Position(f) == <<f.from, f.from - f.to>>

Precedes(f, g) == IF pass = "spans" THEN Less(Position(f), Position(g))
                                    ELSE Less(Rank(f), Rank(g))

Clear(f) == \A k \in kept : Apart(f, k)

\* One turn of the loop.
Consider ==
    /\ pass \in {"secrets", "pii", "both", "merge", "spans"}
    /\ \E f \in todo :
          /\ \A g \in todo : ~Precedes(g, f)
          /\ todo' = todo \ {f}
          /\ kept' = IF Clear(f) THEN kept \union {f} ELSE kept
    /\ UNCHANGED <<path, reports, pass, given, found, verdicts, spans, text, outcome>>

Ended(p) == pass = p /\ todo = {}
Start(p, fs) == pass' = p /\ given' = fs /\ todo' = fs /\ kept' = {}
Stop(result) == /\ pass' = "done"
                /\ outcome' = result
                /\ UNCHANGED <<path, reports, given, todo, kept, found, verdicts, spans, text>>
--------------------------------------------------------------------------------
(* The detectors                                                               *)

\* detect_secrets ends; detect_pii begins.  The proxy goes on only without secrets.
SecretsDone == /\ Ended("secrets")
               /\ path = "proxy" => kept = {}
               /\ found' = kept
               /\ Start("pii", From("pii"))
               /\ UNCHANGED <<path, reports, verdicts, spans, text, outcome>>

\* classify_content blocks a part with a secret.
Block == Ended("secrets") /\ path = "proxy" /\ kept # {} /\ Stop("blocked")

\* scan() resolves both lists again, together.
Join == /\ Ended("pii") /\ path = "protect"
        /\ Start("both", found \union kept)
        /\ UNCHANGED <<path, reports, found, verdicts, spans, text, outcome>>

\* The proxy redacts names, addresses and telephone numbers among the findings ...
Classify == /\ Ended("pii") /\ path = "proxy"
            /\ \E f \in kept : f.kind.dlp
            /\ Start("spans", {f \in kept : f.kind.dlp})
            /\ UNCHANGED <<path, reports, found, verdicts, spans, text, outcome>>

\* ... and lets a text without them pass.
Allow == Ended("pii") /\ path = "proxy" /\ (\A f \in kept : ~f.kind.dlp) /\ Stop("allowed")

\* A detector raises, or the vault does; the proxy blocks a prompt injection too.
\* No text leaves: the proxy blocks the part, protect raises.
Refuse == pass # "done" /\ Stop(IF path = "proxy" THEN "blocked" ELSE "failed")
--------------------------------------------------------------------------------
(* The local LLM                                                               *)

JoinDone == /\ Ended("both")
            /\ found' = kept
            /\ pass' = "ask"
            /\ UNCHANGED <<path, reports, given, todo, kept, verdicts, spans, text, outcome>>

\* The LLM is not asked, or its answer cannot be used.
Skip == /\ pass = "ask"
        /\ spans' = found
        /\ pass' = "sanitize"
        /\ UNCHANGED <<path, reports, given, todo, kept, found, verdicts, text, outcome>>

Spoken(f, V) == \E v \in V : ~Apart(f, v)
Confident(F) == {f \in F : ~NeedsEscalation(f)}

\* a merge in which the LLM may speak about confident findings too
MergedOverrides(F, V) ==
    {f \in F : ~Spoken(f, V)} \union {v \in V : v.kind.tier # BENIGN}

\* a merge in which a verdict that does not count still drops unsure findings
MergedDropsAll(F, V) ==
    LET counted == {v \in V : ~Spoken(v, Confident(F))}
    IN  Confident(F)
        \union {v \in counted : v.kind.tier # BENIGN}
        \union {f \in F \ Confident(F) : ~Spoken(f, V)}

\* merge(): a verdict counts unless it is about a confident finding; it replaces the
\* unsure findings it is about, and a benign one is dropped after that.
Merged(F, V) ==
    LET counted == {v \in V : ~Spoken(v, Confident(F))}
    IN  Confident(F)
        \union {v \in counted : v.kind.tier # BENIGN}
        \union {f \in F \ Confident(F) : ~Spoken(f, counted)}

Ask == /\ pass = "ask"
       /\ \E V \in {V \in UpTo(MaxVerdicts, Found(Answers)) :
                      Cardinality(V) + Cardinality(reports) <= MaxBoth} :
             /\ verdicts' = V
             /\ Start("merge", Merged(found, V))
       /\ UNCHANGED <<path, reports, found, spans, text, outcome>>

MergeDone == /\ Ended("merge")
             /\ spans' = kept
             /\ pass' = "sanitize"
             /\ UNCHANGED <<path, reports, given, todo, kept, found, verdicts, text, outcome>>
--------------------------------------------------------------------------------
(* The replacement                                                             *)

SpansDone == /\ Ended("spans")
             /\ spans' = kept
             /\ todo' = kept
             /\ pass' = "replace"
             /\ UNCHANGED <<path, reports, given, kept, found, verdicts, text, outcome>>

\* The same find at another place.
At(f, i) == [kind |-> f.kind, from |-> i, to |-> i + (f.to - f.from)]

\* Vault.sanitize looks for the text of each finding elsewhere and takes what is in
\* nobody's way.
Occurrence == /\ pass = "sanitize"
              /\ \E f \in spans, i \in 0..TextLen :
                    /\ At(f, i).to <= TextLen
                    /\ \A s \in spans : Apart(At(f, i), s)
                    /\ spans' = spans \union {At(f, i)}
              /\ UNCHANGED <<path, reports, pass, given, todo, kept, found, verdicts, text,
                             outcome>>

Sanitize == /\ pass = "sanitize"
            /\ todo' = spans
            /\ pass' = "replace"
            /\ UNCHANGED <<path, reports, given, kept, found, verdicts, spans, text, outcome>>

\* a splice that leaves the last character of the stretch
SpliceByOne(from, to, piece) ==
    SubSeq(text, 1, from) \o <<piece>> \o SubSeq(text, to, Len(text))

\* The text with what is now between two offsets cut out and a piece put in.
Splice(from, to, piece) ==
    SubSeq(text, 1, from) \o <<piece>> \o SubSeq(text, to + 1, Len(text))

\* replacement from left to right
IsNextLeft(s) == \A t \in todo : s.from <= t.from

\* From right to left, so that the offsets of the others stay valid.
IsNext(s) == \A t \in todo : t.from <= s.from

Replace == /\ pass = "replace"
           /\ \E s \in todo :
                 /\ IsNext(s)
                 /\ text' = Splice(s.from, s.to, Replacement(s))
                 /\ todo' = todo \ {s}
           /\ UNCHANGED <<path, reports, pass, given, kept, found, verdicts, spans, outcome>>

Finish == Ended("replace") /\ Stop("redacted")
--------------------------------------------------------------------------------

Next == \/ Consider \/ SecretsDone \/ Block \/ Join \/ Classify \/ Allow \/ Refuse
        \/ JoinDone \/ Skip \/ Ask \/ MergeDone
        \/ SpansDone \/ Occurrence \/ Sanitize \/ Replace \/ Finish

Spec == Init /\ [][Next]_vars
--------------------------------------------------------------------------------

Chars(f) == f.from .. (f.to - 1)
Shares(f, g) == Chars(f) \intersect Chars(g) # {}

Length(f) == f.to - f.from

\* "higher tier, then higher confidence, then longer span": the order in which
\* resolve_overlaps says it prefers two findings on the same characters.
Outranks(k, f) ==
    \/ k.kind.tier > f.kind.tier
    \/ /\ k.kind.tier = f.kind.tier
       /\ k.kind.conf > f.kind.conf
    \/ /\ k.kind.tier = f.kind.tier
       /\ k.kind.conf = f.kind.conf
       /\ Length(k) >= Length(f)

\* The order it does not say: of two sure of the same, the catch-all rule gives way.
MoreSpecific(k, f) ==
    /\ k.kind.tier = f.kind.tier
    /\ k.kind.conf = f.kind.conf
    /\ f.kind.generic /\ ~k.kind.generic

StandsBefore(k, f) == k.from < f.from \/ (k.from = f.from /\ k.to >= f.to)

Resolving == pass \in {"secrets", "pii", "both", "merge"}
GivenUp == given \ (todo \union kept)

\* "Two findings on the same characters must not both survive. Keep one" (findings.py:62):
\* what a pass has kept shares no character, and what it has dropped shares one with
\* something kept that is of a higher tier, or of the same and surer, or as sure and not
\* shorter - or, whatever the lengths, that is not the catch-all rule.  (In the loop of
\* _merge_spans: that stands before it.)
Resolved ==
    /\ \A f, g \in kept : f # g => ~Shares(f, g)
    /\ Resolving => \A f \in GivenUp : \E k \in kept :
          Shares(f, k) /\ (Outranks(k, f) \/ MoreSpecific(k, f))
    /\ pass = "spans" => \A f \in GivenUp : \E k \in kept :
          Shares(f, k) /\ StandsBefore(k, f)

\* "Keep one: higher tier, then higher confidence, then longer span" (findings.py:62-63):
\* whatever is dropped gives way to something kept that is to be preferred in this order.
DocumentedOrder ==
    Resolving => \A f \in GivenUp : \E k \in kept : Shares(f, k) /\ Outranks(k, f)

\* The text that goes out is the old one from its beginning to its end: the
\* replacements stand for exactly the spans, and every other character is there,
\* once and in its place, though each replacement moves what comes after it.
RightText ==
    outcome = "redacted" =>
        /\ \A k \in DOMAIN text :
              text[k].from = IF k = 1 THEN 0 ELSE text[k - 1].to
        /\ text[Len(text)].to = TextLen
        /\ \A k \in DOMAIN text :
              IF text[k].raw THEN \A s \in spans : text[k].from \notin Chars(s)
                             ELSE \E s \in spans : text[k] = Replacement(s)

Merging == path = "protect" /\ (pass \in {"sanitize", "replace"} \/ outcome = "redacted")

\* "confident detector finding -> always keep, llm never override it": whatever the
\* LLM says about it or beside it, it is replaced.
ConfidentStays == Merging => Confident(found) \subseteq spans

\* "silence is not safe": an unsure finding is replaced unless the LLM has spoken
\* about it, in a verdict that concerns no confident finding and that is either
\* benign or itself replaced, or shares characters with what is.
UnsureAccounted ==
    Merging =>
        \A f \in found \ spans :
            \E v \in verdicts : /\ Shares(v, f)
                                /\ \A c \in Confident(found) : ~Shares(v, c)
                                /\ \/ v.kind.tier = BENIGN
                                   \/ \E s \in spans : Shares(v, s)

\* No text with a confident secret goes out through the proxy, and through protect
\* only with that secret, or another one on the same characters, replaced: three
\* passes and the LLM do not lose it to personal data that lies across it.
SecretsStay ==
    outcome \in {"allowed", "redacted"} =>
        \A r \in reports :
            (r.kind.tier = SECRET /\ ~NeedsEscalation(r)) =>
                /\ path = "protect"
                /\ \E s \in spans : s.kind.tier = SECRET /\ Shares(r, s)

\* "Internal PII -> redact with opaque tokens": a name, an address or a telephone
\* number that a detector has reported is redacted, or one that is on the same
\* characters is.
InternalIsRedacted ==
    outcome \in {"allowed", "redacted"} =>
        \A r \in reports : r.kind.dlp => \E s \in spans : Shares(r, s)
=============================================================================
