------------------------------- MODULE SseStream -------------------------------
(* The streamed answer: iter_sse reads raw text from the upstream in pieces the *)
(* network chooses, splits it at blank lines, parses every block                *)
(* (parse_sse_chunk), feeds the text of every delta through                     *)
(* SlidingTokenRestorer (infrastructure/upstream/sse.py) and sends an event for *)
(* every event.                                                                 *)
(*                                                                              *)
(* Raw text is a sequence of marks: CR and LF for the characters of a line end, *)
(* and a positive number for the data line of that event of the script.  The   *)
(* text of a delta is a sequence of characters; the opening "[LV_" of an opaque *)
(* token is shortened to "[" "_" and its 26 body characters to BodyLen.        *)
EXTENDS Integers, Sequences, SequencesExt

CONSTANTS
    Scripts,   \* what the upstream may answer: sequences of events
    Endings,   \* line ends it may use
    Tails,     \* how many characters of the last blank line it may leave out
    BodyLen,   \* characters in the body of a token
    Body,      \* the characters a body is made of
    Mapping,   \* token -> its value, the mapping of this request
    ChoiceIds  \* indices of the choices an answer may have

CR == -1
LF == 0

NewLine == "nl"  \* the newline of a delta's text

Done == [kind |-> "done"]
Delta(c, t) == [kind |-> "delta", choice |-> c, text |-> t]
Other == [kind |-> "other"]  \* any other data

Event == {Done, Other} \union [kind : {"delta"}, choice : ChoiceIds, text : Seq(STRING)]

\* [DONE] is the last event of an answer; the characters of a body are of base 32.
ASSUME SseAssumption ==
    /\ Scripts \subseteq Seq(Event)
    /\ \A s \in Scripts : \A i \in DOMAIN s : s[i] = Done => i = Len(s)
    /\ Endings \subseteq {<<LF>>, <<CR, LF>>} /\ Tails \subseteq 0..2
    /\ BodyLen \in Nat \ {0} /\ Body \subseteq STRING \ {"[", "_", "]", NewLine}
    /\ \A tk \in DOMAIN Mapping : Mapping[tk] \in Seq(STRING)

VARIABLES
    script,    \* the events of this answer
    wire,      \* raw text that has not been read yet
    pending,   \* iter_sse's `pending`
    work,      \* what is left of the block that is being parsed
    buf,       \* the restorer's `_buf`
    out,       \* the events sent to the client
    phase      \* "reading", then "tail", the text after the last blank line, then "end"

sseVars == <<script, wire, pending, work, buf, out, phase>>
--------------------------------------------------------------------------------
(* SlidingTokenRestorer                                                        *)

\* A token begins at character i of s.
TokenAt(s, i) ==
    /\ i + BodyLen + 2 <= Len(s)
    /\ s[i] = "[" /\ s[i + 1] = "_" /\ s[i + BodyLen + 2] = "]"
    /\ \A k \in i + 2..i + BodyLen + 1 : s[k] \in Body

\* What begins at i may become a token.
OpenAt(s, i) ==
    /\ Len(s) <= i + BodyLen + 1
    /\ s[i] = "["
    /\ i < Len(s) => s[i + 1] = "_"
    /\ \A k \in i + 2..Len(s) : s[k] \in Body

Token(s, i) == SubSeq(s, i, i + BodyLen + 2)
Known(s, i) == TokenAt(s, i) /\ Token(s, i) \in DOMAIN Mapping

\* _restore_complete: every complete token is replaced by its value; a token that is not
\* in the mapping stays.  (No two tokens overlap: only the first character is a "[".)
RestoreComplete(s) ==
    LET restored(i) == IF Known(s, i) THEN Mapping[Token(s, i)]
                       ELSE IF \E j \in 1..i : Known(s, j) /\ i <= j + BodyLen + 2 THEN <<>>
                       ELSE <<s[i]>>
    IN  FlattenSeq([i \in DOMAIN s |-> restored(i)])

\* `$` also matches before a newline at the end.
Shown(s) == IF s # <<>> /\ Last(s) = NewLine THEN Front(s) ELSE s

\* a suffix test that misses an opening whose body is complete
HeldShort(s) ==
    LET openings == {i \in DOMAIN Shown(s) : OpenAt(Shown(s), i) /\ Len(Shown(s)) < i + BodyLen + 1}
    IN  IF openings = {} THEN 0 ELSE Len(Shown(s)) - (CHOOSE i \in openings : TRUE) + 1

\* a restorer that keeps everything from the last "[" on
HeldFromBracket(s) ==
    LET brackets == {i \in DOMAIN s : s[i] = "["}
    IN  IF brackets = {} THEN 0 ELSE Len(s) - Max(brackets) + 1

\* `hold`: the length of what _INCOMPLETE finds.
Held(s) ==
    LET openings == {i \in DOMAIN Shown(s) : OpenAt(Shown(s), i)}
    IN  IF openings = {} THEN 0 ELSE Len(Shown(s)) - (CHOOSE i \in openings : TRUE) + 1

\* feed(chunk) from buffer b: what is emitted and what is kept.
Feed(b, chunk) ==
    IF chunk = <<>> \/ DOMAIN Mapping = {}
    THEN [emit |-> chunk, keep |-> b]
    ELSE LET all == b \o chunk
             cut == Len(all) - Held(all)
         IN  [emit |-> RestoreComplete(SubSeq(all, 1, cut)),
              keep |-> SubSeq(all, cut + 1, Len(all))]
--------------------------------------------------------------------------------
(* Framing                                                                     *)

\* a reader that leaves line ends as they are
NormalizeNot(raw) == raw

\* str.replace("\r\n", "\n")
Normalize(raw) ==
    FlattenSeq([i \in DOMAIN raw |->
        IF raw[i] = CR /\ i < Len(raw) /\ raw[i + 1] = LF THEN <<>> ELSE <<raw[i]>>])

\* Where the blank lines of s end.
BlankLines(s) == {i \in 2..Len(s) : s[i - 1] = LF /\ s[i] = LF}
DataLines(s) == {i \in DOMAIN s : s[i] > 0}

\* Where the first event of s ends: parse_sse_chunk splits at blank lines, drops what
\* is empty, and joins the data lines between two of them.
EventEnd(s) ==
    LET ends == {i \in BlankLines(s) : \E j \in DataLines(s) : j < i}
    IN  IF ends = {} THEN Len(s) ELSE Min(ends)

\* One data line is that event of the script; several are garbled.
Decoded(lines) == IF \E n \in lines : lines = {n} THEN script[CHOOSE n \in lines : TRUE]
                  ELSE [kind |-> "garbled"]

\* The raw text of a script: each event is a data line, its end and a blank line.
RawOf(s, ending, missing) ==
    LET whole == FlattenSeq([i \in DOMAIN s |-> <<i>> \o ending \o ending])
    IN  SubSeq(whole, 1, Len(whole) - missing)

SseInit == /\ script \in Scripts
           /\ \E e \in Endings, m \in Tails : wire = RawOf(script, e, m)
           /\ pending = <<>> /\ work = <<>>
           /\ buf = <<>>
           /\ out = <<>>
           /\ phase = "reading"

\* `async for raw in resp.aiter_text()`: a piece arrives when the last one is used up.
Receive ==
    /\ phase = "reading" /\ DataLines(work) = {} /\ BlankLines(pending) = {}
    /\ \E k \in 1..Len(wire) :
          /\ pending' = pending \o Normalize(SubSeq(wire, 1, k))
          /\ wire' = SubSeq(wire, k + 1, Len(wire))
    /\ UNCHANGED <<script, work, buf, out, phase>>

\* `while "\n\n" in pending`
NextBlock ==
    /\ phase = "reading" /\ DataLines(work) = {} /\ BlankLines(pending) # {}
    /\ LET cut == Min(BlankLines(pending))
       IN  /\ work' = Normalize(SubSeq(pending, 1, cut))
           /\ pending' = SubSeq(pending, cut + 1, Len(pending))
    /\ UNCHANGED <<script, wire, buf, out, phase>>

\* The body is over: what is left is parsed as if a blank line followed.
EndOfBody ==
    /\ phase = "reading" /\ DataLines(work) = {} /\ BlankLines(pending) = {}
    /\ wire = <<>>
    /\ work' = Normalize(pending \o <<LF, LF>>)
    /\ pending' = <<>>
    /\ phase' = "tail"
    /\ UNCHANGED <<script, wire, buf, out>>

\* flush(), and an event of its own for what it returns.
Leftover == IF RestoreComplete(buf) = <<>> THEN <<>> ELSE <<Delta(0, RestoreComplete(buf))>>

\* [DONE] flushes; in the tail it does not.
SendDone(e) ==
    /\ e.kind = "done"
    /\ IF phase = "reading" THEN out' = out \o Leftover \o <<e>> /\ buf' = <<>>
       ELSE out' = Append(out, e) /\ UNCHANGED buf

\* restore_sse_data_json: the last event of the tail flushes.
SendDelta(e) ==
    /\ e.kind = "delta"
    /\ LET f == Feed(buf, e.text)
       IN  IF phase = "tail" /\ DataLines(work') = {}
           THEN /\ out' = Append(out, Delta(e.choice, f.emit \o RestoreComplete(f.keep)))
                /\ buf' = <<>>
           ELSE out' = Append(out, Delta(e.choice, f.emit)) /\ buf' = f.keep

SendOther(e) ==
    /\ e.kind \notin {"done", "delta"}
    /\ out' = Append(out, e)
    /\ UNCHANGED buf

\* The next event of the block.
NextEvent ==
    /\ DataLines(work) # {}
    /\ LET end == EventEnd(work)
           e == Decoded({work[i] : i \in {j \in DataLines(work) : j <= end}})
       IN  /\ work' = SubSeq(work, end + 1, Len(work))
           /\ SendDone(e) \/ SendDelta(e) \/ SendOther(e)
    /\ UNCHANGED <<script, wire, pending, phase>>

\* What the restorer still holds is sent last.
Flush ==
    /\ phase = "tail" /\ DataLines(work) = {}
    /\ out' = out \o Leftover
    /\ buf' = <<>>
    /\ phase' = "end"
    /\ UNCHANGED <<script, wire, pending, work>>

SseNext == Receive \/ NextBlock \/ EndOfBody \/ NextEvent \/ Flush

SseSpec == SseInit /\ [][SseNext]_sseVars
--------------------------------------------------------------------------------

TextOf(events, c) ==
    FlattenSeq([i \in DOMAIN events |->
        IF events[i].kind = "delta" /\ events[i].choice = c THEN events[i].text ELSE <<>>])

\* What the client should read in choice c: the complete tokens of its text restored.
Wanted(c) == RestoreComplete(TextOf(script, c))

\* ADR-005: "Restore only complete opaque tokens in assistant text, using a bounded
\* sliding tail."  However deltas and reads cut the text, what the client of a choice
\* has read is always a beginning of the restored text of that choice, never a broken
\* token, and in the end it is all of it.
ReadsRestoredText ==
    \A c \in ChoiceIds :
        /\ IsPrefix(TextOf(out, c), Wanted(c))
        /\ phase = "end" => TextOf(out, c) = Wanted(c)

\* The tail is bounded: never more than one character less than a token is held.
TailBounded == Len(buf) <= BodyLen + 2

\* The events of the answer come out one for one and in order, whatever the line
\* ends and wherever reads cut them (also between \r and \n): no two are joined and
\* none is lost; one event with leftover text may be added.
EventsInOrder ==
    LET shape(s) == [i \in DOMAIN s |->
                        IF s[i].kind = "delta" THEN s[i].choice ELSE -1]
        sent == {out} \union {RemoveAt(out, i) : i \in DOMAIN out}
    IN  \E s \in sent : /\ IsPrefix(shape(s), shape(script))
                        /\ phase = "end" => Len(s) = Len(script)
=============================================================================
