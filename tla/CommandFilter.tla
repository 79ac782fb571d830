---------------------------- MODULE CommandFilter ----------------------------
(***************************************************************************)
(* The command filter of an SSH shell.  filteringReader stands between the *)
(* client's keystrokes and the target's standard input: it hands a line on *)
(* when its end has come, unless the first rule that matches it rejects    *)
(* it, and then tells the client.  What arrives is cut anywhere, and so is *)
(* what the copying goroutine takes.                                       *)
(*                                                                         *)
(* A byte is the letter of a word, a blank, a control character or the end *)
(* of a line; a pattern is a text to be found in the line.                 *)
(***************************************************************************)
EXTENDS Integers, FiniteSets, SequencesExt, FiniteSetsExt

CONSTANTS Bytes,      \* what a client may type
          Blanks, Controls, LineEnds,   \* disjoint sets of these
          RuleLists,  \* what the API may return: sequences of
                      \* [pattern, compiles, action]
          Buffer,     \* the size of the caller's buffer
          MaxBytes    \* bound: bytes of a session

VARIABLES
    rules,     \* the compiled rules of the shell, in order
    line,      \* the line being collected
    buf,       \* what may be read
    delivered, \* what the target was given
    notices,   \* the rules the client was told of
    ended,     \* the source has returned an error or EOF, and so has Read
    typed      \* history: all that came from the client

vars == <<rules, line, buf, delivered, notices, ended, typed>>

-----------------------------------------------------------------------------
(* commandFilter *)

\* A control character does not hide a word; blanks around it do not matter.
StripControls(text) == SelectSeq(text, LAMBDA b : b \notin Controls)
TrimSpace(text) ==
    LET solid == {i \in DOMAIN text : text[i] \notin Blanks \union LineEnds}
    IN IF solid = {} THEN <<>> ELSE SubSeq(text, Min(solid), Max(solid))

\* An empty pattern and one that does not compile are left out, and a rule
\* without an action rejects.
Compiled(loaded) ==
    LET kept == SelectSeq(loaded, LAMBDA rule : /\ TrimSpace(rule.pattern) # <<>>
                                                /\ rule.compiles)
    IN [i \in DOMAIN kept |-> IF kept[i].action = ""
                               THEN [kept[i] EXCEPT !.action = "reject"]
                               ELSE kept[i]]

HasText(text, pattern) ==
    \E from \in 1..(Len(text) - Len(pattern) + 1) :
       SubSeq(text, from, from + Len(pattern) - 1) = pattern

\* The number of the first rule that matches; 0 if none does.
Match(text) ==
    LET trimmed == TrimSpace(StripControls(text))
        found == {i \in DOMAIN rules : HasText(trimmed, rules[i].pattern)}
    IN IF found = {} THEN 0 ELSE Min(found)

Rejects(rule) == rule # 0 /\ rules[rule].action \in {"deny", "reject"}

-----------------------------------------------------------------------------
(* filteringReader *)

Init == /\ \E loaded \in RuleLists : rules = Compiled(loaded)
        /\ line = <<>> /\ buf = <<>> /\ delivered = <<>> /\ notices = <<>>
        /\ ended = FALSE /\ typed = <<>>

\* One turn of the loop over the bytes of a chunk.
Collect(state, b) ==
    LET full == Append(state.line, b)
        rule == Match(full)
    IN IF b \notin LineEnds THEN [state EXCEPT !.line = full]
       ELSE IF Rejects(rule)
            THEN [state EXCEPT !.line = <<>>,
                               !.notices = Append(@, rule)]
            ELSE [state EXCEPT !.line = <<>>, !.buf = @ \o full]

MutantFreshLine(chunk) ==
    FoldLeft(Collect, [line |-> <<>>, buf |-> buf, notices |-> notices], chunk)
\* What a line has so far is kept from chunk to chunk.
WriteFiltered(chunk) ==
    FoldLeft(Collect, [line |-> line, buf |-> buf, notices |-> notices], chunk)

\* Without rules the bytes are not looked at.
Passed(chunk) == IF rules # <<>> THEN WriteFiltered(chunk)
                 ELSE [line |-> <<>>, buf |-> chunk, notices |-> <<>>]

\* Read: as long as there is nothing to hand on, the source is read.
Arrive(chunk) ==
    /\ buf = <<>> /\ ~ended
    /\ Len(typed) + Len(chunk) <= MaxBytes
    /\ LET after == Passed(chunk)
       IN /\ line' = after.line /\ buf' = after.buf
          /\ notices' = after.notices
    /\ typed' = typed \o chunk
    /\ UNCHANGED <<rules, delivered, ended>>

\* With the last bytes the source may return its error: what has passed is
\* handed on first, and the error comes again with the next read.
End == /\ buf = <<>> /\ ~ended
       /\ ended' = TRUE
       /\ UNCHANGED <<rules, line, buf, delivered, notices, typed>>

Hand == /\ buf # <<>>
        /\ LET n == Min({Len(buf), Buffer})
           IN /\ delivered' = delivered \o SubSeq(buf, 1, n)
              /\ buf' = SubSeq(buf, n + 1, Len(buf))
        /\ UNCHANGED <<rules, line, notices, ended, typed>>

Next == \/ \E chunk \in SeqOf(Bytes, Buffer) \ {<<>>} : Arrive(chunk)
        \/ End \/ Hand

Spec == Init /\ [][Next]_vars

TypeOK == /\ \A text \in {line, buf, delivered, typed} : text \in Seq(Bytes)
          /\ notices \in Seq(DOMAIN rules)
          /\ ended \in BOOLEAN

-----------------------------------------------------------------------------
(* Properties *)

\* Where the lines of a text end, where the one that ends at e begins, and the
\* line itself, with its end.
Ends(text) == {i \in DOMAIN text : text[i] \in LineEnds}
Begin(text, e) == Max({0} \union {i \in Ends(text) : i < e}) + 1
LineAt(text, e) == SubSeq(text, Begin(text, e), e)

\* The sequence of f's values, for a function f on numbers.
Lists(values, f) ==
    /\ Len(values) = Cardinality(DOMAIN f)
    /\ \A i \in DOMAIN f :
          values[Cardinality({j \in DOMAIN f : j <= i})] = f[i]

\* However the bytes are cut, the target is given exactly the lines whose
\* first matching rule does not reject them, in order and whole, and the
\* client is told of each of the others; the two ends of a CR LF are two
\* lines.  A line without an end stays in the proxy, also when the client has
\* gone (filter.go:135-180).
FilteredAsWhole ==
    LET rejected == {e \in Ends(typed) : Rejects(Match(LineAt(typed, e)))}
        given == UNION {Begin(typed, e)..e : e \in Ends(typed) \ rejected}
    IN IF rules = <<>> THEN delivered \o buf = typed ELSE
       /\ Lists(delivered \o buf, [i \in given |-> typed[i]])
       /\ Lists(notices, [e \in rejected |-> Match(LineAt(typed, e))])
       /\ line = SubSeq(typed, Begin(typed, Len(typed) + 1), Len(typed))
=============================================================================
