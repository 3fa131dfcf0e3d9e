------------------------------ MODULE Patterns ------------------------------
(***************************************************************************)
(* Technology patterns (fingerprint/patterns): what a pattern means, its   *)
(* version template, and the literal index that replaces one regex search  *)
(* per pattern by one scan per text.                                       *)
(*                                                                         *)
(* A pattern is its text up to the first "\;" and the parts behind it, each *)
(* a key with its text and its number.  What is matched, the body, is a    *)
(* sequence of tokens: letters, "." and "|", "\\." for an escaped          *)
(* punctuation mark, "[]" for any other atom (a class, a group), "(" for a *)
(* group that is not closed, "?" and "+" for an optional and a             *)
(* non-optional quantifier, "u" for a letter outside ASCII.  A text is a   *)
(* sequence of characters.  Case is folded throughout, as in the code.     *)
(***************************************************************************)
EXTENDS Integers, FiniteSets, SequencesExt

CONSTANTS
    NoVersion,
    MIN_PATTERN_CONFIDENCE,
    MIN_PREFIX_LEN

Miss == [matched |-> FALSE, version |-> NoVersion]
Hit(v) == [matched |-> TRUE, version |-> v]
Tokens(body) == {body[i] : i \in 1 .. Len(body)}
FirstIn(s, set) == LET at == {i \in 1 .. Len(s) : s[i] \in set} IN IF at = {} THEN Len(s) + 1 ELSE Min(at)
TrimBlanks(s) ==
    LET solid == {i \in 1 .. Len(s) : s[i] # " "}
    IN IF solid = {} THEN <<>> ELSE SubSeq(s, Min(solid), Max(solid))

----------------------------------------------------------------------------
(* The regex engine, external: does a body match somewhere in a text?      *)

Quantifiers == {"?", "+"}

\* The words of atoms a branch stands for, repetitions up to the texts' length.
Grow(words, token) ==
    CASE token = "?" -> words \cup {Front(w) : w \in words}
      [] token = "+" -> words \cup {w \o <<Last(w)>> : w \in words}
                              \cup {w \o <<Last(w), Last(w)>> : w \in words}
      [] token = ".*" -> {w \o any : w \in words, any \in {<<>>, <<".">>, <<".", ".">>, <<".", ".", ".">>}}
      [] OTHER -> {Append(w, token) : w \in words}
Words(branch) == FoldLeft(Grow, {<<>>}, branch)

\* The branches between the alternation marks.
Branches(body) ==
    LET bars == {i \in 1 .. Len(body) : body[i] = "|"}
        Ends == {0, Len(body) + 1} \cup bars
    IN {SubSeq(body, b[1] + 1, b[2] - 1) :
          b \in {e \in Ends \X Ends : e[1] < e[2] /\ \A k \in bars : k <= e[1] \/ k >= e[2]}}

AtomMatches(atom, ch) == atom \in {".", "[]"} \/ (atom = "\\." /\ ch = ".") \/ atom = ch
Compiles(body) == "(" \notin Tokens(body)
\* regex::escape
Escaped(text) == [i \in 1 .. Len(text) |-> CASE text[i] = "." -> "\\." [] text[i] = "|" -> "\\|" [] OTHER -> text[i]]

OccursAt(word, text, i, Same(_, _)) ==
    /\ i + Len(word) - 1 <= Len(text)
    /\ \A j \in 1 .. Len(word) : Same(word[j], text[i + j - 1])

RegexMatches(body, text) ==
    IF body # <<>> /\ Head(body) = "^" /\ Last(body) = "$"
    THEN \E w \in Words(SubSeq(body, 2, Len(body) - 1)) : Len(w) = Len(text) /\ OccursAt(w, text, 1, AtomMatches)
    ELSE
    \E b \in Branches(body) : \E w \in Words(b) : \E i \in 1 .. Len(text) + 1 :
        OccursAt(w, text, i, AtomMatches)

Equal(a, b) == a = b
Includes(text, needle) == \E i \in 1 .. Len(text) + 1 : OccursAt(needle, text, i, Equal)

----------------------------------------------------------------------------
(* version.rs: the version template of a regex match, a sequence of        *)
(* placeholders and texts.  The captures are a sequence with NoVersion for *)
(* a group that did not match; captured text is a sequence of words.       *)

Group(n) == [group |-> n, text |-> <<>>]
Text(words) == [group |-> 0, text |-> words]
PlainWords(parts) == FlattenSeq([i \in 1 .. Len(parts) |-> parts[i].text])

\* replace_placeholders; what is left of them is removed.
Substitute(parts, captures) ==
    FoldLeft(LAMBDA out, x :
                IF x.group \in 1 .. Len(captures) /\ captures[x.group] # NoVersion
                THEN out \o captures[x.group]
                ELSE out \o x.text,
             <<>>, parts)

\* The parts behind "?", before and after the first ":" there.
NoTernary == <<>>
parse_ternary_expression(parts) ==
    LET q == FirstIn(parts, {Text(<<"?">>)})
        rest == SubSeq(parts, q + 1, Len(parts))
        c == FirstIn(rest, {Text(<<":">>)})
    IN IF q > Len(parts) \/ c > Len(rest) THEN NoTernary
       ELSE <<SubSeq(rest, 1, c - 1), SubSeq(rest, c + 1, Len(rest))>>

\* evaluate_version_ternary: the true part when the regex has groups at all,
\* whether they took part in the match or not; an empty true part stands for
\* the other one.
evaluate_version_ternary(parts, captures) ==
    LET t == parse_ternary_expression(parts)
    IN IF t = NoTernary THEN PlainWords(parts)
       ELSE Substitute(IF t[1] # <<>> /\ Len(captures) > 0 THEN t[1] ELSE t[2], captures)

\* extract_version_from_template: an empty result is no version, and a capture
\* with a semicolon is cut there unless the template has several placeholders.
extract_version_from_template(parts, captures) ==
    LET ternary == FirstIn(parts, {Text(<<"?">>)}) <= Len(parts)
        text == IF ternary THEN evaluate_version_ternary(parts, captures) ELSE Substitute(parts, captures)
        trimmed == TrimBlanks(text)
        semi == FirstIn(trimmed, {";"})
        first == TrimBlanks(SubSeq(trimmed, 1, semi - 1))
        groups == {x.group : x \in Tokens(parts)} \ {0}
    IN CASE groups = {} /\ TrimBlanks(PlainWords(parts)) = <<>> -> NoVersion
         [] text = <<>> -> NoVersion
         [] semi <= Len(trimmed) /\ first # <<>> /\ Cardinality(groups) <= 1 -> first
         [] OTHER -> trimmed

----------------------------------------------------------------------------
(* mod.rs and compiled.rs: one pattern against one text.                   *)

NotANumber == -1
IsEmptyPattern(raw) == raw.head = <<>> /\ raw.parts = <<>>

\* The first version counts, and the last confidence that is a number.
parse_pattern(raw) ==
    LET versions == SelectSeq(raw.parts, LAMBDA x : x.key = "version")
        numbers == SelectSeq(raw.parts, LAMBDA x : x.key = "confidence" /\ x.number # NotANumber)
    IN [body |-> TrimBlanks(raw.head),
        version |-> IF versions = <<>> THEN NoVersion ELSE Head(versions).text,
        confidence |-> IF numbers = <<>> THEN 100 ELSE Last(numbers).number]
parse_technology_reference(raw) == <<parse_pattern(raw).body, parse_pattern(raw).version>>

\* A dot, a bar or a brace alone does not make a pattern a regex.
is_regex_pattern(body) == Tokens(body) \cap {"\\.", "[]", "(", "?", "+"} # {}

\* An empty body matches anything, and its version can only be a literal one.
handle_empty_pattern(template) ==
    IF template = NoVersion THEN Hit(NoVersion)
    ELSE IF (\E x \in Tokens(template) : x.group # 0) \/ TrimBlanks(PlainWords(template)) = <<>> THEN Hit(NoVersion)
    ELSE Hit(TrimBlanks(PlainWords(template)))

\* The bodies in the samples have no groups: there are no captures.
evaluate_regex(body, template, text) ==
    CASE ~RegexMatches(body, text) -> Miss
      [] template = NoVersion -> Hit(NoVersion)
      [] OTHER -> Hit(extract_version_from_template(template, <<>>))

\* get_or_compile_regex: the cache is a function of the key alone.
NoPattern == [any |-> FALSE, presence_only |-> FALSE, body |-> <<>>, version |-> NoVersion]
get_or_compile_regex(cache, source, key) ==
    LET regex == IF key \in DOMAIN cache THEN cache[key] ELSE source
    IN [regex |-> IF Compiles(regex) THEN regex ELSE <<>>,
        cache |-> [k \in DOMAIN cache \cup (IF Compiles(regex) THEN {key} ELSE {}) |-> IF k = key THEN regex ELSE cache[k]]]
NoCache == [k \in {} |-> <<>>]

\* matches_pattern: the pattern on its own; low confidence never matches, a
\* regex that does not compile neither, and a plain string has no version.
matches_pattern(cache, raw, text) ==
    LET p == parse_pattern(raw)
        source == IF is_regex_pattern(p.body) THEN p.body ELSE Escaped(p.body)
        re == get_or_compile_regex(cache, source, p.body).regex
    IN CASE p.confidence < MIN_PATTERN_CONFIDENCE -> Miss
         [] p.confidence >= MIN_PATTERN_CONFIDENCE /\ p.body = <<>> -> handle_empty_pattern(p.version)
         [] p.confidence >= MIN_PATTERN_CONFIDENCE /\ p.body # <<>> /\ re # <<>> ->
               evaluate_regex(re, IF is_regex_pattern(p.body) THEN p.version ELSE NoVersion, text)
         [] OTHER -> Miss

\* compile_pattern: NoPattern for one that can never match.
compile_pattern(raw) ==
    LET p == parse_pattern(raw)
        source == IF is_regex_pattern(p.body) THEN p.body ELSE Escaped(p.body)
    IN CASE IsEmptyPattern(raw) -> [NoPattern EXCEPT !.any = TRUE, !.presence_only = TRUE]
         [] ~IsEmptyPattern(raw) /\ p.confidence < MIN_PATTERN_CONFIDENCE -> NoPattern
         [] ~IsEmptyPattern(raw) /\ p.confidence >= MIN_PATTERN_CONFIDENCE /\ p.body = <<>> ->
               [NoPattern EXCEPT !.any = TRUE, !.version = p.version]
         [] OTHER -> IF ~Compiles(source) THEN NoPattern
                     ELSE [NoPattern EXCEPT !.body = source,
                                            !.version = IF is_regex_pattern(p.body) THEN p.version ELSE NoVersion]

\* CompiledPattern::evaluate.
evaluate(c, text) ==
    IF c.any THEN handle_empty_pattern(c.version) ELSE evaluate_regex(c.body, c.version, text)

\* absorb_meta_hit, consider_cookie, apply_step: the first version stays.
Absorb(acc, result) ==
    [matched |-> acc.matched \/ result.matched,
     version |-> IF acc.version = NoVersion /\ result.matched THEN result.version ELSE acc.version]

\* Patterns are tried in order until one yields a version.
Absorbed(results) ==
    FoldLeft(LAMBDA acc, r : IF acc.version # NoVersion THEN acc ELSE Absorb(acc, r), Miss, results)

----------------------------------------------------------------------------
(* literals.rs: the index over the needles of a channel.                   *)

NoNeedle == <<>>

\* unescape_escaped_literal
Literally(body) == [i \in 1 .. Len(body) |-> IF body[i] = "\\." THEN "." ELSE body[i]]

\* ascii_literal_needle: a body that is just text, escaped punctuation included.
ascii_literal_needle(body) ==
    IF "u" \in Tokens(body) THEN NoNeedle
    ELSE IF ~is_regex_pattern(body) THEN body
    ELSE IF Tokens(body) \cap {".", "|", "[]", "(", "?", "+"} # {} THEN NoNeedle
    ELSE Literally(body)

\* Mutated form: the character before an optional quantifier is kept.
PrefixKeepsOptional(body) ==
    LET stop == FirstIn(body, {"|", ".", "[]", "(", "?", "+", "u"})
        prefix == IF stop <= Len(body) /\ body[stop] = "|" THEN <<>> ELSE SubSeq(body, 1, stop - 1)
    IN IF Len(prefix) >= MIN_PREFIX_LEN THEN Literally(prefix) ELSE NoNeedle

\* mandatory_prefix: up to the first atom that is not a plain character; an
\* alternation met by then leaves no prefix, an optional quantifier takes the
\* character before it back.
mandatory_prefix(body) ==
    LET stop == FirstIn(body, {"|", ".", "[]", "(", "?", "+", "u"})
        at == IF stop <= Len(body) THEN body[stop] ELSE "end"
        prefix == CASE at = "|" -> <<>>
                    [] at = "?" -> SubSeq(body, 1, stop - 2)
                    [] OTHER -> SubSeq(body, 1, stop - 1)
    IN IF Len(prefix) >= MIN_PREFIX_LEN THEN Literally(prefix) ELSE NoNeedle

\* compile_step: a pattern's step; one that can never match is skipped, though its
\* prefix is in the index.
Step(kind, needle, pattern) == [kind |-> kind, needle |-> needle, pattern |-> pattern]
regex_step(raw, needle) == Step(IF compile_pattern(raw) = NoPattern THEN "skip" ELSE "regex", needle, compile_pattern(raw))
compile_step(raw) ==
    LET p == parse_pattern(raw)
        needle == ascii_literal_needle(p.body)
    IN IF p.confidence < MIN_PATTERN_CONFIDENCE THEN Step("skip", NoNeedle, NoPattern)
       ELSE IF p.body = <<>> THEN Step("any", NoNeedle, [NoPattern EXCEPT !.any = TRUE, !.version = p.version])
       ELSE IF needle = NoNeedle THEN regex_step(raw, mandatory_prefix(p.body))
       ELSE IF is_regex_pattern(p.body) /\ p.version # NoVersion THEN regex_step(raw, needle)
       ELSE Step("literal", needle, NoPattern)
compile_steps(patterns) ==
    SelectSeq([i \in 1 .. Len(patterns) |-> compile_step(patterns[i])], LAMBDA step : step.kind # "skip")

\* LiteralIndex::build: the needles of all patterns of a channel.
Needles(patterns) == {compile_step(p).needle : p \in patterns} \ {NoNeedle}

\* scan_channel: the automaton reports the match that ends first, of two that
\* end together the longer, and goes on behind it.
scan_channel(needles, text) ==
    LET End(m) == m[1] + Len(m[2]) - 1
        From(i) == {m \in (i .. Len(text)) \X needles : OccursAt(m[2], text, m[1], Equal)}
        First(found) == CHOOSE m \in found :
            \A o \in found : End(m) < End(o) \/ (End(m) = End(o) /\ m[1] <= o[1])
        hits[i \in 1 .. Len(text) + 1] ==
            IF From(i) = {} THEN {} ELSE {First(From(i))[2]} \cup hits[End(First(From(i))) + 1]
    IN hits[1]

\* apply_step.
apply_step(step, hits, text) ==
    CASE step.kind = "any" -> handle_empty_pattern(step.pattern.version)
      [] step.kind = "literal" -> IF step.needle \in hits THEN Hit(NoVersion) ELSE Miss
      [] step.kind = "regex" ->
            IF step.needle # NoNeedle /\ step.needle \notin hits THEN Miss ELSE evaluate(step.pattern, text)

\* match_channel: a technology's patterns against a text, through the index
\* that it shares with all other technologies.
match_channel(patterns, others, text) ==
    LET hits == scan_channel(Needles(ToSet(patterns) \cup others), text)
        steps == compile_steps(patterns)
    IN Absorbed([i \in 1 .. Len(steps) |-> apply_step(steps[i], hits, text)])

\* The same without an index.
MatchDirectly(patterns, text) ==
    Absorbed([i \in 1 .. Len(patterns) |-> matches_pattern(NoCache, patterns[i], text)])
=============================================================================
