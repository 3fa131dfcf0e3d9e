------------------------------ MODULE Secrets -------------------------------
(***************************************************************************)
(* Exposed secrets (parse/secrets.rs, parse/gitleaks.rs, parse/jwt.rs):    *)
(* the rules, the keyword prefilter, the filters a match passes, and what  *)
(* is reported beside it.                                                  *)
(*                                                                         *)
(* A text is a sequence of bytes.  A character of two bytes is its lead    *)
(* byte and Cont; words whose spelling does not matter (a tag, a marker)   *)
(* are one byte.  Offsets count from 0 and slices are half open, as in the *)
(* code.                                                                   *)
(***************************************************************************)
EXTENDS Integers, FiniteSets, SequencesExt, Functions

CONSTANTS
    CONTEXT_CHARS,
    MAX_CONTEXT_BYTES,
    ELLIPSIS_LEN,
    MAX_LINE_WINDOW_BYTES,
    GENERIC_API_KEY_MIN_LEN,
    GENERIC_API_KEY_HEX_MIN_LEN,
    GENERIC_API_KEY_MIN_ENTROPY,      \* entropies in thousandths of a bit
    GENERIC_API_KEY_HEX_MIN_ENTROPY,
    PRIVATE_KEY_MIN_DECODED_BODY,
    PEM_LONG_BODY,
    HTTP_BASIC_MIN_DECODED_LEN,
    I64_MAX,
    Nothing                           \* None

Cont == "~"
LowerHex == {"a", "b"}
LowerOther == {"k", "t"}
Upper == {"A", "K"}
Digits == {"1", "2"}
Lower(c) == CASE c = "A" -> "a" [] c = "K" -> "k" [] OTHER -> c
Alphabetic == LowerHex \cup LowerOther \cup Upper
Alphanumeric == Alphabetic \cup Digits
Hexadecimal == LowerHex \cup {"A"} \cup Digits

Slice(text, a, b) == SubSeq(text, a + 1, b)
BytesOf(text) == {text[i] : i \in 1 .. Len(text)}
HasByte(text, bytes) == BytesOf(text) \cap bytes # {}
FoldedAt(word, text, i) ==
    i + Len(word) <= Len(text) /\ \A j \in 1 .. Len(word) : word[j] \in {"#", Lower(text[i + j])}
FoldedIn(word, text) == \E i \in 0 .. Len(text) : FoldedAt(word, text, i)
TrimEnd(text, bytes) ==
    SubSeq(text, 1, CHOOSE n \in 0 .. Len(text) : /\ n = 0 \/ text[n] \notin bytes
                                                 /\ \A i \in n + 1 .. Len(text) : text[i] \in bytes)
Trim(text) == Reverse(TrimEnd(Reverse(TrimEnd(text, {"sp"})), {"sp"}))
StartsWith(text, first) == text # <<>> /\ text[1] = first

is_char_boundary(text, i) == i = Len(text) \/ text[i + 1] # Cont
BoundaryDown(text, i) == CHOOSE j \in 0 .. i : is_char_boundary(text, j) /\ \A k \in j + 1 .. i : ~is_char_boundary(text, k)
BoundaryUp(text, i) == CHOOSE j \in i .. Len(text) : is_char_boundary(text, j) /\ \A k \in i .. j - 1 : ~is_char_boundary(text, k)
Least(a, b) == IF a < b THEN a ELSE b
Greatest(a, b) == IF a > b THEN a ELSE b
Below(a, b) == Greatest(a - b, 0)

----------------------------------------------------------------------------
(* gitleaks.rs: the rules.  A regex is [word, tail, groups], read without  *)
(* regard to case, "#" for any byte; the tail is the boundary that must    *)
(* follow the word; groups are slices of the match.  An expression that    *)
(* does not compile, or is not given, is Nothing.                          *)

\* The bytes a boundary accepts, besides the end of the text.
Boundary(tail) == CASE tail = "upstream" -> {"'", "nl", ";"} [] tail = "relaxed" -> {"'", "nl", ";", "<", "&"}
relax_trailing_boundary(regex) == [regex EXCEPT !.tail = IF @ = "upstream" THEN "relaxed" ELSE @]

compile_allowlist_regexes(words) == words \ {Nothing}
compile_global_allowlist(words) == IF words = Nothing THEN {} ELSE compile_allowlist_regexes(words)
parse_condition(c) == c \in {"AND", "&&"}
compile_rule_allowlist(raw) ==
    [words |-> compile_allowlist_regexes(raw.words), target |-> raw.target,
     condition_and |-> parse_condition(raw.condition), has_paths |-> raw.paths # {}]
CompiledRule(raw, regex) ==
    [id |-> raw.id, regex |-> regex, entropy |-> raw.entropy, secret_group |-> raw.secret_group,
     path |-> raw.path, ids |-> Nothing,
     keywords |-> {[i \in DOMAIN k |-> Lower(k[i])] : k \in raw.keywords},
     allowlists |-> {compile_rule_allowlist(a) : a \in raw.allowlists}]
compile_rule(raw) == CompiledRule(raw, relax_trailing_boundary(raw.regex))
Compilable(raw) == raw.regex # Nothing

\* Rules given as a table, in key order.  Of a block of allowlists the first goes to
\* the rule before it; the others, or all where there is none, wait, one for each of
\* the rules that follow.
rules_from_table(table) ==
    LET Block(acc, lists) ==
            IF lists # <<>> /\ acc.out # <<>>
            THEN [out |-> [acc.out EXCEPT ![Len(acc.out)].allowlists = @ \cup {lists[1]}],
                  pending |-> acc.pending \o Tail(lists)]
            ELSE [acc EXCEPT !.pending = @ \o lists]
        Rule(acc, raw) ==
            IF acc.pending = <<>> THEN [acc EXCEPT !.out = Append(@, raw)]
            ELSE [out |-> Append(acc.out, [raw EXCEPT !.allowlists = {acc.pending[1]}]), pending |-> Tail(acc.pending)]
        Entry(acc, e) == CASE e.key = "allowlists" -> Block(acc, e.lists)
                           [] e.key = "number" -> Rule(acc, e.rule)
                           [] OTHER -> acc
    IN FoldLeft(Entry, [out |-> <<>>, pending |-> <<>>], table).out

\* A rule of the overrides replaces the rule of its name or comes last; its
\* boundary stays as it is written.
OverrideRule(rules, raw) ==
    LET same == {i \in DOMAIN rules : rules[i].id = raw.id}
        rule == CompiledRule(raw, raw.regex)
    IN IF same = {} THEN Append(rules, rule)
       ELSE [i \in DOMAIN rules |-> IF i \in same /\ \A j \in same : i <= j THEN rule ELSE rules[i]]
AppendAllowlist(rules, append) ==
    [i \in DOMAIN rules |->
        IF rules[i].id = append.rule_id /\ \A j \in 1 .. i - 1 : rules[j].id # append.rule_id
        THEN [rules[i] EXCEPT !.allowlists = @ \cup {compile_rule_allowlist(append.list)}] ELSE rules[i]]
merge_overrides_into_rules(rules, overrides) ==
    FoldLeft(AppendAllowlist,
             FoldLeft(OverrideRule, rules, SelectSeq(overrides.rules, Compilable)), overrides.append)

\* A keyword is its own number in the automaton; an empty one gets none.
build_keyword_prefilter(rules) ==
    [i \in DOMAIN rules |->
        LET ids == rules[i].keywords \ {<<>>}
        IN IF ids = {} THEN rules[i] ELSE [rules[i] EXCEPT !.ids = ids]]
Automaton(rules) == UNION {rules[i].keywords \ {<<>>} : i \in DOMAIN rules}

load_compiled(raws, overrides, global) ==
    LET base == SelectSeq(raws, Compilable)
        rules == merge_overrides_into_rules([i \in DOMAIN base |-> compile_rule(base[i])], overrides)
    IN IF base = <<>> THEN [ok |-> FALSE]
       ELSE [ok |-> TRUE, rules |-> build_keyword_prefilter(rules), automaton |-> Automaton(rules),
             global |-> compile_global_allowlist(global)]
\* Loaded once, whoever asks first; a configuration that cannot be loaded stays an error.
ensure_loaded(cell, raws, overrides, global) == IF cell # Nothing THEN cell ELSE load_compiled(raws, overrides, global)

\* Mutated form: the scan continues behind the keyword it has just seen.
KeywordsApart(automaton, body) ==
    LET Step(acc, i) ==
            LET here == {k \in automaton : FoldedAt(k, body, i)}
            IN IF i < acc.next \/ here = {} THEN acc
               ELSE LET k == CHOOSE w \in here : \A v \in here : Len(w) <= Len(v)
                    IN [next |-> i + Len(k), found |-> acc.found \cup {k}]
    IN FoldLeft(Step, [next |-> 0, found |-> {}], [i \in 1 .. Len(body) |-> i - 1]).found

matched_pattern_ids(automaton, body) == {k \in automaton : FoldedIn(k, body)}

----------------------------------------------------------------------------
(* secrets.rs: is a matched value plausible?                               *)

\* c of n bytes contribute -(c/n) log2 (c/n).
Contribution(c, n) ==
    CASE c = n -> 0 [] 2 * c = n -> 500
      [] c = 1 /\ n = 3 -> 528 [] c = 2 /\ n = 3 -> 390
      [] c = 1 /\ n = 4 -> 500 [] c = 3 /\ n = 4 -> 311
      [] c = 1 /\ n = 5 -> 464 [] c = 2 /\ n = 5 -> 529 [] c = 3 /\ n = 5 -> 442 [] c = 4 /\ n = 5 -> 258
shannon_entropy(s) ==
    FoldLeft(LAMBDA sum, b : sum + Contribution(Cardinality({i \in DOMAIN s : s[i] = b}), Len(s)),
             0, SetToSeq(BytesOf(s)))

looks_like_camel_case_identifier(s) ==
    \E i \in 1 .. Len(s) - 1 : s[i] \in LowerHex \cup LowerOther /\ s[i + 1] \in Upper
\* Thirty-six bytes, hexadecimal but for the hyphens at 8, 13, 18 and 23: one byte here.
looks_like_hyphenated_uuid(s) == s = <<"uuid">>
generic_api_key_is_plausible(value) ==
    LET hex == Cardinality({i \in DOMAIN value : value[i] \in Hexadecimal})
    IN /\ Len(value) >= GENERIC_API_KEY_MIN_LEN
       /\ ~looks_like_hyphenated_uuid(value)
       /\ ~HasByte(value, {".", "="})
       /\ ~looks_like_camel_case_identifier(value)
       /\ BytesOf(value) \subseteq Alphanumeric \cup {"-", "_", "+", "/"}
       /\ ~(BytesOf(value) \subseteq Alphabetic)
       /\ IF hex * 5 >= Len(value) * 4
          THEN /\ Len(value) >= GENERIC_API_KEY_HEX_MIN_LEN
               /\ shannon_entropy(value) >= GENERIC_API_KEY_HEX_MIN_ENTROPY
          ELSE shannon_entropy(value) >= GENERIC_API_KEY_MIN_ENTROPY

\* A PEM block is BEGIN, its body, and END where it is complete; without END the
\* body stops at the last KEY-----.
pem_base64_body(pem) ==
    LET begin == {i \in DOMAIN pem : pem[i] = "BEGIN"}
        first == CHOOSE i \in begin : \A j \in begin : i <= j
        ends == {i \in DOMAIN pem : pem[i] = "END" /\ i > first}
        keys == {i \in DOMAIN pem : pem[i] = "KEY-----" /\ i > first}
        stop == CASE ends # {} -> CHOOSE i \in ends : \A j \in ends : i <= j
                  [] ends = {} /\ keys # {} -> CHOOSE i \in keys : \A j \in keys : j <= i
                  [] OTHER -> Len(pem) + 1
    IN IF begin = {} THEN <<>>
       ELSE SelectSeq(SubSeq(pem, first + 1, stop - 1), LAMBDA c : c \in Alphanumeric \cup {"+", "/", "="})
\* Padding stands at the end or the text does not decode; a long text counts even so.
pem_decoded_body_len(pem) ==
    LET body == pem_base64_body(pem)
        padding == {i \in DOMAIN body : body[i] = "="}
        canonical == Len(body) % 4 = 0 /\ padding \in {{}, {Len(body)}, {Len(body) - 1, Len(body)}}
    IN CASE body = <<>> -> 0
         [] body # <<>> /\ canonical -> (Len(body) * 3) \div 4 - Cardinality(padding)
         [] OTHER -> IF Len(body) >= PEM_LONG_BODY THEN (Len(body) * 3) \div 4 ELSE 0
private_key_body_is_plausible(pem) == pem_decoded_body_len(pem) >= PRIVATE_KEY_MIN_DECODED_BODY

\* base64, external: what the encoded credentials of the samples stand for, in the
\* alphabet with padding and in the one without.
Decoded(text, padded) ==
    CASE text = "b64:foo:bar==" /\ padded -> [bytes |-> 10, utf8 |-> TRUE, words |-> <<"foo", "bar">>]
      [] text = "b64:admin:kt12" /\ ~padded -> [bytes |-> 10, utf8 |-> TRUE, words |-> <<"admin", "kt12">>]
      [] text = "b64:svc:pass" /\ ~padded -> [bytes |-> 5, utf8 |-> TRUE, words |-> <<"svc", "pass">>]
      [] text = "b64:svcpass" /\ padded -> [bytes |-> 12, utf8 |-> TRUE, words |-> <<"svcpass">>]
      [] text = "b64:bytes" /\ padded -> [bytes |-> 12, utf8 |-> FALSE, words |-> <<>>]
      [] OTHER -> Nothing
decode_http_basic(value) ==
    LET trimmed == Trim(value)
    IN IF Len(trimmed) # 1 THEN Nothing
       ELSE IF Decoded(trimmed[1], TRUE) # Nothing THEN Decoded(trimmed[1], TRUE) ELSE Decoded(trimmed[1], FALSE)
http_basic_pair_is_placeholder(user, pass) ==
    /\ user \in {"user", "foo", "bar", "beep", "admin"}
    /\ pass \in {"pass", "password", "foo", "bar", "beep", "boop"}
http_basic_auth_is_plausible(value) ==
    LET d == decode_http_basic(value)
    IN /\ d # Nothing
       /\ d.bytes >= HTTP_BASIC_MIN_DECODED_LEN
       /\ d.utf8 => Len(d.words) = 2 /\ ~http_basic_pair_is_placeholder(d.words[1], d.words[2])

web_rule_match_is_plausible(id, value) ==
    CASE id = "generic-api-key" -> generic_api_key_is_plausible(value)
      [] id = "sourcegraph-access-token" -> StartsWith(value, "sgp_")
      [] id = "vault-service-token" ->
            StartsWith(value, "s.") => ~looks_like_camel_case_identifier(Tail(value))
      [] id = "linkedin-client-id" ->
            ~(value # <<>> /\ value[1] \in LowerHex \cup LowerOther /\ looks_like_camel_case_identifier(value))
      [] id = "private-key" -> private_key_body_is_plausible(value)
      [] id = "http-basic-auth" -> http_basic_auth_is_plausible(value)
      [] OTHER -> TRUE

\* The user and password of a URL lie between "://" and "@".
UserInfo(full) ==
    LET from == {i \in DOMAIN full : full[i] = "://"}
        a == CHOOSE i \in from : \A j \in from : i <= j
        ats == {i \in DOMAIN full : full[i] = "@" /\ i > a}
        b == IF ats = {} THEN Len(full) + 1 ELSE CHOOSE i \in ats : \A j \in ats : i <= j
    IN IF from = {} THEN Nothing ELSE SubSeq(full, a + 1, b - 1)
UpTo(text, byte) == SelectInSeq(Append(text, byte), LAMBDA c : c = byte) - 1
userinfo_user_is_mailbox_shaped(full) ==
    /\ UserInfo(full) # Nothing
    /\ LET user == SubSeq(UserInfo(full), 1, UpTo(UserInfo(full), ":"))
           at == UpTo(user, "%40")
           domain == SubSeq(user, at + 2, Len(user))
       IN at \in 1 .. Len(user) - 1 /\ HasByte(domain, {"."}) /\ BytesOf(domain) \subseteq Alphanumeric \cup {".", "-"}
captured_has_distinctive_userinfo_prefix(value) ==
    value # <<>> /\ value[1] \in {"ghp_", "glpat-", "sk_", "xox", "AKIA"}
credential_bearing_url_is_plausible(value, full, line) ==
    \/ captured_has_distinctive_userinfo_prefix(value)
    \/ /\ ~HasByte(line, {"mailto:"})
       /\ ~userinfo_user_is_mailbox_shaped(full)
       /\ UserInfo(full) # Nothing /\ HasByte(UserInfo(full), {":"})
nearby_text_looks_like_datadog(nearby) ==
    HasByte(nearby, {"datadog", "dd_api", "dd_app", "ddapikey", "ddappkey", "dd_rum", "dd_logs", "dd_client", "dd_site"})
web_rule_match_is_plausible_in_context(id, value, nearby, full, line) ==
    CASE id = "datadog-access-token" -> nearby_text_looks_like_datadog(nearby)
      [] id = "credential-bearing-url" -> credential_bearing_url_is_plausible(value, full, line)
      [] OTHER -> TRUE

----------------------------------------------------------------------------
(* secrets.rs: what surrounds a match.                                     *)

\* The line of the match, looked for in a window around it.
line_containing(body, start, end) ==
    LET from == BoundaryUp(body, Below(start, MAX_LINE_WINDOW_BYTES))
        to == BoundaryDown(body, Least(end + MAX_LINE_WINDOW_BYTES, Len(body)))
        breaks == {i \in 0 .. Len(body) - 1 : body[i + 1] = "nl"}
        before == {i + 1 : i \in {b \in breaks : from <= b /\ b < start}} \cup {from}
        behind == {b \in breaks : end <= b /\ b < to} \cup {to}
    IN Slice(body, CHOOSE i \in before : \A j \in before : i >= j,
                   CHOOSE i \in behind : \A j \in behind : i <= j)

\* Where the tail of a cut match begins.
TailStart(match, i) == BoundaryUp(match, i)

extract_context(body, start, end) ==
    LET from == BoundaryDown(body, Below(start, CONTEXT_CHARS))
        to == BoundaryUp(body, Least(end + CONTEXT_CHARS, Len(body)))
        raw == Slice(body, from, to)
        match == Slice(body, start, end)
        overhead == (start - from) + (to - end) + ELLIPSIS_LEN
        budget == MAX_CONTEXT_BYTES - overhead
        head == BoundaryDown(match, Least(budget \div 2, Len(match)))
        tail == TailStart(match, Greatest(Below(Len(match), budget - head), head))
    IN CASE Len(raw) <= MAX_CONTEXT_BYTES -> raw
         [] Len(raw) > MAX_CONTEXT_BYTES /\ overhead >= MAX_CONTEXT_BYTES ->
                Slice(raw, 0, BoundaryDown(raw, MAX_CONTEXT_BYTES))
         [] OTHER -> Slice(body, from, start) \o Slice(match, 0, head)
                        \o [i \in 1 .. ELLIPSIS_LEN |-> "..."]
                        \o Slice(match, tail, Len(match)) \o Slice(body, end, to)

infer_location(context) ==
    CASE HasByte(context, {"<script", "</script"}) -> "inline_script"
      [] HasByte(context, {"<!--"}) /\ ~HasByte(context, {"<script", "</script"}) -> "html_comment"
      [] OTHER -> IF HasByte(context, {"data-"}) THEN "data_attribute"
                  ELSE IF HasByte(context, {"?key=", "&key=", "?token=", "&token="}) THEN "url_parameter"
                  ELSE IF HasByte(context, {"content="}) THEN "meta_tag" ELSE "html_body"

\* Behind the last opening tag, in none of the closed ones.
is_inside_json_ld_script(body, pos) ==
    LET opens == {i \in 1 .. pos : body[i] = "<script"}
        last == CHOOSE i \in opens : \A j \in opens : i >= j
        region == SubSeq(body, last, pos)
    IN /\ opens # {} /\ ~HasByte(region, {"</script"})
       /\ HasByte(SubSeq(region, 1, UpTo(region, ">")), {"ld+json"})

infer_location_for_body_match(body, start, context) ==
    IF is_inside_json_ld_script(body, start) THEN "json_ld" ELSE infer_location(context)

\* By the words of the rule's name: for each rule of the samples, those it holds.
NameWords(id) ==
    CASE id = "linkedin-client-secret" -> {"client-secret", "secret"}
      [] id = "sourcegraph-access-token" -> {"token"}
      [] OTHER -> {}
severity_for_unknown_rule_id(id) ==
    IF NameWords(id) \cap {"private-key", "password", "client-secret", "client_secret"} # {} THEN "high"
    ELSE IF NameWords(id) \cap {"token", "api-key", "api_key", "access-key", "access_key", "secret", "pat", "cred"} # {}
         THEN "medium" ELSE "low"
severity_for_rule_id(id) ==
    CASE id \in {"private-key", "credential-bearing-url", "vault-service-token"} -> "critical"
      [] id \in {"aws-access-token", "http-basic-auth"} -> "high"
      [] id \in {"algolia-api-key", "datadog-access-token", "generic-api-key"} -> "medium"
      [] id \in {"gcp-api-key", "jwt", "jwt-base64"} -> "low"
      [] OTHER -> severity_for_unknown_rule_id(id)
algolia_assignment_is_admin(nearby) ==
    HasByte(nearby, {"admin_key", "adminkey", "adminapikey", "admin_api_key", "algolia_admin", "algoliaadmin"})
severity_for_finding(id, line, nearby) ==
    IF \/ id = "aws-access-token" /\ HasByte(line, {"x-amz-credential="})
       \/ id = "algolia-api-key" /\ ~algolia_assignment_is_admin(nearby)
    THEN "low" ELSE severity_for_rule_id(id)

----------------------------------------------------------------------------
(* jwt.rs.  A part of a token is one byte.                                 *)

Parts(token) == SelectSeq(token, LAMBDA c : c # ".")
Dots(token) == Cardinality({i \in DOMAIN token : token[i] = "."})

\* base64 once more, external: the texts behind the parts of the samples; the first
\* attempt refuses padding, the second wants it, and the third gives its padding to the
\* decoder of the first.
Encoded ==
    {[part |-> "h", padded |-> FALSE, text |-> [json |-> [alg |-> "HS256", typ |-> "JWT"], token |-> <<>>]],
     [part |-> "p", padded |-> FALSE, text |-> [json |-> [iss |-> "i", exp |-> 9, iat |-> 1], token |-> <<>>]],
     [part |-> "p=", padded |-> TRUE, text |-> [json |-> [iss |-> "i", exp |-> 9, iat |-> 1], token |-> <<>>]],
     [part |-> "w", padded |-> FALSE, text |-> [json |-> Nothing, token |-> <<"h", ".", "p=", ".", "k">>]],
     [part |-> "v", padded |-> FALSE, text |-> [json |-> Nothing, token |-> <<"h", ".", "p">>]]}
base64url_decode(part) ==
    LET Attempt(padded) == {e \in Encoded : e.padded = padded /\ e.part = part}
    IN IF Attempt(FALSE) # {} THEN (CHOOSE e \in Attempt(FALSE) : TRUE).text
       ELSE IF Attempt(TRUE) # {} THEN (CHOOSE e \in Attempt(TRUE) : TRUE).text ELSE Nothing

Claim(json, name) == IF name \in DOMAIN json THEN json[name] ELSE Nothing
epoch_seconds_to_ms(json, name) ==
    IF Claim(json, name) = Nothing THEN Nothing ELSE Least(json[name] * 1000, I64_MAX)
DecodedJwt(header, payload) ==
    [header_json |-> header, payload_json |-> payload, algorithm |-> Claim(header, "alg"),
     token_type |-> Claim(header, "typ"), issuer |-> Claim(payload, "iss"), subject |-> Claim(payload, "sub"),
     audience |-> Claim(payload, "aud"), expiration_ms |-> epoch_seconds_to_ms(payload, "exp"),
     issued_at_ms |-> epoch_seconds_to_ms(payload, "iat"), not_before_ms |-> epoch_seconds_to_ms(payload, "nbf"),
     jwt_id |-> Claim(payload, "jti")]
decode_jwt(token) ==
    LET whole == TrimEnd(Trim(token), {"\\"})
        parts == Parts(whole)
        header == base64url_decode(parts[1])
        payload == base64url_decode(parts[2])
    IN IF Dots(whole) # 2 \/ Len(parts) # 3 THEN Nothing
       ELSE IF header = Nothing \/ payload = Nothing THEN Nothing
       ELSE IF header.json = Nothing \/ payload.json = Nothing THEN Nothing
       ELSE DecodedJwt(header.json, payload.json)
decode_jwt_base64(token) ==
    LET trimmed == Trim(token)
        inner == IF Len(trimmed) = 1 THEN base64url_decode(trimmed[1]) ELSE Nothing
    IN IF inner # Nothing /\ decode_jwt(inner.token) # Nothing THEN decode_jwt(inner.token) ELSE decode_jwt(trimmed)

----------------------------------------------------------------------------
(* secrets.rs: from matches to findings.                                   *)

\* The regex engine, external: matches from left to right that do not overlap.
\* The byte of a boundary belongs to the match.
EndOf(regex, body, start) ==
    LET end == start + Len(regex.word)
    IN IF regex.tail = Nothing \/ end >= Len(body) THEN end ELSE end + 1
MatchesAt(regex, body, i) ==
    /\ FoldedAt(regex.word, body, i)
    /\ LET end == i + Len(regex.word)
       IN regex.tail = Nothing \/ end = Len(body) \/ body[end + 1] \in Boundary(regex.tail)
captures_iter(regex, body) ==
    LET Step(acc, i) == IF i >= acc.next /\ MatchesAt(regex, body, i)
                        THEN [next |-> EndOf(regex, body, i), starts |-> Append(acc.starts, i)] ELSE acc
    IN FoldLeft(Step, [next |-> 0, starts |-> <<>>], [i \in 1 .. Len(body) |-> i - 1]).starts

\* The group the rule names, else the first that is not empty, else the match.
extract_secret(rule, full) ==
    LET Group(n) == SubSeq(full, rule.regex.groups[n][1], rule.regex.groups[n][2])
        filled == {n \in DOMAIN rule.regex.groups : Group(n) # <<>>}
    IN IF rule.secret_group \in DOMAIN rule.regex.groups THEN Group(rule.secret_group)
       ELSE IF filled # {} THEN Group(CHOOSE n \in filled : \A m \in filled : n <= m) ELSE full

global_allowlist_skips(global, value) == \E w \in global : FoldedIn(w, value)

\* There is never a path: a list of AND conditions with one is never met.
rule_allowlist_skips(allowlists, value, line, full) ==
    \E list \in allowlists :
        LET target == CASE list.target = "line" -> line [] list.target = "match" -> full [] OTHER -> value
            Met(w) == FoldedIn(w, target)
        IN IF list.condition_and THEN ~list.has_paths /\ \A w \in list.words : Met(w)
           ELSE \E w \in list.words : Met(w)

\* The match of a rule at an offset, with what it is judged by.
MatchAt(rule, body, start) ==
    LET end == EndOf(rule.regex, body, start)
    IN [rule |-> rule, start |-> start, full |-> Slice(body, start, end),
        value |-> extract_secret(rule, Slice(body, start, end)),
        line |-> line_containing(body, start, end), context |-> extract_context(body, start, end)]

Passes(config, m) ==
    /\ m.rule.entropy # Nothing => shannon_entropy(m.value) >= m.rule.entropy
    /\ ~global_allowlist_skips(config.global, m.value)
    /\ web_rule_match_is_plausible(m.rule.id, m.value)
    /\ web_rule_match_is_plausible_in_context(m.rule.id, m.value, m.context, m.full, m.line)
    /\ ~rule_allowlist_skips(m.rule.allowlists, m.value, m.line, m.full)

Finding(body, m) ==
    [secret_type |-> m.rule.id, matched_value |-> m.value, context |-> m.context,
     severity |-> severity_for_finding(m.rule.id, m.line, m.context),
     location |-> infer_location_for_body_match(body, m.start, m.context),
     decoded_jwt |-> CASE m.rule.id = "jwt" -> decode_jwt(m.value)
                       [] m.rule.id = "jwt-base64" -> decode_jwt_base64(m.value)
                       [] OTHER -> Nothing]

\* The prefilter lets a rule run that has no keywords or one in the text.
Runs(rule, matched) == ~rule.path /\ (rule.ids # Nothing => rule.ids \cap matched # {})

\* Rules in order, matches in order, each value once per rule.
detect_exposed_secrets(config, body) ==
    LET matched == matched_pattern_ids(config.automaton, body)
        Reported(results, f) ==
            \E i \in DOMAIN results : results[i].secret_type = f.secret_type /\ results[i].matched_value = f.matched_value
        Take(rule, results, start) ==
            LET m == MatchAt(rule, body, start)
            IN IF Passes(config, m) /\ ~Reported(results, Finding(body, m))
               THEN Append(results, Finding(body, m)) ELSE results
        Rule(results, rule) ==
            IF Runs(rule, matched)
            THEN FoldLeft(LAMBDA r, start : Take(rule, r, start), results, captures_iter(rule.regex, body))
            ELSE results
    IN FoldLeft(Rule, <<>>, config.rules)

detect_exposed_secrets_in_headers(config, block) ==
    LET found == detect_exposed_secrets(config, block)
    IN [i \in DOMAIN found |->
            [found[i] EXCEPT !.location = IF HasByte(found[i].context, {"set-cookie:"})
                                          THEN "set_cookie" ELSE "response_header"]]
=============================================================================
