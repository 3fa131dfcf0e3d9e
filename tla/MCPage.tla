------------------------------- MODULE MCPage -------------------------------
(* The analysis of a page on small inputs: detection as a machine, and the *)
(* pure algorithms on samples.                                             *)
EXTENDS Detection, TechSignals, Secrets, ExportFields, Export, TLC

CONSTANTS t1, t2, t3, t4, NoSample

VARIABLE sample

\* In some behaviours one input of one algorithm is taken; the properties speak of the
\* step that takes it.
Unread == [algorithm |-> "unread"]
Is(s, algorithm) == s # NoSample /\ s.algorithm = algorithm
Sampled(algorithm) == Is(sample, algorithm)

----------------------------------------------------------------------------
(* Patterns: all bodies of up to three tokens beside another's pattern.    *)

Alphabet == {"a", "b"}
TextsUpTo(n) == UNION {[1 .. k -> Alphabet \cup {"."}] : k \in 0 .. n}

\* A quantifier follows an atom.
WellFormed(body) ==
    \A i \in 1 .. Len(body) : body[i] \in Quantifiers =>
        i > 1 /\ body[i - 1] \notin Quantifiers \cup {"|"}
Bodies == {b \in UNION {[1 .. k -> Alphabet \cup {".", "|", "\\.", "[]", "?", "+"}] : k \in 0 .. 3} :
             WellFormed(b)}
          \cup {<<"a", "a", "[]", "|", "b">>, <<"a", "b", "u">>, <<"a", "b", "?">>, <<"a", "b", "(">>, <<" ", "a", " ">>, <<" ">>}

Plain(body) == [head |-> body, parts |-> <<>>]
Part(key, text, number) == [key |-> key, text |-> text, number |-> number]
Version(v) == Part("version", <<Text(<<v>>)>>, NotANumber)
Variants(body) ==
    {Plain(body), [Plain(body) EXCEPT !.parts = <<Version("2"), Version("3")>>],
     [Plain(body) EXCEPT !.parts = <<Part("confidence", <<>>, 60), Part("confidence", <<>>, 49), Part("confidence", <<>>, NotANumber)>>]}

OtherPatterns == {Plain(<<>>), Plain(<<"b">>), Plain(<<"b", "a">>), Plain(<<"a", "[]">>)}

\* Two different needles that overlap in the text.
Overlap(needles, text) ==
    \E n, m \in needles : \E i, j \in 1 .. Len(text) :
        /\ <<n, i>> # <<m, j>>
        /\ OccursAt(n, text, i, Equal) /\ OccursAt(m, text, j, Equal)
        /\ i <= j /\ j <= i + Len(n) - 1

\* An alternation behind the place where the prefix ends.
LateAlternation(body) == is_regex_pattern(body) /\ "|" \in Tokens(body)

IndexResult(s) == match_channel(<<s.pattern>>, {s.other}, s.text)

\* The index may skip work and nothing else: a pattern found through it matches on
\* its own, and where no needles overlap in the text and the pattern has no
\* alternation the result, version included, is that of the pattern on its own.
IndexExactApart(s) ==
    Is(s, "index") =>
        LET direct == MatchDirectly(<<s.pattern>>, s.text)
            needles == Needles({s.pattern, s.other})
        IN /\ IndexResult(s).matched => direct.matched
           /\ ~Overlap(needles, s.text) /\ ~LateAlternation(parse_pattern(s.pattern).body) =>
                IndexResult(s) = direct

----------------------------------------------------------------------------
(* The signals of one technology, its maps in every order.                 *)

With(body, parts) == [head |-> body, parts |-> parts]
SignalPatterns ==
    {Plain(<<>>), Plain(<<"a">>), With(<<"a", "[]">>, <<Version("2")>>), With(<<"[]", "b">>, <<Version("3")>>),
     With(<<"a">>, <<Part("confidence", <<>>, 10)>>), With(<<"a", "(">>, <<Version("2")>>), With(<<" ">>, <<Version("4")>>)}
Orders(set) == {o \in [1 .. Cardinality(set) -> set] : \A i, j \in DOMAIN o : o[i] = o[j] => i = j}
Csp == "content-security-policy"
Tech(headers, cookies, meta, dns, cert) ==
    [headers |-> headers, cookies |-> cookies, meta |-> meta, dns |-> dns, cert_issuer |-> cert]
NoMap == [k \in {} |-> <<>>]
Named(name, value) == [name |-> name, value |-> value]

ResponseHeaders ==
    {<<Named("Server", <<"A">>), Named(Csp, <<"a", "b">>), Named("link", <<"b">>), Named("link", <<"a", "b">>), Named("link", <<"b">>)>>,
     <<Named("link", NoValue), Named("server", <<"b", "a">>)>>, <<Named(Csp, <<"a">>)>>}
HeaderTechs == {Tech([server |-> p, link |-> q] @@ (Csp :> Plain(<<>>)), NoMap, NoMap, NoMap, <<>>) : p, q \in SignalPatterns}

CookieJars ==
    {[set |-> <<Named(<<"A", "b">>, <<"a">>), Named(<<"a", "b">>, <<"b">>), Named(<<"b">>, <<"A", "b">>)>>, sent |-> <<>>],
     [set |-> <<Named(<<"a">>, <<"a", "a">>), Named(<<"b">>, NoValue)>>, sent |-> <<Named(<<"a">>, <<"b">>), Named(<<"a", "a">>, <<"a", "b">>)>>],
     [set |-> <<Named(<<"b", "a">>, <<"a">>)>>, sent |-> <<Named(<<"b">>, <<>>)>>]}
CookieTechs == {Tech(NoMap, (<<"a", "*">> :> p) @@ (<<"b">> :> q), NoMap, NoMap, <<>>) : p, q \in SignalPatterns}

String(raw) == [json |-> "string", text |-> raw, number |-> NotANumber, items |-> <<>>]
Number(n) == [json |-> "number", text |-> Plain(<<>>), number |-> n, items |-> <<>>]
Digit == [String(Plain(<<>>)) EXCEPT !.number = 3]
Array(items) == [json |-> "array", text |-> Plain(<<>>), number |-> NotANumber, items |-> items]
MetaPages ==
    {(<<"name", "g">> :> <<<<"b">>, <<"a", "b">>>>) @@ (<<"property", "g">> :> <<<<"a", "a">>>>),
     (<<"http-equiv", "g">> :> <<<<"a">>, <<"b", "b">>>>), NoMap}
MetaTechs ==
    {Tech(NoMap, NoMap,
          deserialize_meta_map((<<"", "g">> :> Array(<<String(p), Number(1), String(q)>>)) @@ (<<"property", "g">> :> String(q))),
          NoMap, <<>>) : p, q \in SignalPatterns}

DnsTechs ==
    {Tech(NoMap, NoMap, NoMap, ("NS" :> <<p>>) @@ ("cname" :> <<q, p>>) @@ ("TXT" :> <<Plain(<<>>)>>), <<q>>) :
        p, q \in SignalPatterns}
DnsAnswers ==
    {[ns |-> n, cname |-> c, cert |-> i] :
        n \in {NoValue, <<>>, <<"A">>}, c \in {NoValue, <<"a", "b">>}, i \in {NoValue, <<"A">>}}

SignalSample(channel, tech, input, order) ==
    [algorithm |-> "signals", channel |-> channel, tech |-> tech, input |-> input, order |-> order]
TakeSignals ==
    \/ \E t \in HeaderTechs, h \in ResponseHeaders, o \in Orders({"server", "link", Csp}) :
          sample' = SignalSample("header", t, h, o)
    \/ \E t \in CookieTechs, j \in CookieJars, o \in Orders({<<"a", "*">>, <<"b">>}) :
          sample' = SignalSample("cookie", t, j, o)
    \/ \E t \in MetaTechs, p \in MetaPages, o \in Orders({<<"", "g">>, <<"property", "g">>}) :
          sample' = SignalSample("meta", t, p, o)
    \/ \E t \in DnsTechs, a \in DnsAnswers, o \in Orders({"NS", "cname", "TXT"}) :
          sample' = SignalSample("dns", t, a, o)

\* What the technology's patterns say of the values they apply to, each on its own:
\* it is matched iff one of them is, a version is one of theirs, and none is lost
\* but where a search may end without one.
OfPairs(result, pairs, ends) ==
    LET hits == {r \in {matches_pattern(NoCache, x[1], x[2]) : x \in pairs} : r.matched}
    IN /\ result.matched <=> hits # {}
       /\ result.version # NoVersion => Hit(result.version) \in hits
       /\ result.version = NoVersion /\ (\E h \in hits : h.version # NoVersion) => ends
Presence(pairs) == \E x \in pairs : IsEmptyPattern(x[1])

HeadersByDefinition(s) ==
    LET map == normalize_headers_to_map(s.input)
        pairs == {<<s.tech.headers[k], map[k]>> : k \in (DOMAIN s.tech.headers \cap DOMAIN map) \ {Csp}}
    IN /\ OfPairs(check_headers_with_ruleset(from_technology(s.tech), map, s.order), pairs, Presence(pairs))
       /\ \A i \in DOMAIN s.input : s.input[i].value # NoValue =>
             Includes(map[LowerToken(s.input[i].name)], LowerText(s.input[i].value))
CookiesByDefinition(s) ==
    LET map == extract_cookies_name_value_map(s.input.set, s.input.sent)
        pairs == {<<s.tech.cookies[<<"a", "*">>], map[c]>> : c \in {n \in DOMAIN map : n # <<>> /\ n[1] = "a"}}
                 \cup (IF <<"b">> \in DOMAIN map THEN {<<s.tech.cookies[<<"b">>], map[<<"b">>]>>} ELSE {})
        all == SelectSeq(s.input.set \o s.input.sent, LAMBDA c : c.value # NoValue)
    IN /\ all # <<>> => map[LowerText(Last(all).name)] = LowerText(Last(all).value)
       /\ \A jar \in Orders(DOMAIN map) :
          OfPairs(check_cookies_with_ruleset(from_technology(s.tech), map, s.order, jar), pairs, Presence(pairs))
MetaByDefinition(s) ==
    LET Tried(key) == {k \in DOMAIN s.input : k[2] = key[2] /\ (key[1] = "" \/ k[1] = key[1])}
        pairs == UNION {UNION {{<<p, v>> : p \in ToSet(s.tech.meta[key]), v \in ToSet(s.input[k])} : k \in Tried(key)} :
                        key \in DOMAIN s.tech.meta}
        Checked(key) == check_compiled_meta_patterns(key, compile_list(s.tech.meta[key]), s.input)
    IN /\ OfPairs(match_meta(from_technology(s.tech), s.input, s.order), pairs, Cardinality(DOMAIN s.input) > 1)
       /\ \A key \in DOMAIN s.tech.meta : Checked(key) = check_meta_patterns(key, s.tech.meta[key], s.input)
DnsByDefinition(s) ==
    LET records == dns_records_haystack(s.input.ns, s.input.cname)
        r == check_dns_and_cert_with_ruleset(from_technology(s.tech), records, s.input.cert, s.order)
        ns == IF "NS" \in DOMAIN records THEN {<<p, records["NS"]>> : p \in ToSet(s.tech.dns["NS"])} ELSE {}
        cname == IF "CNAME" \in DOMAIN records THEN {<<p, records["CNAME"]>> : p \in ToSet(s.tech.dns["cname"])} ELSE {}
        cert == IF s.input.cert = NoValue THEN {} ELSE {<<p, LowerText(s.input.cert)>> : p \in ToSet(s.tech.cert_issuer)}
        SomeHit(pairs) == \E x \in pairs : matches_pattern(NoCache, x[1], x[2]).matched
    IN /\ OfPairs(r, ns \cup cname \cup cert, FALSE)
       /\ r.source = "ns" => SomeHit(ns)
       /\ r.source = "cname" => SomeHit(cname)
       /\ r.source = "cert" => SomeHit(cert) /\ ~SomeHit(ns \cup cname)

\* A compiled pattern answers like the pattern itself, whatever the cache of
\* expressions holds from other patterns and cookie names.
CompiledAsDirect(raw, other, text) ==
    LET c == compile_pattern(raw)
        direct == matches_pattern(NoCache, raw, text)
        body == parse_pattern(other).body
        cache == get_or_compile_regex(NoCache, IF is_regex_pattern(body) THEN body ELSE Escaped(body), body).cache
    IN /\ direct = IF c = NoPattern THEN Miss ELSE evaluate(c, text)
       /\ matches_pattern(cache, raw, text) = direct

\* A rule's field means the same in each of its shapes, or is refused.
FieldShapes ==
    LET p == Plain(<<"a">>) IN
    /\ deserialize_string_or_array(String(p)) = deserialize_string_or_array(Array(<<String(p)>>))
    /\ deserialize_string_or_array(Array(<<String(p), Number(1)>>)) = Refused
    /\ deserialize_u32_or_array(Array(<<Number(1), Digit>>)) = <<1, 3>>
    /\ parse_technology_reference(With(<<" ", "a">>, <<Version("2")>>)) = <<<<"a">>, Version("2").text>>
    /\ \A v \in {Number(n) : n \in -1 .. U32_MAX + 1} \cup {Digit, String(p)} :
          deserialize_u32_or_array(v) = deserialize_u32_or_array(Array(<<v>>))

PatternsHold(s) ==
    /\ IndexExactApart(s)
    /\ Is(s, "index") => CompiledAsDirect(s.pattern, s.other, s.text)
    /\ Is(s, "signals") =>
          CASE s.channel = "header" -> HeadersByDefinition(s)
            [] s.channel = "cookie" -> CookiesByDefinition(s)
            [] s.channel = "meta" -> MetaByDefinition(s)
            [] s.channel = "dns" -> DnsByDefinition(s)
    /\ Is(s, "shapes") => FieldShapes
\* Every way a pattern is applied (through the index, compiled, in the maps of a
\* technology in whatever order they are iterated) says what the pattern says
\* (patterns/literals.rs:268, compiled.rs:126, detection/cookies.rs:67).
MatchingSound == [][PatternsHold(sample')]_sample

----------------------------------------------------------------------------
(* Secrets: short texts around the keywords, and one text per special rule. *)

RawRule(id, word, groups, keywords) ==
    [id |-> id, regex |-> [word |-> word, tail |-> Nothing, groups |-> groups], entropy |-> Nothing, keywords |-> keywords,
     secret_group |-> Nothing, path |-> FALSE, allowlists |-> {}]
Allow(words, target, condition, paths) ==
    [words |-> words, target |-> target, condition |-> condition, paths |-> paths]
RawRules ==
    <<RawRule("gcp-api-key", <<"a", "k", "#">>, <<<<1, 0>>, <<2, 3>>>>, {<<"A", "k">>}),
      [RawRule("broken", <<"a">>, <<>>, {}) EXCEPT !.regex = Nothing],
      [RawRule("terraform", <<"a">>, <<>>, {}) EXCEPT !.path = TRUE],
      [RawRule("aws-access-token", <<"t", "#">>, <<>>, {<<>>}) EXCEPT !.entropy = 500,
          !.allowlists = {Allow({<<"1">>}, "line", "AND", {"vendor"}), Allow({<<"k">>, <<"t">>}, "match", "&&", {})}],
      RawRule("short", <<"k", "2">>, <<>>, {<<"k">>, <<"a", "k">>}),
      [RawRule("generic-api-key", <<"k", "=", "#", "#", "#", "#">>, <<<<3, 6>>>>, {<<"=">>})
          EXCEPT !.secret_group = 1],
      RawRule("vault-service-token", <<"s.", "#", "#">>, <<>>, {}),
      RawRule("linkedin-client-id", <<"#", "#", "in">>, <<<<1, 2>>>>, {}),
      [RawRule("sourcegraph-access-token", <<"#", "1", "1">>, <<<<1, 3>>>>, {<<"sgp_">>}) EXCEPT !.regex.tail = "upstream"],
      RawRule("private-key", <<"BEGIN", "#", "#", "#", "#", "#">>, <<>>, {<<"BEGIN">>}),
      RawRule("linkedin-client-secret", <<"b", "uuid">>, <<<<2, 2>>>>, {}),
      RawRule("http-basic-auth", <<"basic", "#">>, <<<<2, 2>>>>, {<<"basic">>}),
      RawRule("credential-bearing-url", <<"://", "#", "#", "#", "@">>, <<<<2, 4>>>>, {<<"://">>}),
      RawRule("algolia-api-key", <<"b", "b">>, <<>>, {<<"b">>}),
      RawRule("jwt", <<"h", "#", "#", "#", "#">>, <<>>, {}),
      RawRule("jwt-base64", <<"b64", "#">>, <<<<2, 2>>>>, {})>>
Overrides ==
    [rules |-> <<RawRule("short", <<"k", "1">>, <<>>, {<<"k">>}),
                 [RawRule("datadog-access-token", <<"d", "#">>, <<>>, {<<"d">>}) EXCEPT !.regex.tail = "upstream"]>>,
     append |-> <<[rule_id |-> "gcp-api-key", list |-> Allow({<<"k", "a">>}, "secret", "or", {})],
                  [rule_id |-> "absent", list |-> Allow({<<"a">>}, "secret", "or", {})]>>]
SecretConfig == ensure_loaded(Nothing, RawRules, Overrides, {<<"k", "b">>, Nothing})

\* Tables of two rules with blocks of allowlists before, between and behind them.
Blocks ==
    {[key |-> "allowlists", lists |-> <<Allow({<<"x">>}, "line", "or", {}), Allow({<<"x">>}, "match", "or", {})>>],
     [key |-> "allowlists", lists |-> <<Allow({<<"y">>}, "line", "or", {})>>], [key |-> "title"]}
NumberedRules == {[key |-> "number", rule |-> RawRule(id, <<"a">>, <<>>, {})] : id \in {"short", "jwt"}}
TableSamples ==
    {[algorithm |-> "tables", table |-> t] :
        t \in {u \in UNION {[1 .. n -> Blocks \cup NumberedRules] : n \in 0 .. 4} :
                 \A i, j \in DOMAIN u : u[i] = u[j] => i = j}}

SpecialTexts ==
    {<<"k", "=", "a", "b", "1", "2">>, <<"k", "=", "a", "k", "1", "t">>, <<"k", "=", "a", "A", "1", "2">>,
     <<"s.", "a", "1">>, <<"s.", "k", "A">>, <<"k", "A", "in">>, <<"K", "1", "in">>, <<"sgp_", "1", "1">>,
     <<"b", "1", "1">>, <<"BEGIN", "a", "a", "a", "a", "END">>, <<"BEGIN", "a", "-", "a", "a", "END">>,
     <<"BEGIN", "a", "a", "a", "a", "KEY-----">>, <<"BEGIN", "a", "a", "a", "a", "-">>,
     <<"basic", "b64:foo:bar==", "basic", "b64:admin:kt12">>, <<"basic", "b64:svc:pass">>,
     <<"basic", "b64:svcpass", "basic", "b64:bytes">>, <<"BEGIN", "a", "a", "=", "a", "END">>,
     <<"BEGIN", "a", "a", "=", "=", "END">>, <<"sgp_", "1", "1", "<", "sgp_", "1", "1", "1">>, <<"b", "uuid">>,
     <<"k", "=", "uuid", "a", "b", "1">>,
     <<"://", "a", ":", "k", "@">>, <<"://", "a", "k", "k", "@">>, <<"mailto:", "://", "a", ":", "k", "@">>,
     <<"://", "a", "%40", ".", "@">>, <<"://", "ghp_", "k", "k", "@">>, <<"adminkey", "b", "b">>,
     <<"nl", "b", "b">>, <<"h", ".", "p", ".", "k">>, <<"h", ".", "p=", ".", "k">>, <<"h", ".", "k", "k", "k">>,
     <<"b64", "w">>, <<"b64", "v">>, <<"b64", "h">>, <<"h", ".", "w", ".", "k">>,
     <<"d", "1", "nl", "datadog">>, <<"d", "1", "<", "datadog">>, <<"d", "1">>, <<"x-amz-credential=", "t", "2">>, <<"t", "1", "nl", "t", "1">>,
     <<"<script", "ld+json", ">", "t", "1">>, <<"<script", ">", "t", "1", "</script", "t", "2">>,
     <<"<!--", "t", "1">>, <<"data-", "t", "2">>, <<"?key=", "t", "1">>, <<"content=", "t", "1">>}
SecretSamples ==
    {[algorithm |-> "secrets", text |-> t] :
        t \in UNION {[1 .. n -> {"a", "K", "1", "t"}] : n \in 0 .. 5} \cup SpecialTexts}

\* What is reported, said without an order and without the prefilter.
PassingMatches(text) ==
    {m \in UNION {{MatchAt(r, text, captures_iter(r.regex, text)[i]) : i \in DOMAIN captures_iter(r.regex, text)} :
                  r \in {s \in {SecretConfig.rules[j] : j \in DOMAIN SecretConfig.rules} : ~s.path}} :
        Passes(SecretConfig, m)}

\* The keyword scan skips work and nothing else (detect_exposed_secrets_unfiltered is
\* the code's own reference for it): every value some rule matches and no filter
\* rejects is reported, once per rule, with the surroundings of its first match.
SecretsByDefinition(s) ==
    Is(s, "secrets") =>
        LET found == detect_exposed_secrets(SecretConfig, s.text)
            passing == PassingMatches(s.text)
            distinct == {<<m.rule.id, m.value>> : m \in passing}
            First(k) == CHOOSE m \in passing : /\ <<m.rule.id, m.value>> = k
                                             /\ \A o \in passing : <<o.rule.id, o.value>> = k => m.start <= o.start
        IN /\ {found[i] : i \in DOMAIN found} = {Finding(s.text, First(k)) : k \in distinct}
           /\ Len(found) = Cardinality(distinct)
           /\ {f.location : f \in Range(detect_exposed_secrets_in_headers(SecretConfig, s.text))}
                \subseteq {"set_cookie", "response_header"}

\* What a finding says of its value is what the value holds: the claims are those of the
\* token's own parts and never past the largest time, no stand-in of a manual is
\* reported, and the wider boundary only adds matches.
FindingsToldRight(s) ==
    Is(s, "secrets") =>
        LET found == Range(detect_exposed_secrets(SecretConfig, s.text))
            Of(id) == {f \in found : f.secret_type = id}
            tokens == {f.decoded_jwt : f \in {g \in found : g.decoded_jwt # Nothing}}
        IN /\ \A j \in tokens : /\ j.algorithm = "HS256" /\ j.issuer = "i" /\ j.subject = Nothing
                                /\ j.expiration_ms \in j.issued_at_ms .. I64_MAX
           /\ ~\E f \in Of("generic-api-key") : f.matched_value = <<"uuid">>
           /\ \A f \in Of("http-basic-auth") : f.matched_value \in {<<"b64:admin:kt12">>, <<"b64:bytes">>}
           /\ \A f \in Of("sourcegraph-access-token") : f.matched_value = <<"sgp_", "1", "1">>
           /\ \A r \in Range(SelectSeq(RawRules, Compilable)) :
                Range(captures_iter(r.regex, s.text)) \subseteq Range(captures_iter(compile_rule(r).regex, s.text))
           /\ \A f \in found : f.severity = "critical" =>
                f.secret_type \in {"private-key", "credential-bearing-url", "vault-service-token"}

\* A table of rules keeps every rule in its order, gives no list to two rules and to a
\* rule at once the list that stands first behind it.
TableToldRight(s) ==
    Is(s, "tables") =>
        LET kept == rules_from_table(s.table)
            given == SelectSeq(s.table, LAMBDA e : e.key = "number")
        IN /\ [i \in DOMAIN kept |-> kept[i].id] = [i \in DOMAIN given |-> given[i].rule.id]
           /\ \A i, j \in DOMAIN kept : i # j => kept[i].allowlists \cap kept[j].allowlists = {}
           /\ \A n \in 1 .. Len(s.table) - 1 :
                s.table[n].key = "number" /\ s.table[n + 1].key = "allowlists"
                    => \E i \in DOMAIN kept : /\ kept[i].id = s.table[n].rule.id
                                            /\ s.table[n + 1].lists[1] \in kept[i].allowlists

ContextTexts == {t \in UNION {[1 .. n -> {"a", "e", Cont}] : n \in 1 .. 9} :
                    \A i \in DOMAIN t : (t[i] = Cont) <=> (i > 1 /\ t[i - 1] = "e")}
ContextSamples ==
    UNION {{[algorithm |-> "context", text |-> t, start |-> b[1], end |-> b[2]] :
               b \in {c \in (0 .. Len(t)) \X (0 .. Len(t)) :
                         c[1] < c[2] /\ is_char_boundary(t, c[1]) /\ is_char_boundary(t, c[2])}} :
           t \in {u \in ContextTexts : Last(u) # "e"}}

WholeCharacters(t) ==
    \A i \in DOMAIN t : /\ t[i] = Cont => i > 1 /\ t[i - 1] = "e"
                       /\ t[i] = "e" => i < Len(t) /\ t[i + 1] = Cont
\* The context kept beside a secret is never longer than its cap and never cuts a
\* character, however match, surroundings and characters fall on the cap; it is all of
\* the window where that fits, and keeps everything around the match where it can.
ContextWithinCap(s) ==
    Is(s, "context") =>
        LET c == extract_context(s.text, s.start, s.end)
            from == BoundaryDown(s.text, Below(s.start, CONTEXT_CHARS))
            before == Slice(s.text, from, s.start)
        IN /\ Len(c) <= MAX_CONTEXT_BYTES
           /\ WholeCharacters(c)
           /\ Len(s.text) <= MAX_CONTEXT_BYTES => \E i \in DOMAIN s.text : IsPrefix(c, SubSeq(s.text, i, Len(s.text)))
           /\ HasByte(c, {"..."}) => IsPrefix(before, c)

SecretsTold(s) == SecretsByDefinition(s) /\ FindingsToldRight(s) /\ TableToldRight(s) /\ ContextWithinCap(s)
\* Exactly the secrets of the definition are found, told as their values are, with a
\* context that fits
\* (parse/secrets.rs:721, 905).
SecretsSound == [][SecretsTold(sample')]_sample

----------------------------------------------------------------------------
(* Export: rows with one value missing, lists at the limit, every set of   *)
(* WHOIS facts.                                                            *)

Command(format, target, run, domain, status, since) ==
    [format |-> format, output |-> target, run |-> run, domain |-> domain, status |-> status, since |-> since]
SmallCommands ==
    {Command("csv", "-", NoFilter, NoFilter, NoFilter, NoFilter), Command("parquet", "none", NoFilter, "e", NoFilter, NoFilter),
     Command("jsonl", "file", "run2", NoFilter, 200, 2), Command("parquet", "-", NoFilter, NoFilter, NoFilter, NoFilter)}
SmallKeys == {[run |-> "run1", domain |-> "d"], [run |-> "run2", domain |-> "e"]}
\* The second observation ends at the other domain, and was made before the first.
SmallFacts == <<[status |-> 200, final |-> "d", at |-> 2], [status |-> 404, final |-> "e", at |-> 1]>>
SmallLeftBehind == {{}, {"dns"}}

\* Each scalar has a value of its own, so that a swap shows.
FullRow == [id \in Ids |-> IF id \in Lists THEN <<id, KeyHeader>> ELSE IF id \in Counts THEN 0 ELSE <<id>>]
Without(ids) == [id \in Ids |-> IF id \in ids THEN IF id \in Lists THEN <<>> ELSE Null ELSE FullRow[id]]
StoredRows ==
    {Without({id}) : id \in Optional \cup Lists} \cup {Without(w) : w \in SUBSET WhoisIds}
    \cup {Without(g) : g \in SUBSET {"geoip_country_code", "geoip_asn", "geoip_latitude", "geoip_city"}}
    \cup {[FullRow EXCEPT ![l] = <<l, Comma, KeyHeader>>] : l \in Lists}
    \cup {[FullRow EXCEPT ![l] = <<l, l, l, KeyHeader>>] : l \in Lists}
    \cup {[FullRow EXCEPT !["technologies"] = t] : t \in {<<Implied, "t">>, <<Implied, "t", Implied, "u", "v", "w">>}}
ExportSamples == {[algorithm |-> "export", text |-> s, implied |-> i] : s \in StoredRows, i \in BOOLEAN}

\* A record with each of its fields, and with optional ones missing.
OptionalFields(l) == {Records[l][i].name : i \in {j \in DOMAIN Records[l] : Records[l][j].nullable}}
ItemOf(l, missing) == [f \in FieldNames(l) |-> IF f \in missing THEN Null ELSE <<f>>]
ItemSamples ==
    UNION {{[algorithm |-> "item", list |-> l, text |-> ItemOf(l, m)] :
                m \in {{}, OptionalFields(l)} \cup {{f} : f \in OptionalFields(l)}
                      \cup {OptionalFields(l) \ {f} : f \in OptionalFields(l)}} : l \in StructLists}

CsvCell(r, id) == csv_record_cells(r)[CHOOSE i \in DOMAIN CSV_FIELD_ORDER : CSV_FIELD_ORDER[i] = id]
ParquetCell(r, name) == write_batch(r)[CHOOSE i \in DOMAIN build_parquet_schema : build_parquet_schema[i] = name]

\* A row is accepted by Parquet whatever is missing from it, its counts and texts
\* are those of the lists beside them unless a list is cut at the limit or an item
\* splits, no cut hides a header that CSV shows, and no technology that is left out
\* takes the place of one that is not.  The objects of GeoIP and WHOIS say what the
\* columns say; JSONL leaves one out, with all it would say, when the facts it asks
\* for are missing, and only then.
RowShown(r, tables, implied) ==
    LET Whole(l) == Len(tables[l]) <= EXPORT_LIMIT /\ ~(l \in StringLists /\ Contains(tables[l], Comma))
    IN /\ try_new(r)
       /\ \A i \in DOMAIN EXPORT_FIELDS :
            LET f == EXPORT_FIELDS[i]
            IN /\ f.parquet # Absent => ParquetCell(r, f.parquet) = r[f.id]
               /\ f.csv /\ f.id \notin {"http_headers", "security_headers"} =>
                    CsvCell(r, f.id) = (IF r[f.id] = Null THEN EmptyCell ELSE r[f.id])
               /\ f.flat => json_obj(r)[f.id] = r[f.id]
               /\ f.id \in GeoIpIds /\ json_obj(r).geoip # Null => json_obj(r).geoip[f.id] = ParquetCell(r, f.parquet)
               /\ f.id \in WhoisIds /\ json_obj(r).whois # Null => json_obj(r).whois[f.id] = ParquetCell(r, f.parquet)
       /\ json_obj(r).geoip = Null <=>
            \A id \in {"geoip_country_code", "geoip_asn", "geoip_latitude"} : CsvCell(r, id) = EmptyCell
       /\ json_obj(r).whois = Null <=>
            \A id \in {"whois_registrar", "whois_creation_date"} : CsvCell(r, id) = EmptyCell
       /\ \A c \in Counts : LET l == CountOf[c] IN Whole(l) => r[c] = Len(r[l])
       /\ \A t \in DerivedText : r[t] = ToSet(r[DerivedFrom[t]])
       /\ \A l \in {"http_headers", "security_headers"} :
            Contains(tables[l], KeyHeader) <=> Contains(CsvCell(r, l), KeyHeader)
       /\ LET wanted == SelectSeq(tables["technologies"], LAMBDA t : implied \/ t # Implied)
          IN r["technologies"] = SubSeq(wanted, 1, Len(r["technologies"])) /\ r["technology_count"] = Min({EXPORT_LIMIT, Len(wanted)})

ClaimColumn == "algorithm" :> "jwt_algorithm" @@ "issuer" :> "jwt_issuer" @@ "subject" :> "jwt_subject"
            @@ "audience" :> "jwt_audience" @@ "expiration_ms" :> "jwt_expiration_ms"
            @@ "issued_at_ms" :> "jwt_issued_at_ms" @@ "header_json" :> "jwt_header_json"
            @@ "payload_json" :> "jwt_payload_json"
\* An item's struct is accepted, has the types of the record's fields, and says under
\* each name what the JSON object says there; claims are the same in both when JSON
\* has them; CSV shows nothing that Parquet lacks.
ItemShown(l, record) ==
    LET struct == StructItem(l, record)
        object == JsonItem(l, record)
        TypeOf(f) == CHOOSE c \in ToSet(Records[l]) : c.name = f
        At(name) == struct[CHOOSE i \in DOMAIN arrow_types[l] : arrow_types[l][i].name = name]
        Names == {arrow_types[l][i].name : i \in DOMAIN arrow_types[l]}
    IN /\ item_accepted(l, record)
       /\ \A i \in DOMAIN struct :
            /\ arrow_types[l][i].type = TypeOf(AppendedFields(l)[i]).type
            /\ arrow_types[l][i].nullable <=> TypeOf(AppendedFields(l)[i]).nullable
       /\ \A k \in Names \cap DOMAIN object : At(k) = object[k]
       /\ \A f \in FieldNames(l) : record[f] # Null /\ l # "exposed_secrets" => record[f] \in Range(object)
       /\ "jwt_claims" \in DOMAIN object =>
            \A k \in DOMAIN ClaimColumn : object["jwt_claims"][k] = At(ClaimColumn[k])
       /\ l \in CsvLists => Range(CsvItem(l, record)) \ {EmptyCell} \subseteq Range(struct)

FormatsTold(s) ==
    /\ Is(s, "export") => RowShown(build_export_row(s.text, s.implied), s.text, s.implied)
    /\ Is(s, "item") => ItemShown(s.list, s.text)
\* The three formats show one row: under the name the registry gives a field each
\* shows that field, an empty cell for no value in CSV, and so for the fields of an
\* item (fields.rs:386, parquet.rs:852).  They show one number for the response time,
\* the seconds that are stored, although CSV and JSONL call it response_time_ms
\* (fields.rs:514-524) and only Parquet response_time_seconds; and JSONL shows no
\* WHOIS object unless registrar or creation date are known, where the other two show
\* the expiration date and the country too (jsonl.rs:160 says "null if no data").
FormatsAgree == [][FormatsTold(sample')]_sample

----------------------------------------------------------------------------
(* Detection.                                                              *)

NoRule == [fields |-> {"header"}, js |-> {}, implies |-> Empty, excludes |-> {}, requires |-> {},
           cats |-> {}, requires_category |-> {}]

\* A version template behind each implication and signal.
V1 == extract_version_from_template(<<Group(1)>>, <<<<"1", ";", "9">>>>)
V2 == extract_version_from_template(<<Group(1), Text(<<"?">>), Text(<<"2">>), Text(<<":">>)>>, <<NoVersion>>)
Hash == extract_version_from_template(<<Group(1)>>, <<<<"deadbeef">>>>)
Spaces == extract_version_from_template(<<Group(1)>>, <<<<" ">>>>)

Chain == t1 :> [NoRule EXCEPT !.implies = (t2 :> V1)]
      @@ t2 :> [NoRule EXCEPT !.implies = (t3 :> V1), !.cats = {1}]
      @@ t3 :> [NoRule EXCEPT !.implies = (t1 :> Hash), !.requires = {t2}, !.js = {"id", "global"}]
      @@ t4 :> [NoRule EXCEPT !.excludes = {t2}, !.implies = (t3 :> V2)]
Dependent == t1 :> [NoRule EXCEPT !.requires = {t2}, !.implies = (t4 :> V1)]
          @@ t2 :> [NoRule EXCEPT !.requires_category = {1}]
          @@ t3 :> [NoRule EXCEPT !.cats = {1}, !.excludes = {t4}]
          @@ t4 :> [NoRule EXCEPT !.excludes = {t3}, !.js = {"id"}]
JsOnlyRaw == [Chain EXCEPT ![t2] = [@ EXCEPT !.fields = {}, !.js = {"global"}],
                           ![t4] = [@ EXCEPT !.fields = {}, !.js = {"id"}]]
SmallRulesets ==
    {[raw |-> r, denylist |-> IF ca THEN {} ELSE {t3}, categories |-> 1 :> IF ca THEN CertificateAuthorities ELSE "cms"] :
        r \in {Chain, Dependent, JsOnlyRaw}, ca \in BOOLEAN}

Signal(c, v) == [channel |-> c, matched |-> TRUE, version |-> v, presence |-> FALSE]
Silent(c) == [channel |-> c, matched |-> FALSE, version |-> NoVersion, presence |-> FALSE]
Present(c) == [channel |-> c, matched |-> TRUE, version |-> NoVersion, presence |-> TRUE]

Some(ts, signals) == [t \in Techs |-> IF t \in ts THEN signals ELSE <<>>]
SmallPages ==
    {[signals |-> [header |-> Some(h, <<Silent("Header"), Present("Header"), Signal("Header", V1)>>),
                   cookie |-> Some(c, <<Signal("Cookie", NoVersion), Signal("Cookie", Hash)>>),
                   body |-> Some(b, <<Signal("Html", Spaces), Signal("Url", V2)>>),
                   dns |-> Some(d, <<Signal("Ns", V2), Signal("Cert", NoVersion)>>),
                   fetched |-> Some(f, <<Signal("Scripts", NoVersion)>>)],
      ids |-> i, on_github |-> g] :
        h \in {{}, {t1}, {t4}}, c \in {{}, {t2}, {t1, t4}}, b \in {{}, {t1, t3}}, d \in {{}, {t2}, {t2, t3}},
        f \in {{}, {t4}}, i \in {{}, {t4}}, g \in BOOLEAN}

----------------------------------------------------------------------------
NoPage == /\ rules = [tech |-> Empty, denylist |-> {}, categories |-> Empty] /\ page = NoSample
          /\ stage = "page" /\ step = "sampled" /\ rounds = 0
          /\ detected = Empty /\ report = Empty /\ start = {}
NoExport == ExportInit /\ request = execute_export_command(CHOOSE c \in Commands : TRUE)

TakeSample ==
    \/ \E p \in UNION {Variants(b) : b \in Bodies}, o \in OtherPatterns, t \in TextsUpTo(3) :
          sample' = [algorithm |-> "index", pattern |-> p, other |-> o, text |-> t]
    \/ TakeSignals
    \/ sample' \in SecretSamples
    \/ sample' \in TableSamples
    \/ sample' \in ContextSamples
    \/ sample' \in ExportSamples
    \/ sample' \in ItemSamples
    \/ sample' = [algorithm |-> "shapes"]

PageInit == \/ Init /\ NoExport /\ sample = NoSample
            \/ NoPage /\ NoExport /\ sample = Unread
            \/ NoPage /\ ExportInit /\ sample = [algorithm |-> "exporting"]
PageNext == \/ Next /\ UNCHANGED <<sample, xvars>>
            \/ Sampled("unread") /\ TakeSample /\ UNCHANGED <<vars, xvars>>
            \/ Sampled("exporting") /\ ExportNext /\ UNCHANGED <<vars, sample>>
PageSpec == PageInit /\ [][PageNext]_<<vars, sample, xvars>>
=============================================================================
