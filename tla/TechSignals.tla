---------------------------- MODULE TechSignals ----------------------------
(***************************************************************************)
(* The signals of one technology (fingerprint/models.rs, detection/        *)
(* headers.rs, cookies.rs, signal_match.rs, dns_cert.rs, patterns/mod.rs): *)
(* how a rule's fields are read, compiled and held against the headers,    *)
(* cookies, meta tags, DNS records and certificate of a response.          *)
(*                                                                         *)
(* Maps are functions; where the code iterates over a hash map the order   *)
(* of its keys is an argument.  A name is a sequence of tokens where it    *)
(* may hold a wildcard, else one token.  A JSON value is [json, text,      *)
(* number, items].                                                         *)
(***************************************************************************)
EXTENDS Patterns

CONSTANTS
    Refused,     \* the answer of a deserializer that fails
    NoValue,     \* None
    U32_MAX

LowerCase == [A |-> "a", Server |-> "server"]
LowerToken(t) == IF t \in DOMAIN LowerCase THEN LowerCase[t] ELSE t
LowerText(text) == [i \in 1 .. Len(text) |-> LowerToken(text[i])]
UpperType(t) == IF t = "cname" THEN "CNAME" ELSE t

----------------------------------------------------------------------------
(* models.rs: a field of a rule in its several shapes.                     *)

deserialize_string_or_array(v) ==
    CASE v.json = "string" -> <<v.text>>
      [] v.json = "array" ->
            IF \E i \in 1 .. Len(v.items) : v.items[i].json # "string" THEN Refused
            ELSE [i \in 1 .. Len(v.items) |-> v.items[i].text]
      [] OTHER -> Refused

\* A number, or a string of digits: NotANumber for any other string.
U32(v) == v.json \in {"number", "string"} /\ v.number \in 0 .. U32_MAX
deserialize_u32_or_array(v) ==
    CASE U32(v) -> <<v.number>>
      [] v.json = "array" ->
            IF \E i \in 1 .. Len(v.items) : ~U32(v.items[i]) THEN Refused
            ELSE [i \in 1 .. Len(v.items) |-> v.items[i].number]
      [] OTHER -> Refused

\* Here an item that is not a string is left out.
deserialize_meta_map(m) ==
    IF \E k \in DOMAIN m : m[k].json \notin {"string", "array"} THEN Refused
    ELSE [k \in DOMAIN m |->
            IF m[k].json = "string" THEN <<m[k].text>>
            ELSE LET texts == SelectSeq(m[k].items, LAMBDA v : v.json = "string")
                 IN [i \in 1 .. Len(texts) |-> texts[i].text]]

----------------------------------------------------------------------------
(* compiled.rs: the patterns of a technology, compiled once.               *)

compile_list(patterns) ==
    SelectSeq([i \in 1 .. Len(patterns) |-> compile_pattern(patterns[i])], LAMBDA c : c # NoPattern)
compile_map(patterns) ==
    [k \in {j \in DOMAIN patterns : compile_pattern(patterns[j]) # NoPattern} |-> compile_pattern(patterns[k])]
compile_list_map(patterns) == [k \in DOMAIN patterns |-> compile_list(patterns[k])]
from_technology(tech) ==
    [meta |-> compile_list_map(tech.meta), headers |-> compile_map(tech.headers), cookies |-> compile_map(tech.cookies),
     dns |-> compile_list_map(tech.dns), cert_issuer |-> compile_list(tech.cert_issuer)]

----------------------------------------------------------------------------
(* Headers and cookies of a response.  A header is [name, value], a value  *)
(* NoValue where it is not text; a cookie likewise where it has no "=".    *)

\* The values of one header, joined.
JoinWith(separator, texts) ==
    FoldLeft(LAMBDA out, t : IF out = <<>> THEN t ELSE out \o separator \o t, <<>>, texts)
normalize_headers_to_map(headers) ==
    LET readable == SelectSeq(headers, LAMBDA h : h.value # NoValue)
        names == {LowerToken(readable[i].name) : i \in 1 .. Len(readable)}
        Of(n) == SelectSeq(readable, LAMBDA h : LowerToken(h.name) = n)
    IN [n \in names |-> JoinWith(<<",", " ">>, [i \in 1 .. Len(Of(n)) |-> LowerText(Of(n)[i].value)])]

\* The last cookie of a name counts, those of the request's header after all others.
extract_cookies_name_value_map(set_cookies, cookie_header) ==
    LET all == SelectSeq(set_cookies \o cookie_header, LAMBDA c : c.value # NoValue)
        names == {LowerText(all[i].name) : i \in 1 .. Len(all)}
        Latest(n) == Max({i \in 1 .. Len(all) : LowerText(all[i].name) = n})
    IN [n \in names |-> LowerText(all[Latest(n)].value)]

----------------------------------------------------------------------------
(* The matchers.  Their state: [matched, version, done].                   *)

Start == [matched |-> FALSE, version |-> NoVersion, done |-> FALSE]

\* One result: the first version stays and ends the search.
Take(state, result) ==
    LET version == IF state.version = NoVersion THEN result.version ELSE state.version
    IN IF ~result.matched THEN state
       ELSE [state EXCEPT !.matched = TRUE, !.version = version, !.done = version # NoVersion]
\* consider_cookie, and the same lines of match_string_map_signal: a pattern that
\* asks for presence only ends the search as well.
consider_cookie(state, compiled, value) ==
    IF compiled.presence_only THEN [state EXCEPT !.matched = TRUE, !.done = TRUE]
    ELSE Take(state, evaluate(compiled, value))

is_csp_allowlist_header(name) == name \in {"content-security-policy", "content-security-policy-report-only"}
match_string_map_signal(prepared, values, order, skipped) ==
    FoldLeft(LAMBDA state, key :
                IF state.done \/ key \in skipped \/ key \notin DOMAIN values \/ key \notin DOMAIN prepared THEN state
                ELSE consider_cookie(state, prepared[key], values[key]),
             Start, order)
check_headers_with_ruleset(prepared, headers, order) ==
    match_string_map_signal(prepared.headers, headers, order, {key \in DOMAIN headers : is_csp_allowlist_header(key)})

\* The literal pieces of a name with its wildcards between, anchored.
wildcard_cookie_regex(name) ==
    LET pieces == [i \in 1 .. Len(name) |-> IF name[i] = "*" THEN ".*" ELSE Escaped(name)[i]]
    IN get_or_compile_regex(NoCache, <<"^">> \o pieces \o <<"$">>, <<"cookie:">> \o name).regex

\* check_cookies_with_ruleset: a presence-only pattern behind a wildcard ends the
\* walk through the cookies, not that through the names.
check_cookies_with_ruleset(prepared, cookies, order, jar) ==
    FoldLeft(LAMBDA state, name :
        IF state.done \/ name \notin DOMAIN prepared.cookies THEN state
        ELSE IF "*" \in Tokens(name)
        THEN LET walked == FoldLeft(LAMBDA s, actual :
                               IF s.done \/ ~RegexMatches(wildcard_cookie_regex(name), actual) THEN s
                               ELSE consider_cookie(s, prepared.cookies[name], cookies[actual]),
                             state, jar)
             IN [walked EXCEPT !.done = walked.version # NoVersion]
        ELSE IF name \in DOMAIN cookies THEN consider_cookie(state, prepared.cookies[name], cookies[name])
        ELSE state, Start, order)

\* Each value of a meta tag against each pattern in turn; direct, and compiled.
absorb_meta_hit(state, result) == IF state.done THEN state ELSE Take(state, result)
string_meta_values(patterns, values) ==
    FoldLeft(absorb_meta_hit, Start,
             FlattenSeq([i \in DOMAIN values |-> [j \in DOMAIN patterns |-> matches_pattern(NoCache, patterns[j], values[i])]]))
compiled_meta_values(patterns, values) ==
    FoldLeft(absorb_meta_hit, Start,
             FlattenSeq([i \in DOMAIN values |-> [j \in DOMAIN patterns |-> evaluate(patterns[j], values[i])]]))

\* A key with the kind of attribute in front of it asks for that, a plain one for
\* any of the three, the first that matches.  Keys are <<kind, name>>; check is
\* what the patterns make of each tag's values.
MetaKinds == <<"name", "property", "http-equiv">>
route_meta_key(key, check) ==
    LET kinds == IF key[1] \in {"property", "http-equiv"} THEN <<key[1]>> ELSE MetaKinds
        present == SelectSeq(kinds, LAMBDA k : <<k, key[2]>> \in DOMAIN check)
        matching == SelectSeq(present, LAMBDA k : check[<<k, key[2]>>].matched)
    IN IF matching = <<>> THEN Miss
       ELSE LET r == check[<<Head(matching), key[2]>>] IN [matched |-> TRUE, version |-> r.version]
check_meta_patterns(key, patterns, meta_tags) ==
    route_meta_key(key, [tag \in DOMAIN meta_tags |-> string_meta_values(patterns, meta_tags[tag])])
check_compiled_meta_patterns(key, patterns, meta_tags) ==
    route_meta_key(key, [tag \in DOMAIN meta_tags |-> compiled_meta_values(patterns, meta_tags[tag])])
match_meta(prepared, meta_tags, order) ==
    FoldLeft(LAMBDA s, key : IF s.done THEN s
                             ELSE Take(s, check_compiled_meta_patterns(key, prepared.meta[key], meta_tags)),
             Start, order)

----------------------------------------------------------------------------
(* detection/mod.rs and dns_cert.rs.                                       *)

is_serving_stack_dns_type(type) == UpperType(type) \in {"NS", "CNAME"}
dns_records_haystack(nameservers, cname_chain) ==
    LET given == [NS |-> nameservers, CNAME |-> cname_chain]
    IN [t \in {u \in {"NS", "CNAME"} : given[u] \notin {NoValue, <<>>}} |-> LowerText(given[t])]

\* Patterns in order until there is a version; the source is that of the first match.
TakeFrom(state, patterns, text, source) ==
    FoldLeft(LAMBDA s, c :
        LET r == evaluate(c, text)
            next == Take(s, r)
        IN IF s.done \/ ~r.matched THEN s
           ELSE [next EXCEPT !.source = IF s.source = NoValue THEN source ELSE s.source],
        state, patterns)
check_dns_and_cert_with_ruleset(prepared, records, cert_issuer, order) ==
    LET dns == FoldLeft(LAMBDA s, type :
                   IF s.done \/ ~is_serving_stack_dns_type(type) \/ UpperType(type) \notin DOMAIN records THEN s
                   ELSE TakeFrom(s, prepared.dns[type], records[UpperType(type)], IF UpperType(type) = "CNAME" THEN "cname" ELSE "ns"),
                   [matched |-> FALSE, version |-> NoVersion, done |-> FALSE, source |-> NoValue], order)
    IN IF cert_issuer = NoValue THEN dns
       ELSE TakeFrom([dns EXCEPT !.done = FALSE], prepared.cert_issuer, LowerText(cert_issuer), "cert")
=============================================================================
