----------------------------- MODULE PageFacts -----------------------------
(***************************************************************************)
(* What a page and its headers say (parse/html.rs, structured.rs,          *)
(* social.rs, contact.rs, analytics.rs; fetch/response/html.rs, stream.rs, *)
(* charset.rs, cookies.rs, cdn.rs; security/hsts.rs).                      *)
(*                                                                         *)
(* A document is the sequence of its elements, an element a tag, its       *)
(* attributes (a function on the names present) and its text.  A text is   *)
(* a sequence of tokens where the code walks through it and one token      *)
(* where it does not.                                                      *)
(***************************************************************************)
EXTENDS Integers, SequencesExt, Functions

CONSTANTS
    Null,
    EmptyText,
    Malformed,      \* a text that is not JSON
    U64_MAX,
    I64_MAX,
    MIN_GTM_ID_LENGTH,
    PublicSuffixes

Or(value, default) == IF value = Null THEN default ELSE value
NonEmpty(value) == IF value = EmptyText THEN Null ELSE value
Fold(f(_, _), init, s) == FoldLeft(f, init, s)
Mapped(s, f(_)) == [i \in DOMAIN s |-> f(s[i])]
FirstOf(s) == IF s = <<>> THEN Null ELSE s[1]

\* Keep the first of the items with one key.
FirstPerKey(items, Key(_)) ==
    Fold(LAMBDA out, item : IF \E i \in DOMAIN out : Key(out[i]) = Key(item) THEN out ELSE Append(out, item),
         <<>>, items)

\* Texts that differ in case.
LowerCase == [Charset |-> "charset", Refresh |-> "refresh", Generator |-> "generator", Robots |-> "robots", Preload |-> "preload"]
Lowered(s) == IF s \in DOMAIN LowerCase THEN LowerCase[s] ELSE s

----------------------------------------------------------------------------
(* stream.rs: chunks of a body up to a limit.                              *)

AddChunk(state, chunk, max_size, on_limit) ==
    CASE state.kind # "reading" -> state
      [] chunk = Null -> [kind |-> "Read", bytes |-> <<>>]
      [] Len(state.bytes) + Len(chunk) > max_size ->
            IF on_limit = "Truncate"
            THEN [kind |-> "Truncated", bytes |-> state.bytes \o SubSeq(chunk, 1, max_size - Len(state.bytes))]
            ELSE [kind |-> IF on_limit = "Abort" THEN "LimitExceeded" ELSE "TooLarge", bytes |-> <<>>]
      [] OTHER -> [state EXCEPT !.bytes = @ \o chunk]
stream_bytes_with_limit(chunks, max_size, on_limit) ==
    LET end == Fold(LAMBDA s, c : AddChunk(s, c, max_size, on_limit), [kind |-> "reading", bytes |-> <<>>], chunks)
    IN IF end.kind = "reading" THEN [end EXCEPT !.kind = "Complete"] ELSE end

\* Too long by its own header; Null where it has none.
reject_if_content_length_exceeds(content_length, max_size) == content_length # Null /\ content_length > max_size
NEWLINE == 10
\* The base64 text of an icon as it is hashed: a line end behind every width (76)
\* characters and at the end.
WrappedLines(chars, width) ==
    LET broken == FlattenSeq([i \in DOMAIN chars |-> IF i % width = 0 THEN <<chars[i], NEWLINE>> ELSE <<chars[i]>>])
    IN IF broken # <<>> /\ Last(broken) = NEWLINE THEN broken ELSE Append(broken, NEWLINE)

\* The first charset parameter that is not empty; a part is [name, value].
charset_from_content_type(parts) ==
    FirstOf(Mapped(SelectSeq(parts, LAMBDA p : Lowered(p.name) = "charset" /\ p.value # EmptyText), LAMBDA p : p.value))
\* A meta tag is the sequence of what it calls a charset, as an attribute or inside
\* its content.  The first tag with one in the window is matched, and the greedy
\* expression takes its last.
sniff_meta_charset(metas, window) ==
    LET seen == Mapped(metas, LAMBDA m : SelectSeq(m, LAMBDA c : c.at <= window))
        named == SelectSeq(seen, LAMBDA m : m # <<>>)
    IN IF named = <<>> THEN Null ELSE Last(named[1]).label
\* charset.rs: the encoding of a body.  A label is Null, or known, or not.
Known(label) == label \notin {Null, "unknown"}
decode_body(content_type, bom, meta, meta_sniff) ==
    CASE Known(content_type) -> content_type
      [] bom # Null -> bom
      [] meta_sniff /\ Known(meta) -> meta
      [] OTHER -> "UTF-8"

compute_body_sha256(body) == IF body = <<>> THEN Null ELSE <<"sha256", body>>
\* The text, and whether it is only the beginning.
decode_streamed_body(streamed, content_type, bom, meta) ==
    [body |-> <<decode_body(content_type, bom, meta, TRUE), streamed.bytes>>, truncated |-> streamed.kind = "Truncated"]

is_scannable_content_type(mime) ==
    \/ mime.type = "text"
    \/ mime.type = "application" /\ mime.subtype \in {"xhtml+xml", "javascript", "ecmascript", "x-javascript", "json", "xml"}
    \/ mime.suffix \in {"+json", "+xml"}

----------------------------------------------------------------------------
(* security/hsts.rs: a value is what its segments are wrapped in (quotes,  *)
(* the header's name in front), outermost first, and the segments; a       *)
(* segment has a name and Null or the tokens behind its '='.  A number     *)
(* token is a digit.                                                       *)

IsDigit(t) == t \in {"0", "1", "2", "3", "4", "5", "6", "7", "8", "9"}
Digits == <<"0", "1", "2", "3", "4", "5", "6", "7", "8", "9">>
DigitValue(t) == (CHOOSE i \in DOMAIN Digits : Digits[i] = t) - 1
Separator(t) == t \in {",", "_"}

TrimMatches(s, tokens) ==
    LET kept == {i \in DOMAIN s : s[i] \notin tokens} IN IF kept = {} THEN <<>> ELSE SubSeq(s, Min(kept), Max(kept))
\* raw.trim().trim_matches('"').trim()
MaxAgeText(raw) == TrimMatches(TrimMatches(TrimMatches(raw, {" "}), {"quote"}), {" "})

parse_max_age_number(raw) ==
    LET walk == Fold(LAMBDA s, t :
                        CASE s.done -> s
                          [] IsDigit(t) -> [s EXCEPT !.digits = Append(@, t)]
                          [] Separator(t) -> s
                          [] t = " " /\ s.digits = <<>> -> s
                          [] OTHER -> [s EXCEPT !.done = TRUE],
                     [digits |-> <<>>, done |-> FALSE], MaxAgeText(raw))
        number == Fold(LAMBDA n, t : IF n > U64_MAX THEN n ELSE 10 * n + DigitValue(t), 0, walk.digits)
    IN IF walk.digits = <<>> \/ number > U64_MAX THEN Null ELSE number

\* Mutated form: a blank in front of the number ends it.
RemainderAtBlank(raw) ==
    LET text == MaxAgeText(raw)
        stops == {i \in DOMAIN text : ~IsDigit(text[i]) /\ ~Separator(text[i])}
    IN IF stops = {} THEN 0 ELSE Min(stops)
\* The place behind the number, 0 where the text ends with it.
remainder_after_max_age_number(raw) ==
    LET text == MaxAgeText(raw)
        Stops(i) == /\ ~IsDigit(text[i]) /\ ~Separator(text[i])
                    /\ text[i] = " " => \E j \in 1 .. i - 1 : IsDigit(text[j])
        stops == {i \in DOMAIN text : Stops(i)}
    IN IF stops = {} THEN 0 ELSE Min(stops)

apply_flag_name(result, name) ==
    CASE name = "includesubdomains" -> [result EXCEPT !.include_subdomains = TRUE]
      [] name = "preload" -> [result EXCEPT !.preload = TRUE]
      [] OTHER -> result

\* Tokens between two commas, without blanks.
CommaParts(s) ==
    Fold(LAMBDA out, t : CASE t = "," -> Append(out, <<>>)
                           [] t = " " -> out
                           [] OTHER -> [out EXCEPT ![Len(out)] = Append(@, t)], << <<>> >>, s)
apply_trailing_comma_flags(result, raw) ==
    LET from == remainder_after_max_age_number(raw)
        text == MaxAgeText(raw)
        parts == IF from = 0 THEN <<>> ELSE CommaParts(SubSeq(text, from, Len(text)))
        named == SelectSeq(parts, LAMBDA p : p # <<>> /\ ~IsDigit(Head(p)))
    IN Fold(LAMBDA r, p : IF Len(p) = 1 THEN apply_flag_name(r, p[1]) ELSE r, result, named)

apply_hsts_segment(result, segment) ==
    CASE segment.name = "" -> result
      [] segment.name \in {"max-age", "maxage"} ->
            IF segment.value = Null THEN result
            ELSE apply_trailing_comma_flags([result EXCEPT !.max_age = parse_max_age_number(segment.value)], segment.value)
      [] OTHER -> apply_flag_name(result, segment.name)

StripOne(wrapped, wrap) == IF wrapped # <<>> /\ Head(wrapped) = wrap THEN Tail(wrapped) ELSE wrapped
\* What is left around the segments joins the first of them, a closing quote the last.
JoinedTo(left, segments) ==
    LET first == [segments EXCEPT ![1].name = "other"]
        last == first[Len(first)]
    IN CASE left = <<>> -> segments
         [] "quotes" \in Range(left) ->
              [first EXCEPT ![Len(first)] = IF last.value = Null THEN [last EXCEPT !.name = "other"]
                                            ELSE [last EXCEPT !.value = Append(@, "quote")]]
         [] OTHER -> first
\* One pair of quotes around the value, then one name in front of it, are dropped.
normalize_hsts_value(value) == JoinedTo(StripOne(StripOne(value.wrapped, "quotes"), "name"), value.segments)
parse_hsts_directive(value) ==
    Fold(apply_hsts_segment, [max_age |-> Null, include_subdomains |-> FALSE, preload |-> FALSE],
         normalize_hsts_value(value))
\* i64::try_from(v).unwrap_or(i64::MAX)
Stored(max_age) == IF max_age # Null /\ max_age > I64_MAX THEN I64_MAX ELSE max_age

----------------------------------------------------------------------------
(* fetch/cookies.rs: a Set-Cookie header is a sequence of parts, the first *)
(* the cookie's name and value, the others attributes.                     *)

allowlisted_same_site(token) == IF token \in {"strict", "lax", "none"} THEN token ELSE Null
ApplyAttribute(c, part) ==
    CASE part.name = "secure" -> [c EXCEPT !.secure = TRUE]
      [] part.name = "httponly" -> [c EXCEPT !.http_only = TRUE]
      [] part.name = "samesite" ->
            LET value == allowlisted_same_site(part.value)
            IN CASE value # Null /\ c.same_site = Null /\ ~c.same_site_invalid -> [c EXCEPT !.same_site = value]
                 [] value = Null -> [c EXCEPT !.same_site = Null, !.same_site_invalid = TRUE]
                 [] OTHER -> c
      [] part.name = "domain" -> [c EXCEPT !.domain = NonEmpty(part.value)]
      [] part.name = "path" -> [c EXCEPT !.path = part.value]
      [] OTHER -> c
NoCookie(name, value) ==
    [name |-> name, value |-> value, secure |-> FALSE, http_only |-> FALSE, same_site |-> Null,
     same_site_invalid |-> FALSE, domain |-> Null, path |-> Null]
parse_set_cookie(parts) ==
    IF Head(parts).name = EmptyText THEN Null
    ELSE Fold(ApplyAttribute, NoCookie(Head(parts).name, Head(parts).value), Tail(parts))
parse_all_set_cookies(headers) ==
    SelectSeq([i \in DOMAIN headers |-> parse_set_cookie(headers[i])], LAMBDA c : c # Null)
extract_cookie_infos(headers) ==
    LET all == parse_all_set_cookies(headers)
    IN [i \in DOMAIN all |->
          [k |-> all[i].name,
           v |-> <<all[i].secure, all[i].http_only, all[i].same_site, all[i].domain, all[i].path>>]]

----------------------------------------------------------------------------
(* config/headers.rs and fetch/cdn.rs.  A header's value is the set of the *)
(* words the code looks for in it.                                         *)

SECURITY_HEADERS ==
    {"content-security-policy", "content-security-policy-report-only", "strict-transport-security",
     "x-content-type-options", "x-frame-options", "x-xss-protection", "referrer-policy", "permissions-policy",
     "cross-origin-opener-policy", "cross-origin-embedder-policy", "cross-origin-resource-policy",
     "access-control-allow-origin", "access-control-allow-methods", "access-control-allow-headers",
     "access-control-allow-credentials", "access-control-expose-headers", "access-control-max-age"}
HTTP_HEADERS ==
    {"server", "x-powered-by", "x-generator", "cf-ray", "cf-cache-status", "x-served-by", "via", "x-amz-cf-id",
     "x-amz-cf-pop", "x-azure-ref", "x-msedge-ref", "x-akamai-request-id", "x-vercel-id", "x-vercel-cache",
     "x-nf-request-id", "fastly-io-info", "server-timing", "x-cache", "cache-control", "etag", "last-modified",
     "link", "alt-svc", "accept-ch", "critical-ch", "clear-site-data", "report-to", "nel", "x-robots-tag"}
Collected(headers, names) == Restrict(headers, DOMAIN headers \cap names)

Has(headers, names) == DOMAIN headers \cap names # {}
header_value(headers, name) == IF name \in DOMAIN headers THEN headers[name] ELSE {}
detect_from_headers(h) ==
    CASE Has(h, {"cf-ray", "cf-cache-status"}) -> "cloudflare"
      [] "cache-" \in header_value(h, "x-served-by") \/ Has(h, {"fastly-io-info"}) -> "fastly"
      [] Has(h, {"x-amz-cf-id", "x-amz-cf-pop"}) -> "cloudfront"
      [] Has(h, {"x-azure-ref", "x-msedge-ref"}) -> "azure"
      [] Has(h, {"x-akamai-request-id", "akamai-grn"}) -> "akamai"
      [] Has(h, {"x-vercel-id", "x-vercel-cache"}) -> "vercel"
      [] Has(h, {"x-nf-request-id"}) -> "netlify"
      [] Has(h, {"x-github-request-id"}) -> "github_pages"
      [] "cloudflare" \in header_value(h, "server") -> "cloudflare"
      [] "netlify" \in header_value(h, "server") -> "netlify"
      [] "cloudfront" \in header_value(h, "via") -> "cloudfront"
      [] "varnish" \in header_value(h, "via") /\ Has(h, {"x-served-by"}) -> "fastly"
      [] OTHER -> Null

DNS_RULES ==
    <<<<"cloudflare", "cloudflare">>, <<"fastly", "fastly">>, <<"cloudfront.net", "cloudfront">>,
      <<"akamai", "akamai">>, <<"edgekey.net", "akamai">>, <<"azureedge.net", "azure">>,
      <<"trafficmanager.net", "azure">>, <<"vercel-dns", "vercel">>, <<"vercel.app", "vercel">>,
      <<"netlify", "netlify">>, <<"github.io", "github_pages">>, <<"googleusercontent", "google">>,
      <<"ghs.google", "google">>, <<"awsdns", "aws_dns">>>>
\* The words of a list of names, kept as one JSON text.
detect_from_dns_blob(names) ==
    IF names \in {Null, EmptyText, Malformed} THEN Null
    ELSE LET hits == {i \in DOMAIN DNS_RULES : \E j \in DOMAIN names : names[j] = DNS_RULES[i][1]}
         IN IF hits = {} THEN Null ELSE DNS_RULES[CHOOSE i \in hits : \A j \in hits : i <= j][2]
detect_cdn_provider(http_headers, security_headers, cname_chain, nameservers) ==
    Or(detect_from_headers(http_headers),
       Or(detect_from_headers(security_headers), Or(detect_from_dns_blob(cname_chain), detect_from_dns_blob(nameservers))))

----------------------------------------------------------------------------
(* parse/html.rs.  A document has its elements, the sources the script     *)
(* expression finds in its text and the matches of each analytics rule.    *)
(* An element has a tag, attributes, its text as tokens and Malformed or   *)
(* the JSON value of that text.                                            *)

Trim(s) ==
    LET solid == {i \in DOMAIN s : s[i] # " "}
    IN IF solid = {} THEN <<>> ELSE SubSeq(s, Min(solid), Max(solid))
Elements(doc, tag) == SelectSeq(doc.elements, LAMBDA e : e.tag = tag)
Attr(e, name) == IF name \in DOMAIN e.attrs THEN e.attrs[name] ELSE Null
Present(s) == SelectSeq(s, LAMBDA x : x # Null)

strip_html_tags(html) ==
    Fold(LAMBDA st, t : CASE t = "<" -> [st EXCEPT !.in_tag = TRUE]
                          [] t = ">" -> [st EXCEPT !.in_tag = FALSE]
                          [] st.in_tag -> st
                          [] OTHER -> [st EXCEPT !.out = Append(@, t)],
         [in_tag |-> FALSE, out |-> <<>>], html).out
\* The first title, and whether its absence is counted.
extract_title(doc) ==
    LET title == FirstOf(Elements(doc, "title"))
        text == IF title = Null THEN <<>>
                ELSE IF Trim(title.text) # <<>> THEN Trim(title.text) ELSE Trim(strip_html_tags(title.text))
    IN [value |-> text, warning |-> text = <<>>]
extract_meta_description(doc) ==
    LET named == FirstOf(SelectSeq(Elements(doc, "meta"), LAMBDA e : Attr(e, "name") = "description"))
        text == IF named = Null \/ Attr(named, "content") = Null THEN Null ELSE Trim(Attr(named, "content"))
    IN [value |-> text, warning |-> text = Null]

----------------------------------------------------------------------------
(* parse/structured.rs.  A JSON value is [json |-> "string", text],        *)
(* [json |-> "array", items], [json |-> "object", type, graph] or          *)
(* [json |-> "other"].                                                     *)

push_schema_type(types, text) == IF Trim(text) = <<>> THEN types ELSE Append(types, Trim(text))
push_type_value(types, value) ==
    CASE value.json = "string" -> push_schema_type(types, value.text)
      [] value.json = "array" ->
            Fold(LAMBDA out, v : IF v.json = "string" THEN push_schema_type(out, v.text) ELSE out, types, value.items)
      [] OTHER -> types
RECURSIVE collect_schema_types(_, _)
collect_schema_types(types, value) ==
    CASE value.json = "array" -> Fold(collect_schema_types, types, value.items)
      [] value.json = "object" ->
            LET own == IF value.type = Null THEN types ELSE push_type_value(types, value.type)
            IN IF value.graph = Null THEN own ELSE collect_schema_types(own, value.graph)
      [] OTHER -> types

\* A type attribute is its media type and whether parameters follow it.
is_json_ld_script_type(type) == Lowered(type.mime) = "application/ld+json"
parse_json_ld_block(e) ==
    CASE Trim(e.text) = <<>> \/ e.json = Malformed -> <<>>
      [] e.json.json = "array" -> e.json.items
      [] OTHER -> <<e.json>>
extract_json_ld(doc) ==
    LET blocks == SelectSeq(Elements(doc, "script"),
                            LAMBDA e : Attr(e, "type") # Null /\ is_json_ld_script_type(Attr(e, "type")))
    IN FlattenSeq(Mapped(blocks, parse_json_ld_block))

\* A later tag of the same name replaces an earlier one.
LastPerName(doc, attribute, family) ==
    LET tags == SelectSeq(Elements(doc, "meta"),
                          LAMBDA e : Attr(e, attribute) \in family /\ Attr(e, "content") # Null)
        names == {Attr(tags[i], attribute) : i \in DOMAIN tags}
    IN [n \in names |-> Attr(tags[Max({i \in DOMAIN tags : Attr(tags[i], attribute) = n})], "content")]
extract_open_graph(doc) == LastPerName(doc, "property", {"og:title", "og:image"})
extract_twitter_cards(doc) == LastPerName(doc, "name", {"twitter:card", "twitter:site"})
extract_structured_data(doc) ==
    [json_ld |-> extract_json_ld(doc),
     open_graph |-> extract_open_graph(doc),
     twitter_cards |-> extract_twitter_cards(doc),
     schema_types |-> Fold(collect_schema_types, <<>>, extract_json_ld(doc))]

----------------------------------------------------------------------------
(* Links.  A reference has a form ("absolute", "//", "/" or "bare"), a     *)
(* scheme, the labels of its host (Null where it does not parse), the      *)
(* segments of its path, the bytes behind "mailto:" or "tel:", and the     *)
(* links written inside it.                                                *)

Web(scheme) == scheme \in {"http", "https"}
WithoutWww(host) == IF Len(host) > 1 /\ Head(host) = "www" THEN Tail(host) ELSE host
LinksIn(href) ==
    (IF href.form = "absolute" /\ Web(href.scheme) /\ href.host # Null
     THEN <<[site |-> WithoutWww(href.host), path |-> href.path]>> ELSE <<>>) \o href.embeds

Com(name) == {<<name, "com">>}
SocialPattern(platform, sites, dirs) == [platform |-> platform, sites |-> sites, dirs |-> dirs]
SOCIAL_PATTERNS ==
    <<SocialPattern("LinkedIn", Com("linkedin"), {"company", "in", "pub"}),
      SocialPattern("Twitter", Com("twitter") \cup Com("x"), {}),
      SocialPattern("Facebook", Com("facebook"), {}),
      SocialPattern("Instagram", Com("instagram"), {}),
      SocialPattern("YouTube", Com("youtube"), {"channel", "c", "user"}),
      SocialPattern("GitHub", Com("github"), {}),
      SocialPattern("TikTok", Com("tiktok"), {"@"}),
      SocialPattern("Pinterest", Com("pinterest") \cup {<<"pinterest", "co", "uk">>}, {}),
      SocialPattern("Snapchat", Com("snapchat"), {"add"}),
      SocialPattern("Reddit", Com("reddit"), {"r", "u"})>>
\* The part of the path in which a pattern captures the identifier.
IdentifierAt(p) == IF p.dirs = {} THEN 1 ELSE 2
SocialMatch(p, href) ==
    FirstOf(SelectSeq(LinksIn(href), LAMBDA l :
        /\ l.site \in p.sites /\ Len(l.path) >= IdentifierAt(p)
        /\ p.dirs # {} => l.path[1] \in p.dirs))
full_url(href) ==
    CASE href.form = "absolute" -> <<href>>
      [] href.form = "//" -> <<"https:", href>>
      [] OTHER -> <<"https://", href>>
\* The first pattern that matches; a relative reference tells nothing.
SocialLink(href) ==
    LET hits == {i \in DOMAIN SOCIAL_PATTERNS : SocialMatch(SOCIAL_PATTERNS[i], href) # Null}
    IN IF hits = {} \/ href.form = "/" THEN Null
       ELSE LET p == SOCIAL_PATTERNS[Min(hits)]
            IN [platform |-> p.platform, url |-> full_url(href), identifier |-> SocialMatch(p, href).path[IdentifierAt(p)]]
Hrefs(doc) == Mapped(SelectSeq(Elements(doc, "a"), LAMBDA e : Attr(e, "href") # Null), LAMBDA e : Attr(e, "href"))
extract_social_media_links(doc) ==
    Mapped(FirstPerKey(SelectSeq(Hrefs(doc), LAMBDA h : SocialLink(h) # Null), LAMBDA h : h), SocialLink)

\* contact.rs works on bytes.
hex_val(b) == CASE b \in 48 .. 57 -> b - 48
                [] b \in 97 .. 102 -> b - 87
                [] b \in 65 .. 70 -> b - 55
                [] OTHER -> Null
PERCENT == 37
QUESTION == 63
percent_decode(s) ==
    Fold(LAMBDA st, i :
            CASE i < st.next -> st
              [] /\ s[i] = PERCENT /\ i + 2 <= Len(s)
                 /\ hex_val(s[i + 1]) # Null /\ hex_val(s[i + 2]) # Null ->
                    [next |-> i + 3, out |-> Append(st.out, 16 * hex_val(s[i + 1]) + hex_val(s[i + 2]))]
              [] OTHER -> [next |-> i + 1, out |-> Append(st.out, s[i])],
         [next |-> 1, out |-> <<>>], [i \in DOMAIN s |-> i]).out
BeforeQuery(s) ==
    LET marks == {i \in DOMAIN s : s[i] = QUESTION} IN IF marks = {} THEN s ELSE SubSeq(s, 1, Min(marks) - 1)
ContactLink(href) ==
    LET email == Lowered(href.scheme) = "mailto"
        value == percent_decode(IF email THEN BeforeQuery(href.bytes) ELSE href.bytes)
    IN IF Lowered(href.scheme) \notin {"mailto", "tel"} \/ value = <<>> THEN Null
       ELSE [type |-> IF email THEN "email" ELSE "phone", value |-> value, raw_href |-> href]
extract_contact_links(doc) ==
    FirstPerKey(Present(Mapped(Hrefs(doc), ContactLink)), LAMBDA l : <<l.type, l.value>>)

\* analytics.rs.  A match is [prefix, length]: what the rule captured.
is_valid_gtm_id(id) == id.prefix = "GTM-" /\ id.length >= MIN_GTM_ID_LENGTH /\ id.upper
accept_all(id) == TRUE
ANALYTICS_RULES ==
    <<[provider |-> "Google Analytics", gtm |-> FALSE, prefix |-> ""],
      [provider |-> "Google Analytics 4", gtm |-> FALSE, prefix |-> ""],
      [provider |-> "Facebook Pixel", gtm |-> FALSE, prefix |-> ""],
      [provider |-> "Google Tag Manager", gtm |-> TRUE, prefix |-> ""],
      [provider |-> "Google Tag Manager", gtm |-> TRUE, prefix |-> ""],
      [provider |-> "Google AdSense", gtm |-> FALSE, prefix |-> "pub-"]>>
\* doc.ids[i] are the captures of rule i, in the order of the text.
Accepted(i, ids) ==
    LET rule == ANALYTICS_RULES[i]
    IN Mapped(SelectSeq(ids, LAMBDA id : IF rule.gtm THEN is_valid_gtm_id(id) ELSE accept_all(id)),
              LAMBDA id : [provider |-> rule.provider, id |-> <<rule.prefix, id>>])
extract_analytics_ids(doc) ==
    FirstPerKey(FlattenSeq([i \in DOMAIN ANALYTICS_RULES |-> Accepted(i, doc.ids[i])]), LAMBDA a : a)

----------------------------------------------------------------------------
(* fetch/response/html.rs: one walk through the document.                  *)

MetaKinds == {"name", "property", "http-equiv"}
MetaKeys(doc) ==
    UNION {{<<k, Lowered(Attr(doc.elements[i], k))>> : k \in {m \in MetaKinds : Attr(doc.elements[i], m) # Null}} :
           i \in {j \in DOMAIN doc.elements : doc.elements[j].tag = "meta" /\ Attr(doc.elements[j], "content") # Null}}
MetaValues(doc, key) ==
    Mapped(SelectSeq(Elements(doc, "meta"), LAMBDA e : /\ Attr(e, key[1]) # Null /\ Attr(e, "content") # Null
                                                     /\ Lowered(Attr(e, key[1])) = key[2]),
           LAMBDA e : Attr(e, "content"))
meta_tags(doc) == [key \in MetaKeys(doc) |-> MetaValues(doc, key)]
FirstMeta(doc, key) == FirstOf(MetaValues(doc, key))

HasSource(e) == Attr(e, "src") \notin {Null, EmptyText}
\* A script without a source whose text is neither blank nor JSON.
Inline(e) ==
    /\ ~HasSource(e)
    /\ Attr(e, "type") # Null => ~Attr(e, "type").is_json
    /\ Trim(e.text) # <<>> /\ Head(Trim(e.text)) \notin {"{", "["}
ParsedSources(doc) == Mapped(SelectSeq(Elements(doc, "script"), HasSource), LAMBDA e : Attr(e, "src"))
\* The sources of the parser, then those only the expression found.
script_sources(doc) ==
    Fold(LAMBDA out, src : IF src \in Range(out) THEN out ELSE Append(out, src), ParsedSources(doc), doc.regex_scripts)
script_tag_ids(doc) == {Attr(Elements(doc, "script")[i], "id") : i \in DOMAIN Elements(doc, "script")} \ {Null}
inline_script_text(doc) ==
    Mapped(SelectSeq(Elements(doc, "script"), Inline), LAMBDA e : Mapped(e.text, Lowered))

FirstHref(doc, rels) ==
    FirstOf(Mapped(SelectSeq(Elements(doc, "link"), LAMBDA e : /\ Lowered(Attr(e, "rel")) \in rels
                                                             /\ Attr(e, "href") \notin {Null, EmptyText}),
                   LAMBDA e : Attr(e, "href")))
favicon_url(doc) == FirstHref(doc, {"icon", "shortcut icon"})
canonical_url(doc) == FirstHref(doc, {"canonical"})
\* The text behind the first "url=".
meta_refresh_url(doc) ==
    LET content == FirstMeta(doc, <<"http-equiv", "refresh">>)
        marks == IF content = Null THEN {} ELSE {i \in DOMAIN content : Lowered(content[i]) = "url="}
        rest == IF marks = {} THEN <<>> ELSE Trim(SubSeq(content, Min(marks) + 1, Len(content)))
    IN IF rest = <<>> THEN Null ELSE rest
meta_robots(doc) ==
    LET content == FirstMeta(doc, <<"name", "robots">>) IN IF content = <<>> THEN Null ELSE content

HostHints == {"preconnect", "dns-prefetch"}
ResourceHint(e) ==
    LET rel == Lowered(Attr(e, "rel"))
        href == Attr(e, "href")
    IN CASE href \in {Null, EmptyText} -> Null
         [] rel \notin HostHints -> [hint |-> rel, host |-> <<>>, href |-> href]
         [] href.host = Null \/ Len(href.host) < 2 -> Null
         [] OTHER -> [hint |-> rel, host |-> href.host, href |-> Null]
resource_hints(doc) ==
    Present(Mapped(SelectSeq(Elements(doc, "link"), LAMBDA e :
                       Lowered(Attr(e, "rel")) \in HostHints \cup {"preload", "prefetch", "modulepreload"}),
                   ResourceHint))

\* What the parsers of texts and links find.
page_texts(doc) ==
    [title |-> extract_title(doc).value,
     description |-> extract_meta_description(doc).value,
     structured_data |-> extract_structured_data(doc),
     social_media_links |-> extract_social_media_links(doc),
     contact_links |-> extract_contact_links(doc),
     analytics_ids |-> extract_analytics_ids(doc)]
parse_html_content(doc) ==
    page_texts(doc) @@
    [meta_tags |-> meta_tags(doc),
     script_sources |-> script_sources(doc),
     script_tag_ids |-> script_tag_ids(doc),
     inline_script_text |-> inline_script_text(doc),
     favicon_url |-> favicon_url(doc),
     canonical_url |-> canonical_url(doc),
     meta_refresh_url |-> meta_refresh_url(doc),
     meta_robots |-> meta_robots(doc),
     resource_hints |-> resource_hints(doc)]

----------------------------------------------------------------------------
(* domain/mod.rs over the list of public suffixes, and the hosts of a page *)
(* and of its policy.                                                      *)

EndsWith(host, tail) == Len(host) >= Len(tail) /\ SubSeq(host, Len(host) - Len(tail) + 1, Len(host)) = tail
\* The longest listed suffix, the last label where none is listed.
suffix_str(host) ==
    LET listed == {s \in PublicSuffixes : EndsWith(host, s)}
    IN IF listed = {} THEN SubSeq(host, Len(host), Len(host))
       ELSE CHOOSE s \in listed : \A t \in listed : Len(t) <= Len(s)
domain_str(host) ==
    LET n == Len(suffix_str(host)) + 1 IN IF Len(host) < n THEN Null ELSE SubSeq(host, Len(host) - n + 1, Len(host))
root_domain(host) == Or(domain_str(host), host)
extract_domain(url) ==
    CASE url = Null \/ url.host = Null -> Null
      [] url.is_ip -> url.host
      [] OTHER -> domain_str(url.host)
normalize_domain(host) == WithoutWww(host)

KNOWN_THIRD_PARTY_SCRIPT_HOST_SUFFIXES ==
    {<<"js", "stripe", "com">>, <<"consent", "cookiebot", "com">>, <<"assets", "squarespace", "com">>,
     <<"www", "google-analytics", "com">>, <<"www", "googletagmanager", "com">>, <<"connect", "facebook", "net">>,
     <<"maps", "googleapis", "com">>, <<"cdn", "jsdelivr", "net">>, <<"cdnjs", "cloudflare", "com">>,
     <<"unpkg", "com">>, <<"ajax", "googleapis", "com">>, <<"fast", "wistia", "com">>, <<"hcaptcha", "com">>,
     <<"www", "google", "com">>, <<"imasdk", "googleapis", "com">>, <<"static", "cloudflareinsights", "com">>,
     <<"cdn", "weglot", "com">>}
is_known_third_party_script_host(host) == \E s \in KNOWN_THIRD_PARTY_SCRIPT_HOST_SUFFIXES : EndsWith(host, s)
\* Joined to the page where it is no URL on its own.
resolve_script_url(page, src) ==
    CASE src = EmptyText -> Null
      [] src.form = "absolute" -> [scheme |-> src.scheme, host |-> src.host]
      [] page = Null -> Null
      [] src.form = "//" -> IF src.host = Null THEN Null ELSE [scheme |-> page.scheme, host |-> src.host]
      [] OTHER -> [scheme |-> page.scheme, host |-> page.host]
url_host(url) == IF url = Null THEN Null ELSE url.host
is_first_party_script(page, script) ==
    /\ url_host(page) # Null /\ url_host(script) # Null
    /\ ~is_known_third_party_script_host(script.host)
    /\ script.host = page.host \/ root_domain(script.host) = root_domain(page.host)
collect_script_hosts(page, sources) ==
    LET urls == SelectSeq(Mapped(sources, LAMBDA s : resolve_script_url(page, s)), LAMBDA u : url_host(u) # Null)
    IN Mapped(FirstPerKey(urls, LAMBDA u : u.host),
              LAMBDA u : [k |-> u.host, v |-> <<root_domain(u.host), is_first_party_script(page, u)>>])
\* A script that answers, with success and in time, is read up to the cap.
fetch_script_body(answer, cap) ==
    IF answer.sent # "ok" \/ answer.status \notin 200 .. 299 THEN Null
    ELSE LET read == stream_bytes_with_limit(answer.chunks, cap, "Truncate")
         IN IF read.kind = "Read" THEN Null
            ELSE [bytes |-> read.bytes, charset |-> decode_body(answer.charset, answer.bom, Null, FALSE)]

\* A policy is a sequence of directives, each with the hosts named in it.
extract_csp_domains(csp) ==
    LET Named(d) == Mapped(SelectSeq(d.hosts, LAMBDA h : Len(h) >= 2),
                           LAMBDA h : [k |-> <<d.directive, h>>, v |-> root_domain(h)])
    IN FirstPerKey(FlattenSeq(Mapped(csp, Named)), LAMBDA c : c.k)
=============================================================================
