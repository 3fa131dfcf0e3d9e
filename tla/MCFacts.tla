------------------------------ MODULE MCFacts ------------------------------
(* What a scan reports: the status server as a machine beside the scan,    *)
(* and on samples the facts taken from a response, the rows they become,   *)
(* and the failures and times that are told.                               *)
EXTENDS StatusServer, ErrorReport, TLC

CONSTANTS u1, u2, r1, r2, NoSample

VARIABLE sample

SmallSuffixes == {<<"com">>, <<"co", "uk">>}
Symmetry == Permutations(Urls) \cup Permutations(Requests)

\* In some behaviours one input of one algorithm is taken; the properties speak of the
\* step that takes it.
Unread == [algorithm |-> "unread"]
Is(s, algorithm) == s # NoSample /\ s.algorithm = algorithm
Sampled(algorithm) == Is(sample, algorithm)
SeqsUpTo(S, n) == UNION {[1 .. k -> S] : k \in 0 .. n}
NoRepeat(s) == \A i, j \in DOMAIN s : s[i] = s[j] => i = j
Contained(s, t) == \A i \in DOMAIN s : s[i] \in Range(t)

----------------------------------------------------------------------------
(* Bodies, headers and links.                                              *)

StreamSamples ==
    {[algorithm |-> "stream", chunks |-> c, max |-> m, limit |-> l] :
        c \in SeqsUpTo({<<>>, <<1>>, <<1, 2>>, <<1, 2, 3>>}, 3), m \in 0 .. 4, l \in {"Truncate", "Abort", "Error"}}
HstsSamples ==
    {[algorithm |-> "hsts", raw |-> r, other |-> o] :
        r \in SeqsUpTo({"1", "9", " ", ",", "quote", "preload", "x"}, 4), o \in {"preload", "includesubdomains", ""}}
CharsetSamples ==
    {[algorithm |-> "charset", parts |-> p, more |-> q, bom |-> b, metas |-> m] :
        p \in SeqsUpTo({[name |-> n, value |-> v] : n \in {"charset", "Charset", "x"}, v \in {EmptyText, "GBK", "unknown"}}, 2),
        q \in {[name |-> "charset", value |-> "Big5"]}, b \in {Null, "UTF-16LE"},
        m \in SeqsUpTo({<<>>, <<[at |-> 2, label |-> "EUC-KR"], [at |-> 3, label |-> "GBK"]>>,
                        <<[at |-> 3, label |-> "unknown"]>>, <<[at |-> 1, label |-> "GBK"], [at |-> 9, label |-> "Big5"]>>,
                        <<[at |-> 9, label |-> "EUC-KR"]>>}, 2)}
CookieParts ==
    {[name |-> n, value |-> Null] : n \in {"secure", "x"}}
    \cup {[name |-> "samesite", value |-> v] : v \in {"lax", "strict", "bogus"}}
    \cup {[name |-> "domain", value |-> v] : v \in {EmptyText, "d"}}
CookieSamples == {[algorithm |-> "cookie", parts |-> p] : p \in SeqsUpTo(CookieParts, 4)}
PercentSamples == {[algorithm |-> "percent", bytes |-> b] : b \in SeqsUpTo({37, 52, 65, 97, 71}, 4)}
CdnNames ==
    {"cf-ray", "x-served-by", "fastly-io-info", "x-amz-cf-id", "x-azure-ref", "x-akamai-request-id", "akamai-grn",
     "x-vercel-id", "x-nf-request-id", "x-github-request-id", "server", "via", "date"}
CdnSamples ==
    {[algorithm |-> "cdn", headers |-> [n \in names |-> words]] :
        names \in {s \in SUBSET CdnNames : Cardinality(s) <= 3},
        words \in {{}, {"cache-"}, {"cloudflare"}, {"netlify"}, {"cloudfront", "varnish"}, {"varnish"}}}

\* However a body is cut into chunks, it is kept or cut as if it came in one; what is
\* refused for an honest Content-Length is what would not have been complete; and
\* the flag says whether bytes are missing.
ChunksDoNotMatter(s) ==
    LET whole == FlattenSeq(s.chunks)
        one == stream_bytes_with_limit(<<whole>>, s.max, s.limit)
    IN /\ stream_bytes_with_limit(s.chunks, s.max, s.limit) = one
       /\ one.kind = "Complete" <=> Len(whole) <= s.max
       /\ one.kind = "Truncated" => one.bytes = SubSeq(whole, 1, s.max)
       /\ reject_if_content_length_exceeds(Len(whole), s.max) <=> one.kind # "Complete"
       /\ one.kind \in {"Complete", "Truncated"} =>
            LET read == decode_streamed_body(one, Null, Null, Null)
            IN /\ read.truncated <=> read.body[2] # whole
               /\ compute_body_sha256(read.body[2]) = Null <=> whole = <<>> \/ s.max = 0
       /\ s.max > 0 => LET lines == WrappedLines(whole, s.max)
                           ends == {i \in DOMAIN lines : lines[i] = NEWLINE}
                       IN /\ SelectSeq(lines, LAMBDA c : c # NEWLINE) = whole /\ Len(lines) \in ends
                          /\ \A i \in DOMAIN lines : \E e \in ends : e >= i /\ e - i <= s.max
                          /\ \A i, j \in ends : j = i + 1 => FALSE

\* A body is always decoded as something known; a label behind the first one, what
\* stands behind the window and a label nobody knows change nothing.
EncodingFound(s) ==
    LET label == charset_from_content_type(s.parts)
        meta == sniff_meta_charset(s.metas, 3)
        used == decode_body(label, s.bom, meta, TRUE)
    IN /\ Known(used)
       /\ label # Null => charset_from_content_type(Append(s.parts, s.more)) = label
       /\ label \in {Null, "unknown"} => used = decode_body(Null, s.bom, meta, TRUE)
       /\ ~Known(label) /\ s.bom = Null /\ ~Known(meta) => used = "UTF-8"
       /\ sniff_meta_charset(Mapped(s.metas, LAMBDA m : SelectSeq(m, LAMBDA c : c.at <= 3)), 9) = meta

\* The two walks through max-age meet: the number is all of what stands before
\* the remainder; no order of the segments changes the result, nor do quotes around
\* the value or the header's name in front of it.  Wrapped in anything more, the
\* segment that comes first is lost.
MaxAgeSplit(s) ==
    LET at == remainder_after_max_age_number(s.raw)
        text == MaxAgeText(s.raw)
        front == IF at = 0 THEN text ELSE SubSeq(text, 1, at - 1)
        age == [name |-> "max-age", value |-> s.raw]
        flag == [name |-> s.other, value |-> Null]
        Parsed(wrapped, segments) == parse_hsts_directive([wrapped |-> wrapped, segments |-> segments])
    IN /\ parse_max_age_number(s.raw) = parse_max_age_number(front)
       /\ at # 0 /\ text[at] = " " => parse_max_age_number(front) # Null \/ \E i \in DOMAIN front : IsDigit(front[i])
       /\ Parsed(<<>>, <<age, flag>>) = Parsed(<<>>, <<flag, age>>)
       /\ \A w \in SeqsUpTo({"quotes", "name"}, 2) :
            IF w \in {<<>>, <<"quotes">>, <<"name">>, <<"quotes", "name">>}
            THEN Parsed(w, <<age, flag>>) = Parsed(<<>>, <<age, flag>>)
            ELSE Parsed(w, <<age, flag>>).max_age = Null

\* SameSite is told only when every attribute is known, and then the first.
SameSiteSound(s) ==
    LET named == SelectSeq(s.parts, LAMBDA p : p.name = "samesite")
        all == \A i \in DOMAIN named : named[i].value # "bogus"
        c == parse_set_cookie(<<[name |-> "sid", value |-> "v"]>> \o s.parts)
    IN c.same_site = IF named # <<>> /\ all THEN named[1].value ELSE Null

HexDigit(n) == IF n < 10 THEN 48 + n ELSE 55 + n
Encoded(bytes) == FlattenSeq(Mapped(bytes, LAMBDA b : <<PERCENT, HexDigit(b \div 16), HexDigit(b % 16)>>))
\* Decoding undoes encoding, and leaves alone what is not encoded.
DecodeInverts(s) ==
    /\ percent_decode(Encoded(s.bytes)) = s.bytes
    /\ PERCENT \notin Range(s.bytes) => percent_decode(s.bytes) = s.bytes

\* The rules name the provider from the headers that are kept, as from all of
\* the response: but for two names that config/headers.rs does not keep.
ProviderFromKept(s) ==
    DOMAIN s.headers \cap {"x-github-request-id", "akamai-grn"} = {} =>
        detect_from_headers(Collected(s.headers, HTTP_HEADERS)) = detect_from_headers(s.headers)

----------------------------------------------------------------------------
(* Documents: every sequence of up to three of these elements.             *)

Page == [scheme |-> "https", host |-> <<"www", "a", "com">>, is_ip |-> FALSE]
Href(form, scheme, host, path, bytes) ==
    [form |-> form, scheme |-> scheme, host |-> host, path |-> path, bytes |-> bytes, embeds |-> <<>>]
Site(form, host) == Href(form, "https", host, <<"p">>, <<>>)
Element(tag, attrs, text, json) == [tag |-> tag, attrs |-> attrs, text |-> text, json |-> json]
Link(href) == Element("a", [href |-> href], <<>>, Malformed)
Str(t) == [json |-> "string", text |-> t]
Obj(type, graph) == [json |-> "object", type |-> type, graph |-> graph]
LdJson == [mime |-> "application/ld+json", is_json |-> TRUE]
Nested == Obj(Str(<<"Org">>), [json |-> "array", items |-> <<Obj(Str(<<"Web">>), Null),
              Obj([json |-> "array", items |-> <<Str(<<"A">>), Str(<<" ">>), [json |-> "other"]>>], Null)>>])
ElementMenu ==
    {Link(Href("absolute", "https", <<"www", "x", "com">>, <<"me">>, <<>>)),
     Link(Href("//", "https", <<"reddit", "com">>, <<"r", "tla">>, <<>>)),
     Link([Site("/", Null) EXCEPT !.embeds = <<[site |-> <<"reddit", "com">>, path |-> <<"r", "x">>]>>]),
     Link(Href("absolute", "mailto", Null, <<>>, <<97, 63, 97>>)),
     Link(Href("absolute", "mailto", Null, <<>>, <<37, 54, 49>>)),
     Element("script", [src |-> Site("/", Null)], <<>>, Malformed),
     Element("script", [src |-> Site("//", <<"cdn", "a", "com">>), id |-> "main"], <<>>, Malformed),
     Element("script", [src |-> Site("absolute", <<"unpkg", "com">>)], <<>>, Malformed),
     Element("script", [type |-> LdJson], <<"x">>, Nested),
     Element("script", [type |-> [mime |-> "text/javascript", is_json |-> FALSE]], <<"Refresh">>, Malformed),
     Element("meta", [name |-> "Robots", content |-> <<"none">>], <<>>, Malformed),
     Element("meta", [name |-> "robots", content |-> <<"all">>], <<>>, Malformed),
     Element("link", [rel |-> "preconnect", href |-> Site("absolute", <<"cdn", "com">>)], <<>>, Malformed),
     Element("title", <<>>, <<" ", "<", "b", ">", "t", " ">>, Malformed)}
Gtm(n) == [prefix |-> "GTM-", length |-> n, upper |-> TRUE]
Doc(elements) ==
    [elements |-> elements, regex_scripts |-> <<Site("/", Null), Site("absolute", <<"late", "com">>)>>,
     ids |-> <<<<>>, <<>>, <<[prefix |-> "", length |-> 3, upper |-> TRUE]>>, <<Gtm(8), Gtm(3)>>, <<Gtm(8)>>, <<>>>>]
DocSamples == {[algorithm |-> "doc", elements |-> e] : e \in SeqsUpTo(ElementMenu, 3)}

\* All type names of a value and of the graphs inside it.
RECURSIVE TypeNames(_)
TypeNames(v) ==
    CASE v.json = "array" -> UNION {TypeNames(v.items[i]) : i \in DOMAIN v.items}
      [] v.json = "object" ->
            (IF v.type = Null THEN {}
             ELSE IF v.type.json = "string" THEN {v.type.text}
             ELSE {v.type.items[i].text : i \in {j \in DOMAIN v.type.items : v.type.items[j].json = "string"}})
            \cup (IF v.graph = Null THEN {} ELSE TypeNames(v.graph))
      [] OTHER -> {}

\* Each link, contact, identifier and script host of a page is told once; no
\* script the expression finds is lost; the types are those of all nested
\* objects; only scripts of the page's own domain are first-party.
PageTold(s) ==
    LET doc == Doc(s.elements)
        h == parse_html_content(doc)
        hosts == collect_script_hosts(Page, h.script_sources)
        blocks == h.structured_data.json_ld
    IN /\ NoRepeat(h.social_media_links) /\ NoRepeat(h.analytics_ids)
       /\ NoRepeat(Mapped(h.contact_links, LAMBDA l : <<l.type, l.value>>))
       /\ NoRepeat(Mapped(hosts, LAMBDA r : r.k))
       /\ Contained(doc.regex_scripts, h.script_sources) /\ Contained(ParsedSources(doc), h.script_sources)
       /\ Range(h.structured_data.schema_types) = UNION {TypeNames(blocks[i]) : i \in DOMAIN blocks} \ {<<" ">>}
       /\ \A i \in DOMAIN hosts : hosts[i].v[2] <=> EndsWith(hosts[i].k, <<"a", "com">>)
       /\ \A i \in DOMAIN h.inline_script_text : h.inline_script_text[i] = <<"refresh">>

----------------------------------------------------------------------------
(* Lines of the input.                                                     *)

LineSamples ==
    {[algorithm |-> "line", line |-> [length |-> n, scheme |-> s, parses |-> p, cut |-> c]] :
        n \in {1, MAX_URL_LENGTH - SchemeLength, MAX_URL_LENGTH - 7, MAX_URL_LENGTH, MAX_URL_LENGTH + 1},
        s \in {Null, "http", "https", "ftp"}, p \in BOOLEAN, c \in BOOLEAN}
\* A kept line fits, has a web scheme and is kept as it is the next time; only a
\* line that is too long and cut within a character ends the scan.
LineKept(s) ==
    LET r == validate_and_normalize_url(s.line)
        long == s.line.length + (IF s.line.scheme = Null THEN SchemeLength ELSE 0) > MAX_URL_LENGTH
    IN /\ r.result = "panic" => s.line.cut /\ long
       /\ r.result = "skip" => s.line.scheme = "ftp" \/ ~s.line.parses \/ long
       /\ r.result = "keep" => /\ validate_and_normalize_url(r.line) = r
                               /\ r.line.length <= MAX_URL_LENGTH /\ r.line.scheme \in {"http", "https"}

----------------------------------------------------------------------------
(* Addresses, answers of name servers, certificates, registries.           *)

Octet == {0, 10, 100, 127, 128, 169, 172, 192, 198, 203, 223, 224}
IpSamples ==
    {[algorithm |-> "ip", octets |-> <<a, b, c, 1>>] :
        a \in Octet, b \in {0, 15, 16, 18, 19, 31, 32, 51, 63, 64, 127, 128, 168, 254}, c \in {0, 2, 100, 113}}
AsIpv6(o, sixth) == <<0, 0, 0, 0, 0, sixth, 256 * o[1] + o[2], 256 * o[3] + o[4]>>
\* An IPv4 address is public or not in all three of its forms.
FormsAgree(s) ==
    /\ is_private_ip(s.octets) <=> is_private_ip(AsIpv6(s.octets, 65535))
    /\ is_private_ip(s.octets) <=> is_private_ip(AsIpv6(s.octets, 0))

Pub4 == <<8, 8, 8, 8>>
Pub4b == <<9, 9, 9, 9>>
Priv4 == <<10, 0, 0, 1>>
Pub6 == <<9735, 1, 1, 1, 1, 1, 1, 1>>
Mapped10 == <<0, 0, 0, 0, 0, 65535, 2560, 1>>
Cert(id, parses, names) ==
    [parses |-> parses, id |-> id, subject |-> <<[attr |-> "CN", value |-> <<"a", "com">>]>>,
     issuer |-> <<[attr |-> "CN", value |-> <<"ca">>]>>, not_before |-> 1, not_after |-> 5, algorithm |-> "1.2.840.113549.1.1.1", serial |-> id,
     extensions |-> <<[oid |-> "san", kind |-> "SubjectAlternativeName", names |-> names],
                      [oid |-> "eku", kind |-> "ExtendedKeyUsage", eku |-> [usages |-> {"client_auth", "server_auth"}, other |-> <<"o">>]]>>]
Peer(certs, handshake) == [handshake |-> handshake, certificates |-> certs, version |-> "TLSv1_3", cipher |-> "c"]
Peers ==
    Pub4 :> Peer(<<Cert("one", TRUE, <<<<"*", "a", "com">>>>)>>, "done") @@ Pub4b :> Peer(<<>>, "done")
    @@ Pub6 :> Peer(<<Cert("six", TRUE, <<<<"b", "com">>>>), Cert("ca", TRUE, <<>>)>>, "done")
    @@ Priv4 :> Peer(<<Cert("own", TRUE, <<>>)>>, "done") @@ Mapped10 :> Peer(<<Cert("own", TRUE, <<>>)>>, "done")
Answer(err, records) == [err |-> err, records |-> records]
Hop(host, is_ip, scheme, answer) == [url |-> [scheme |-> scheme, host |-> host, is_ip |-> is_ip], answer |-> answer]
Hops ==
    {Hop(<<"a", "com">>, FALSE, s, Answer(e, ips)) : s \in {"https", "ftp"}, e \in {"none", "timeout"},
        ips \in {<<Pub4>>, <<Priv4>>, <<Priv4, Pub4>>, <<Mapped10>>}}
    \cup {Hop(ip, TRUE, "http", Answer("none", <<>>)) : ip \in {Pub4, Priv4, Mapped10}}
    \cup {Hop(<<"x", "localhost">>, FALSE, "http", Answer("none", <<Pub4>>))}
ClientSamples ==
    {[algorithm |-> "client", user_agent |-> u, hops |-> h] : u \in {Null, "ua"}, h \in {g \in SeqsUpTo(Hops, 3) : g # <<>>}}
\* The client of the scan takes a redirect as the answer; one for downloads goes on
\* only to URLs that are safe, and neither connects to an address that is not public
\* but the one it was first given.
ClientStays(s) ==
    LET opts == IF s.user_agent = Null THEN download ELSE scan(s.user_agent)
        r == get(opts, s.hops)
    IN /\ opts.redirect = "None" => Len(r.fetched) <= 1
       /\ \A k \in DOMAIN r.fetched :
            LET hop == r.fetched[k]
            IN /\ k > 1 => validate_url_safe(hop.url)
               /\ IF hop.url.is_ip THEN k > 1 => is_public_ip(hop.url.host)
                  ELSE \A i \in DOMAIN resolve(hop.answer).value : is_public_ip(resolve(hop.answer).value[i])
       /\ r.answer # Null => r.answer = Last(r.fetched).url

DownloadSamples ==
    {[algorithm |-> "download", base |-> b, outcomes |-> o] : b \in 1 .. 2,
        o \in [1 .. 4 -> {[ok |-> TRUE, value |-> 0]} \cup {[ok |-> FALSE, value |-> e] : e \in 1 .. 2}]}
\* A download fails only when each attempt did, with the last error, and never
\* waits after the last; the waits double.
DownloadRetried(s) ==
    LET r == with_network_download_retry(s.base, s.outcomes)
    IN /\ ~r.result.ok => r.attempts = 3 /\ r.result = s.outcomes[3] /\ \A k \in 1 .. 3 : ~s.outcomes[k].ok
       /\ r.slept = s.base * (2 ^ (r.attempts - 1) - 1)

TlsSamples ==
    {[algorithm |-> "tls", scheme |-> s, host |-> h, answer |-> Answer(e, ips), closed |-> c] :
        h \in {Page.host, <<"-a", "com">>},
        s \in {"http", "https"}, e \in {"none", "timeout"}, ips \in SeqsUpTo(DOMAIN Peers, 3), c \in SUBSET {Pub4, Pub6}}

\* Only public addresses are connected to, IPv4 before IPv6; the stored address
\* is public if there is a public one; what is missing is explained.
ConnectionTold(s) ==
    LET url_ == [Page EXCEPT !.scheme = s.scheme, !.host = s.host]
        reach == [a \in DOMAIN Peers |-> IF a \in s.closed THEN "closed" ELSE "open"]
        r == fetch_tls_and_dns(url_, s.answer, Answer("none", <<>>), reach, Peers)
        public == SelectSeq(s.answer.records, is_public_ip)
        tried == resolve_public_tls_addrs(url_, s.answer)
    IN /\ r.certificate # NoCertificate => r.certificate.fingerprint_sha256[2] \in {"one", "six"} /\ s.scheme = "https"
       /\ r.certificate # NoCertificate /\ r.certificate.fingerprint_sha256[2] = "six" =>
            \A a \in {Pub4, Pub4b} \cap Range(s.answer.records) : reach[a] = "closed"
       /\ s.host # Page.host => r.certificate = NoCertificate
       /\ s.scheme = "https" => (r.certificate = NoCertificate <=> "TlsCertificateError" \in Range(r.partial_failures))
       /\ r.ip_address = Null <=> "DnsForwardLookupError" \in Range(r.partial_failures)
       /\ s.answer.err = "none" /\ public # <<>> => r.ip_address = public[1]
       /\ tried.ok => Range(tried.value) = Range(public)
       /\ tried.ok <=> resolve(s.answer).ok
       /\ r.certificate # NoCertificate => r.certificate.tls_version = "TLSv1.3" /\ r.certificate.key_algorithm = "RSA"
       /\ s.scheme = "http" => r.partial_failures \in {<<>>, <<"DnsForwardLookupError">>}

Errs == {"none", "no_records", "timeout"}
Rec(type, data) == [type |-> type, data |-> data]
Spf == <<"v=spf1", "x">>
Dmarc == <<" ", "v=dmarc1">>
TxtRecords == {<<>>, <<Rec("TXT", <<Spf, <<"y", "z">>>>), Rec("TXT", <<<<" ">>>>), Rec("TXT", <<Dmarc>>), Rec("TXT", <<<<"q">>>>)>>}
MxRecords == SeqsUpTo({Rec("MX", <<10, "m1">>), Rec("MX", <<5, "m2">>), Rec("MX", <<5, "m3">>)}, 3)
DnsSamples ==
    {[algorithm |-> "dns", txt |-> Answer(e1, t), mx |-> Answer(e2, m), dmarc |-> Answer(e3, d), ns |-> Answer(e4, <<>>)] :
        e1 \in Errs, t \in TxtRecords, e2 \in Errs, m \in MxRecords, e3 \in {"none", "timeout"},
        d \in {<<>>, <<Rec("TXT", <<Dmarc>>)>>}, e4 \in {"none", "timeout"}}
DnsQueries(s) ==
    [q \in {"NS", "TXT", "MX", "CNAME", "AAAA", "CAA", "_dmarc", "_mta-sts", "_smtp._tls", "default._bimi"} |->
        CASE q = "TXT" -> s.txt [] q = "MX" -> s.mx [] q = "_dmarc" -> s.dmarc [] q = "NS" -> s.ns
          [] OTHER -> Answer("no_records", <<>>)]
\* A lookup that fails is a partial failure and one without records is not; the
\* stored mail servers read back in order; policies are found where they may be.
AnswersTold(s) ==
    LET r == fetch_additional_dns_records(DnsQueries(s))
        mx == Or(parse_mx_json_array(r.mx_records), <<>>)
        asked == IF s.mx.err = "none" THEN Mapped(s.mx.records, LAMBDA m : m.data) ELSE <<>>
        Explained(value, err, type) ==
            /\ type \in Range(r.partial_failures) <=> err = "timeout"
            /\ err # "none" => value = Null
        has == s.txt.err = "none" /\ s.txt.records # <<>>
    IN /\ Explained(r.txt_records, s.txt.err, "DnsTxtLookupError") /\ Explained(r.mx_records, s.mx.err, "DnsMxLookupError")
       /\ Explained(r.nameservers, s.ns.err, "DnsNsLookupError")
       /\ Len(mx) = Len(asked) /\ Range(mx) = Range(asked)
       /\ \A i, j \in DOMAIN mx : i < j => mx[i][1] <= mx[j][1]
       /\ has => Len(r.txt_records) <= MAX_TXT_RECORD_COUNT
                 /\ \A i \in DOMAIN r.txt_records : Len(r.txt_records[i]) <= MAX_TXT_RECORD_SIZE /\ Trim(r.txt_records[i]) # <<>>
       /\ r.spf_record # Null <=> has
       /\ r.dmarc_record # Null <=> has \/ (s.dmarc.err = "none" /\ s.dmarc.records # <<>>)
       /\ r.dmarc_record # Null => detect_txt_type(r.dmarc_record) = "DMARC"

Date(secs, nanos) == [kind |-> "date", secs |-> secs, nanos |-> nanos]
WhoisDates == {Null, [kind |-> "text"], Date(0, 0), Date(-1, 999000000), Date(3, 1500000)}
WhoisLines ==
    {[label |-> "org", value |-> <<"redacted">>], [label |-> "org", value |-> <<"Acme">>],
     [label |-> "country", value |-> <<"DE">>], [label |-> "country", value |-> <<"the", "US">>], [label |-> "org", value |-> <<>>]}
WhoisSamples ==
    {[algorithm |-> "whois", raw |-> l, parsed |-> p] : l \in SeqsUpTo(WhoisLines, 3),
        p \in {Null} \cup {[creation_date |-> d, expiration_date |-> e, updated_date |-> Null, registrar |-> "r",
                            status |-> s, name_servers |-> <<>>] : d \in WhoisDates, e \in WhoisDates, s \in {<<>>, <<"ok">>}}}
ToMillis(r) ==
    [f \in DOMAIN r |-> IF f \in Dates /\ r[f] # Null
                        THEN [r[f] EXCEPT !.nanos = (@ \div 1000000) * 1000000] ELSE r[f]]
\* A result read back from the cache is the result, to the millisecond, and is
\* enriched to itself; nothing a registry redacted is stored.
WhoisKept(s) ==
    LET r == convert_payload([raw |-> s.raw, parsed |-> s.parsed])
        back == WhoisResult(WhoisCacheResult(r))
    IN /\ back = ToMillis(r)
       /\ enrich_result_from_raw_text(back) = back
       /\ r.registrant_org = Null \/ ~is_privacy_org_prose(r.registrant_org)
       /\ r.registrant_country = Null \/ Len(r.registrant_country) = 1

FactsHold(s) ==
    /\ Is(s, "stream") => ChunksDoNotMatter(s)
    /\ Is(s, "charset") => EncodingFound(s)
    /\ Is(s, "line") => LineKept(s)
    /\ Is(s, "hsts") => MaxAgeSplit(s)
    /\ Is(s, "cookie") => SameSiteSound(s)
    /\ Is(s, "percent") => DecodeInverts(s)
    /\ Is(s, "cdn") => ProviderFromKept(s)
    /\ Is(s, "doc") => PageTold(s)
    /\ Is(s, "ip") => FormsAgree(s)
    /\ Is(s, "client") => ClientStays(s)
    /\ Is(s, "tls") => ConnectionTold(s)
    /\ Is(s, "dns") => AnswersTold(s)
    /\ Is(s, "whois") => WhoisKept(s)
\* What is told of a page, its headers, its host and its addresses is what the
\* response and the answers say, in whatever order, pieces and forms they came
\* (fetch/stream.rs:9, security/hsts.rs, fetch/response/html.rs:49, tls/mod.rs:83,
\* fetch/dns/additional.rs:30, whois/types.rs:93).
FactsSound == [][FactsHold(sample')]_sample

----------------------------------------------------------------------------
(* Rows: an observation of a page, then of what the page has become, with  *)
(* every statement and every clean-up that may be refused.                 *)

Tables ==
    Range(URL_STATUS_CORE_SATELLITE_TABLES) \cup Range(URL_STATUS_ENRICHMENT_SATELLITE_TABLES)
    \cup {"url_jwt_claims", "url_failure_redirect_chain", "url_failure_response_headers"}
EmptyDb == [rows |-> <<>>, failures |-> <<>>, child |-> [t \in Tables |-> <<>>], next |-> 1]
NoFault == [broken |-> <<>>, undeletable |-> Null]
Secret(type, value, location, jwt) ==
    [secret_type |-> type, matched_value |-> value, severity |-> "high", location |-> location, context |-> "c", decoded_jwt |-> jwt]
Tech(name, version) == [name |-> name, version |-> version, category |-> "cat", is_implied |-> FALSE, detection_source |-> "html"]
ObservedDns(n) ==
    fetch_additional_dns_records(
        [q \in {"NS", "TXT", "MX", "CNAME", "AAAA", "CAA", "_dmarc", "_mta-sts", "_smtp._tls", "default._bimi"} |->
            CASE q = "NS" -> Answer("none", <<Rec("NS", "cloudflare"), Rec("NS", n)>>)
              [] q = "TXT" -> Answer("none", <<Rec("TXT", <<Spf, <<n>>>>), Rec("TXT", <<<<n>>>>)>>)
              [] q = "MX" -> Answer("none", <<Rec("MX", <<10, n>>), Rec("MX", <<5, "m2">>)>>)
              [] q = "CNAME" -> Answer("none", <<Rec("CNAME", n)>>)
              [] q = "AAAA" -> Answer("none", <<Rec("AAAA", n)>>)
              [] q = "CAA" -> Answer("none", <<Rec("CAA", [issuer_critical |-> TRUE, tag |-> "issue", value |-> n])>>)
              [] OTHER -> Answer("none", <<Rec("TXT", <<Dmarc>>)>>)])
Observation(n, elements, secrets, partial) ==
    [resp |-> [initial_domain |-> "a.com", final_domain |-> n, initial_url |-> "u", final_url |-> Page, host |-> Page.host,
               status |-> 200, status_desc |-> n, body_sha256 |-> n, body_truncated |-> FALSE, content_length |-> n,
               http_version |-> "2", content_type |-> n,
               set_cookies |-> <<<<[name |-> n, value |-> "v"], [name |-> "secure", value |-> Null]>>,
                                 <<[name |-> "sid", value |-> "v"]>>>>,
               security_headers |->
                   ("strict-transport-security" :> [wrapped |-> <<>>, segments |-> <<[name |-> "max-age", value |-> <<"7", "7">>], [name |-> "preload", value |-> Null]>>])
                   @@ ("content-security-policy" :> <<[directive |-> "img-src", hosts |-> <<<<"cdn", n>>, <<n>>, <<"cdn", n>>>>]>>),
               http_headers |-> [server |-> {n}]],
     html |-> parse_html_content(Doc(elements)),
     tls_dns |-> fetch_tls_and_dns(Page, Answer("none", <<Pub4>>), Answer("none", <<Rec("PTR", n)>>), Pub4 :> "open", Peers),
     dns |-> ObservedDns(n), scripts |-> [eligible |-> 1, scanned |-> 0], elapsed |-> n, timestamp |-> n, run_id |-> "run",
     redirect_chain |-> <<"u", n>>, technologies |-> <<Tech(n, "1"), Tech("T", "1"), Tech(n, "1"), Tech(n, "2")>>,
     geoip |-> n, whois |-> [NoWhois EXCEPT !.registrar = n], exposed_secrets |-> secrets, partial_failures |-> partial,
     favicon |-> n,
     well_known |-> [security_txt |-> [contacts |-> <<n, "c">>, raw |-> n],
                     robots_txt |-> [http_status |-> 200, raw_body |-> n, directives |-> <<<<"allow", n>>, <<"deny", n>>>>]]]
Partial(type) == [error_type |-> type, error_message |-> type]
Earlier == Observation("old", <<Link(Href("//", "https", <<"reddit", "com">>, <<"r", "tla">>, <<>>))>>,
                       <<Secret("jwt", "v0", "l", <<"claims", "v0">>), Secret("key", "v1", "l", Null)>>,
                       <<Partial("DnsNsLookupError"), Partial("TlsCertificateError")>>)
Later ==
    Observation("new", <<Link(Href("absolute", "https", <<"www", "x", "com">>, <<"me">>, <<>>)),
                         Link(Href("absolute", "mailto", Null, <<>>, <<97>>)),
                         Element("script", [src |-> Site("//", <<"cdn", "a", "com">>)], <<>>, Malformed),
                         Element("script", [type |-> LdJson], <<"x">>, Nested),
                         Element("meta", [property |-> "og:title", content |-> <<"t">>], <<>>, Malformed),
                         Element("link", [rel |-> "preconnect", href |-> Site("absolute", <<"cdn", "com">>)], <<>>, Malformed)>>,
                <<Secret("jwt", "v1", "body", <<"claims", "v1">>), Secret("jwt", "v1", "script", <<"claims", "v1">>),
                  Secret("key", "v2", "body", Null), Secret("jwt", "v3", "body", <<"claims", "v3">>)>>,
                <<Partial("DnsNsLookupError")>>)
RowSamples ==
    {[algorithm |-> "row", before |-> b, x |-> x] : b \in BOOLEAN,
        x \in {NoFault} \cup {[NoFault EXCEPT !.broken = t :> n] : t \in Tables, n \in 1 .. 3}
              \cup {[broken |-> w :> 1, undeletable |-> t] : t \in Tables, w \in {"url_geoip", "url_cookies"}}}

\* The rows of a table below one fact row.
Contents(db, table, id) == [k \in {j[2] : j \in {i \in DOMAIN db.child[table] : i[1] = id}} |-> db.child[table][<<id, k>>]]
Persisted(db, o, x) == insert_persisted_url_record(db, build_persisted_url_record(o), x)
EarlierDb == Persisted(EmptyDb, Earlier, NoFault).db
LaterAlone == Persisted(EmptyDb, Later, NoFault)
\* The table whose writer fills another one.
WriterOf(table) == IF table = "url_robots_directives" THEN "url_robots_txt" ELSE table
\* The failures told in the rows of url_partial_failures.
ToldFailures(db, id) == {f[1].error_message : f \in Range(Contents(db, "url_partial_failures", id))}

\* Small databases: rows of two runs, their technologies and secrets.
SummaryRows ==
    {[run |-> r, status |-> c, techs |-> t, secrets |-> n] : r \in {"A", "B"}, c \in {200, 404}, n \in {0, 2},
        t \in {<<>>, <<<<1, "v">>, FALSE>>, <<<<1, "w">>, Null>>, <<<<2, "v">>, TRUE>>}}
SummaryRuns ==
    {[r \in {"A", "B"} |-> [start_time_ms |-> IF r = "A" THEN 1 ELSE 2, end_time_ms |-> ends[r], version |-> "v",
                     elapsed_seconds |-> IF ends[r] = Null THEN Null ELSE 1, total_urls |-> 3, successful_urls |-> 2,
                     failed_urls |-> 1, skipped_urls |-> 0]] :
        ends \in [{"A", "B"} -> {Null, 9}]}
SummarySamples ==
    {[algorithm |-> "summary", rows |-> <<x, y, z>>, runs |-> q[1], asked |-> q[2], top |-> n] :
        x \in SummaryRows, y \in {w \in SummaryRows : w.secrets = 0},
        z \in {w \in SummaryRows : w.run = "B" /\ w.secrets = 0 /\ w.status = 200},
        q \in (SummaryRuns \X {Null}) \cup ({runs \in SummaryRuns : runs["B"].end_time_ms = Null} \X {"B", "C"}), n \in {0, 1}}
DatabaseOf(rs) ==
    [EmptyDb EXCEPT
        !.rows = [i \in DOMAIN rs |-> [run_id |-> rs[i].run, http_status |-> rs[i].status]],
        !.child["url_technologies"] =
            [k \in {<<i, rs[i].techs[1]>> : i \in {j \in DOMAIN rs : rs[j].techs # <<>>}} |-> <<"cat", rs[k[1]].techs[2], "html">>],
        !.child["url_exposed_secrets"] =
            [k \in UNION {{<<i, <<"key", n>>>> : n \in 1 .. rs[i].secrets} : i \in DOMAIN rs} |-> <<"high", "l", "c">>]]
Ordered(counts) ==
    \A i, j \in DOMAIN counts : i < j =>
        counts[i].count > counts[j].count \/ (counts[i].count = counts[j].count /\ counts[i].name < counts[j].name)
CountTotal(counts) == FoldLeft(LAMBDA n, c : n + c.count, 0, counts)
\* The run that is asked for, or the last that ended; each of its rows is in one
\* status, no technology left out is more frequent than one that is listed, implied
\* ones are not listed, and no line of the printed summary is lost.
SummaryAddsUp(s) ==
    LET db == DatabaseOf(s.rows)
        r == query_scan_summary(db, s.runs, [run_id |-> s.asked, top_technologies |-> s.top])
        ended == {id \in DOMAIN s.runs : s.runs[id].end_time_ms # Null}
        own == {i \in DOMAIN s.rows : s.rows[i].run = r.run.run_id}
        Seen(name) == Cardinality({i \in own : s.rows[i].techs # <<>> /\ s.rows[i].techs[1][1] = name /\ s.rows[i].techs[2] # TRUE})
        listed == {r.top_technologies[i].name : i \in DOMAIN r.top_technologies}
        found == {i \in own : s.rows[i].secrets > 0}
    IN IF r = Null THEN s.asked = "C" \/ (s.asked = Null /\ ended = {})
       ELSE /\ IF s.asked # Null THEN r.run.run_id = s.asked
               ELSE r.run.run_id \in ended /\ \A id \in ended : s.runs[id].start_time_ms <= r.run.start_time_ms
            /\ Ordered(r.status_counts) /\ CountTotal(r.status_counts) = Cardinality(own)
            /\ CountTotal(r.status_counts) = count_run_fact_rows(db, r.run.run_id).successful_urls
            /\ Ordered(r.top_technologies) /\ (s.top > 0 => Len(r.top_technologies) <= s.top)
            /\ \A i \in DOMAIN r.top_technologies : r.top_technologies[i].count = Seen(r.top_technologies[i].name)
            /\ \A n \in {1, 2} \ listed : Seen(n) = 0 \/ (s.top = 1 /\ \A m \in listed : Seen(n) <= Seen(m))
            /\ r.urls_with_secrets = Cardinality(found) /\ r.secret_count = 2 * Cardinality(found)
            /\ Len(execute_summary_command(db, s.runs, [run_id |-> s.asked, top |-> s.top]).value) =
                 6 + (IF r.run.end_time_ms = Null THEN 0 ELSE 1) + Max({1, Len(r.status_counts)}) + Max({1, Len(r.top_technologies)})

\* One row for the domain and run, each column with the later value, inserted or
\* updated, whatever was refused; and each list as if it had been written first,
\* or named by a partial failure; what is rolled back stays as it was.
RowsWritten(s) ==
    LET db == IF s.before THEN EarlierDb ELSE EmptyDb
        r == Persisted(db, Later, s.x)
        rolledBack == s.x.undeletable \in Range(URL_STATUS_ENRICHMENT_SATELLITE_TABLES)
        told == ToldFailures(r.db, r.id)
        silent == rolledBack \/ "url_partial_failures" \in DOMAIN s.x.broken
        Complete(t) == Contents(r.db, t, r.id) = Contents(LaterAlone.db, t, LaterAlone.id)
        own == Contents(r.db, "url_partial_failures", r.id)
        fields == {URL_STATUS_COLUMN_DEFS[i][2] : i \in DOMAIN URL_STATUS_COLUMN_DEFS}
    IN /\ DOMAIN build_url_record(Later) = UrlRecord /\ fields = UrlRecord \ {"nameservers", "txt_records", "mx_records"}
       /\ Cardinality(fields) = Len(URL_STATUS_COLUMN_DEFS) /\ NoRepeat(url_status_insert_sql)
       /\ ~core_and_enrichment_overlap
       /\ DOMAIN r.db.rows = {r.id} /\ r.db.rows[r.id] = LaterAlone.db.rows[LaterAlone.id]
       /\ \A t \in Range(URL_STATUS_CORE_SATELLITE_TABLES) :
             Complete(t) \/ {WriterOf(t), "core_satellites"} \cap Range(r.core_failures) # {}
       /\ ~silent => \A t \in Range(r.core_failures) : t \in told
       /\ ~silent => (r.enrichment_failures = 0 <=>
                        \A t \in Range(URL_STATUS_ENRICHMENT_SATELLITE_TABLES) \ {"url_partial_failures"} : Complete(t))
       /\ rolledBack => r.enrichment_failures = Len(r.core_failures) + Len(Later.partial_failures)
       /\ \A t \in Range(URL_STATUS_ENRICHMENT_SATELLITE_TABLES) \cup {"url_jwt_claims"} :
             IF rolledBack THEN Contents(r.db, t, r.id) = Contents(db, t, r.id)
             ELSE t = "url_partial_failures" \/ Complete(t) \/ silent \/ {t, "url_exposed_secrets"} \cap told # {}
       /\ \A k \in DOMAIN Contents(r.db, "url_jwt_claims", r.id) :
             Contents(r.db, "url_jwt_claims", r.id)[k] = <<"claims", k[2]>>
       /\ ~rolledBack => /\ r.partial_failures_inserted = Cardinality(DOMAIN own)
                          /\ count_run_partial_failures(r.db, "run") =
                                [total |-> r.partial_failures_inserted, satellite_insert_errors |-> r.satellite_insert_errors_inserted]
                          /\ r.satellite_insert_errors_inserted =
                                Cardinality({k \in DOMAIN own : own[k][1].error_type = "SatelliteInsertError"})

RowTold(s) ==
    /\ Is(s, "row") => RowsWritten(s)
    /\ Is(s, "summary") => SummaryAddsUp(s)
\* What is stored of a page is what was seen of it or a failure says what is
\* missing, and what a summary says of a run is what its rows say
\* (storage/insert/url/columns.rs:298, upsert.rs:207, insert/record.rs:233,
\* summary/mod.rs:179).
RowTellsObservation == [][RowTold(sample')]_sample

----------------------------------------------------------------------------
(* Failures, counts and times.                                             *)

Cause(class, kind, status, msg, words) == [class |-> class, kind |-> kind, status |-> status, msg |-> msg, words |-> words]
ReqwestCauses ==
    {Cause("reqwest", k, Null, "req", w) : w \in SUBSET {"tls", "timeout", "http"},
        k \in {{"builder"}, {"redirect"}, {"request"}, {"request", "connect"}, {"request", "timeout"}, {"body"}, {"decode"}, {}}}
    \cup {Cause("reqwest", {"status"}, s, "req", {"http"}) : s \in {304, 400, 403, 404, 418, 429, 500, 503, 521, 599}}
OtherCauses ==
    {Cause("net", {k}, Null, "net", w) : k \in {"nx_domain", "no_records", "timeout", "busy"}, w \in SUBSET {"txt", "mx", "ns"}}
    \cup {Cause(c, {}, Null, c, {}) : c \in {"parse", "sqlx"}}
    \cup {Cause("text", {}, Null, "text", w) : w \in SUBSET {"http", "timeout", "connect", "dns", "txt", "tls"}}
Plain(cause) == [chain |-> <<cause>>, context |-> Null]
Header(value) == <<"h", value>>
Contexts ==
    {[final_url |-> u, redirect_chain |-> c, response_headers |-> h] :
        u \in {Null, Page}, c \in {<<>>, <<"u", "v">>}, h \in {<<>>, <<Header(<<"a", "a", "a", "e", Cont, "a">>), Header(<<"a">>)>>}}
ErrorSamples ==
    {[algorithm |-> "error", cause |-> c, layers |-> n] : c \in ReqwestCauses \cup OtherCauses, n \in 0 .. 3}
FailureSamples ==
    {[algorithm |-> "failure", cause |-> c, given |-> g, attached |-> a, mentioned |-> w, broken |-> b] :
        c \in {Cause("text", {}, Null, "text", {"timeout"}), Cause("reqwest", {"status"}, 503, "req", {"http"}),
               Cause("reqwest", {"request", "connect"}, Null, "req", {"http"})},
        g \in Contexts, a \in Contexts \cup {Null}, w \in SUBSET {"timeout", "dns", "tls"}, b \in 0 .. 2}
TextSamples ==
    {[algorithm |-> "text", text |-> t] :
        t \in {u \in SeqsUpTo({"a", "e", Cont, "ctl"}, 7) :
                  \A i \in 1 .. Len(u) : /\ u[i] = Cont => i > 1 /\ u[i - 1] = "e"
                                         /\ u[i] = "e" => i < Len(u) /\ u[i + 1] = Cont}}
CountSamples == {[algorithm |-> "count", types |-> t] : t \in [1 .. 2 -> ErrorType]}
TimeSamples ==
    {[algorithm |-> "time", http |-> h, html |-> m, body |-> b, rest |-> r, again |-> a] :
        h \in {0, 499, 500, 20500}, m \in {0, 1, 12499, 30500}, b \in {0, 9000}, r \in {0, 499, 7000}, a \in BOOLEAN}

RECURSIVE UnderLayers(_, _)
UnderLayers(e, n) == IF n = 0 THEN e ELSE UnderLayers(Layered(e, <<"layer", n>>, {"http", "timeout", "dns"}), n - 1)
Buckets == {"timeout", "connection_error", "http_error", "dns_error", "tls_error", "parse_error", "other_error"}
CountedIn(type) ==
    {b \in Buckets : ErrorCounts([t \in ErrorType |-> IF t = type THEN 1 ELSE 0])[b] = 1}

\* What a typed cause says is told through any number of plain messages put on top
\* of it: its type, its status and whether to try again; and a status decides both.
LayersDoNotMatter(s) ==
    LET e == Plain(s.cause)
        deep == UnderLayers(e, s.layers)
    IN /\ s.cause.class \in {"reqwest", "net"} => extract_error_type(deep) = extract_error_type(e)
       /\ extract_http_status(deep) = s.cause.status
       /\ is_retriable_error(deep) <=> is_retriable_error(e)
       /\ s.cause.status # Null /\ s.cause.status >= 400 =>
            /\ is_retriable_error(deep) <=> (s.cause.status = 429 \/ s.cause.status >= 500)
            /\ CountedIn(extract_error_type(deep)) = IF s.cause.status \in DOMAIN StatusType THEN {"http_error"} ELSE {"other_error"}
       /\ Cardinality(CountedIn(extract_error_type(deep))) = 1
       /\ s.cause.class = "reqwest" => error_message_parts(deep)[1] = s.cause.msg

WholeCharacters(t) ==
    \A i \in DOMAIN t : /\ t[i] = Cont => i > 1 /\ t[i - 1] = "e"
                       /\ t[i] = "e" => i < Len(t) /\ t[i + 1] = Cont
\* A stored text fits, is cut between characters, and says so when it is cut.
CutBetweenCharacters(s) ==
    LET kept == sanitize_and_truncate_error_message(s.text)
        clean == SelectSeq(s.text, LAMBDA b : b # "ctl")
    IN /\ Len(kept) <= MAX_ERROR_MESSAGE_LENGTH /\ WholeCharacters(kept)
       /\ Len(clean) <= MAX_ERROR_MESSAGE_LENGTH <=> kept = clean
       /\ kept # clean => EndsWith(kept, TruncationMark)

ErrorOf(s) == IF s.attached = Null THEN Plain(s.cause) ELSE RequestFailed(s.cause, s.attached, s.mentioned)
RecordedFailure(s) ==
    record_url_failure([url |-> Page, error |-> ErrorOf(s), context |-> s.given, retry_count |-> 1, elapsed |-> 2,
                        run_id |-> "run", timestamp |-> 3])
\* A failure's row is stored whole or not at all; each part of its context is the
\* given one, or the attached one where none is given.  A context that is attached
\* hides the cause: the row has no status, its type is read from the message, which
\* holds the URL's own words, and the failure is never tried again.
FailureStored(s) ==
    LET attached == Or(s.attached, NoFailureContext)
        f == RecordedFailure(s)
        r == insert_url_failure_impl(EmptyDb, f, IF s.broken = 0 THEN <<>> ELSE "url_failures" :> s.broken)
        chain == IF s.given.redirect_chain # <<>> THEN s.given.redirect_chain ELSE attached.redirect_chain
        headers == IF s.given.response_headers # <<>> THEN s.given.response_headers ELSE attached.response_headers
        stored == r.db.child["url_failure_response_headers"]
    IN IF ~r.ok THEN s.broken > 0 /\ r.db = EmptyDb
       ELSE /\ r.db.failures[r.id].final_url = (IF s.given.final_url # Null THEN s.given.final_url ELSE attached.final_url)
            /\ r.db.failures[r.id].final_domain = IF r.db.failures[r.id].final_url = Null THEN Null ELSE <<"a", "com">>
            /\ DOMAIN r.db.child["url_failure_redirect_chain"] = {<<r.id, i>> : i \in DOMAIN chain}
            /\ DOMAIN stored = {<<r.id, headers[i][1]>> : i \in DOMAIN headers}
            /\ \A k \in DOMAIN stored : Len(stored[k]) <= MAX_HEADER_VALUE_LENGTH /\ WholeCharacters(stored[k])
            /\ r.db.failures[r.id].http_status = IF s.attached = Null THEN s.cause.status ELSE Null
            /\ is_retriable_error(ErrorOf(s)) => s.attached = Null
            /\ s.attached # Null /\ s.mentioned = {} => r.db.failures[r.id].error_type = "HttpRequestOtherError"
            /\ s.attached # Null /\ "timeout" \in s.mentioned => r.db.failures[r.id].error_type = "HttpRequestTimeoutError"
            /\ s.attached = Null /\ s.cause.class = "reqwest" =>
                 r.db.failures[r.id].error_type = categorize_reqwest_error(s.cause)

\* Each count is printed under a name of its own, and nothing that is zero;
\* every error but a cancelled URL and a refused satellite is in one bucket.
CountsAddUp(s) ==
    LET errors == Increment(Increment([t \in ErrorType |-> 0], s.types[1]), s.types[2])
        c == ErrorCounts(errors)
        lines == print_error_statistics(errors, [t \in WarningType |-> 1], [t \in InfoType |-> 0])
        own == {l \in lines : l[1] \in Range(as_str)}
        warned == {l \in lines : l[1] \in Range(warning_as_str)}
    IN /\ SumFunctionOnSet([l \in own |-> l[2]], own) = 2 /\ <<"Error Counts", 2>> \in lines
       /\ \A l \in lines : l[1] # "Info Counts" /\ l[2] > 0
       /\ Cardinality(warned) = Cardinality(WarningType)
       /\ Cardinality(Range(as_str) \cup Range(warning_as_str) \cup Range(info_as_str)) =
            Cardinality(ErrorType) + Cardinality(WarningType) + Cardinality(InfoType)
       /\ c.total = 2 /\ Sum(c, Buckets) + errors["ScanCancelled"] + errors["SatelliteInsertError"] = c.total

\* Stages one after the other: the overhead shown is the time no stage took, but
\* for the rounding of each stage, and the parts of parsing are not counted twice.
OverheadIsTheRest(s) ==
    LET one == [t \in UrlTimingMetrics |->
                  CASE t = "http_request" -> s.http [] t = "html_parsing" -> s.html + s.body [] t = "body_read" -> s.body
                    [] t = "html_parse" -> s.html [] t = "total" -> s.http + s.html + s.body + s.rest [] OTHER -> 0]
        stats == IF s.again THEN record(record(TimingStats, one), one) ELSE record(TimingStats, one)
        shown == log_summary(stats, TRUE, FALSE)
        rest == micros_to_ms(s.rest)
    IN /\ shown.other - rest \in -2 .. 2
       /\ shown.lines["whois_lookup"].disabled
       /\ \A t \in Stages : shown.lines[t].ms = 0 /\ one[t] > 0 => shown.lines[t].micros = stats.sum[t]

ProgressSamples ==
    {[algorithm |-> "progress", done |-> d, total |-> t, elapsed |-> e] :
        d \in [1 .. 3 -> 0 .. 2], t \in {Null, 0, 1, 3, 6}, e \in {0, 1, 2, 4000}}
DurationSamples == {[algorithm |-> "duration", secs |-> n] : n \in 0 .. 62 \cup {119, 120, 3599, 3600, 3601, 3660, 3661, 7199, 7200}}
UnitSeconds == [h |-> 3600, m |-> 60, s |-> 1]
\* The seconds a text tells.
Told(text) == IF Len(text) = 1 THEN 0 ELSE SumFunction([i \in 1 .. Len(text) \div 2 |-> text[2 * i - 1] * UnitSeconds[text[2 * i]]])
DurationTold(s) == Told(format_duration(s.secs)) = s.secs
\* The more is finished in a time, the nearer the end that is told; at the end it
\* is now, and a line without a total tells no share.
ProgressTold(s) ==
    LET line == log_progress(s.done[1], s.done[2], s.done[3], s.total, s.elapsed)
        next == log_progress(s.done[1], s.done[2] + 1, s.done[3], s.total, s.elapsed)
    IN IF s.total \in {Null, 0} THEN DOMAIN line = {"finished", "successful", "failed", "skipped"}
       ELSE /\ line.finished > 0 => Told(next.eta) <= Told(line.eta)
            /\ line.finished >= s.total => line.eta = <<"< 1s">>
            /\ line.percentage >= 1000 <=> line.finished >= s.total

\* The bar after the calls of a scan, each with the total of its input: it stands
\* where the last call put it and says what that call counted; a total that is not
\* known makes no bar with an end; all of a known total is told as 100 and no less.
BarSamples ==
    {[algorithm |-> "bar", total |-> t, calls |-> c, columns |-> w] :
        t \in {0, 1, 3}, c \in SeqsUpTo({<<0, 0, 0>>, <<1, 0, 0>>, <<1, 1, 0>>, <<1, 1, 1>>, <<2, 1, 1>>}, 3),
        w \in {Null, 0, 55, 56}}
Call(c, total) == [completed |-> c[1], failed |-> c[2], skipped |-> c[3], total |-> total]
BarTold(s) ==
    LET bar == FoldLeft(LAMBDA b, c : create_progress_callback(b, Call(c, s.total)), NoBar, s.calls)
        last == Last(s.calls)
        finished == last[1] + last[2] + last[3]
    IN /\ should_show_progress_bar(FALSE, TRUE, s.columns) <=> s.columns # 55
       /\ s.calls = <<>> => ~bar.shown
       /\ s.calls # <<>> =>
            /\ bar.shown /\ bar.position = finished /\ Last(bar.message) = last[3] /\ Head(bar.message) = finished
            /\ bar.style = "spinner" <=> s.total = 0
            /\ bar.length = s.total
            /\ s.total > 0 => (bar.message[3] >= 100 <=> finished >= s.total)

FailureTold(s) ==
    /\ Is(s, "error") => LayersDoNotMatter(s)
    /\ Is(s, "text") => CutBetweenCharacters(s)
    /\ Is(s, "failure") => FailureStored(s)
    /\ Is(s, "count") => CountsAddUp(s)
    /\ Is(s, "time") => OverheadIsTheRest(s)
    /\ Is(s, "progress") => ProgressTold(s)
    /\ Is(s, "duration") => DurationTold(s)
    /\ Is(s, "bar") => BarTold(s)
    /\ Is(s, "download") => DownloadRetried(s)
\* A failure is called and counted by its typed cause under any number of plain
\* messages; one that handle_http_request reports (a refused request, a 429, a 5xx)
\* has its context attached, which hides the cause: it is called by its message and
\* has no status.  A failure's row is whole, and what is counted and timed adds up
\* (storage/failure/error.rs:45, record.rs:63, fetch/handler/request.rs:143,
\* status.rs:75, utils/timing.rs:286).
FailuresReported == [][FailureTold(sample')]_sample

----------------------------------------------------------------------------
TakeSample ==
    \/ sample' \in StreamSamples
    \/ sample' \in CharsetSamples
    \/ sample' \in LineSamples
    \/ sample' \in HstsSamples
    \/ sample' \in CookieSamples
    \/ sample' \in PercentSamples
    \/ sample' \in CdnSamples
    \/ sample' \in DocSamples
    \/ sample' \in IpSamples
    \/ sample' \in TlsSamples
    \/ sample' \in DnsSamples
    \/ sample' \in WhoisSamples
    \/ sample' \in RowSamples
    \/ sample' \in SummarySamples
    \/ sample' \in ErrorSamples
    \/ sample' \in FailureSamples
    \/ sample' \in TextSamples
    \/ sample' \in CountSamples
    \/ sample' \in TimeSamples
    \/ sample' \in ProgressSamples
    \/ sample' \in DurationSamples
    \/ sample' \in BarSamples
    \/ sample' \in ClientSamples
    \/ sample' \in DownloadSamples

FactsInit == StatusInit /\ sample \in {NoSample, Unread}
FactsNext ==
    \/ sample = NoSample /\ StatusNext /\ UNCHANGED sample
    \/ Sampled("unread") /\ TakeSample /\ UNCHANGED svars
FactsSpec == FactsInit /\ [][FactsNext]_<<svars, sample>>
=============================================================================
