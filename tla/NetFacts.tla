------------------------------ MODULE NetFacts ------------------------------
(***************************************************************************)
(* What name servers, certificates, registries and address databases say   *)
(* about a host (dns/*, fetch/dns/*, tls/*, whois/parse.rs and types.rs,   *)
(* geoip/lookup.rs and extract.rs), and which hosts and addresses a scan   *)
(* talks to (security).                                                    *)
(*                                                                         *)
(* An answer is [err |-> "none" | "no_records" | "nx_domain" | "timeout" | *)
(* "other", records |-> sequence], a record [type, ...].                   *)
(***************************************************************************)
EXTENDS PageFacts

CONSTANTS
    MAX_TXT_RECORD_SIZE,
    MAX_TXT_RECORD_COUNT,
    I32_MAX,
    MAX_GEOIP_ARCHIVE_ENTRY_COUNT,
    MAX_GEOIP_ARCHIVE_ENTRY_SIZE,
    MAX_WHOIS_RAW_LINES,
    MAX_URL_LENGTH,
    MAX_TIMESTAMP             \* the last second a date can tell

Ok(value) == [ok |-> TRUE, value |-> value]
Failed == [ok |-> FALSE, value |-> <<>>]

----------------------------------------------------------------------------
(* security/url_validation.rs and safe_resolver.rs.  An IPv4 address is    *)
(* four octets; an IPv6 address eight segments.                            *)

is_private_ipv4(o) ==
    \/ o[1] \in {0, 10, 127} \/ o[1] >= 224
    \/ o[1] = 172 /\ o[2] \in 16 .. 31
    \/ o[1] = 192 /\ o[2] = 168
    \/ o[1] = 169 /\ o[2] = 254
    \/ <<o[1], o[2], o[3]>> \in {<<192, 0, 2>>, <<198, 51, 100>>, <<203, 0, 113>>, <<192, 0, 0>>}
    \/ o[1] = 100 /\ o[2] \in 64 .. 127
    \/ o[1] = 198 /\ o[2] \in {18, 19}
Octets(high, low) == <<high \div 256, high % 256, low \div 256, low % 256>>
ZeroUpTo(s, n) == \A i \in 1 .. n : s[i] = 0
to_ipv4_mapped(s) == IF ZeroUpTo(s, 5) /\ s[6] = 65535 THEN Octets(s[7], s[8]) ELSE Null
\* The compatible form, and the mapped one.
to_ipv4(s) == IF ZeroUpTo(s, 5) /\ s[6] \in {0, 65535} THEN Octets(s[7], s[8]) ELSE Null
is_private_ipv6(s) ==
    CASE to_ipv4_mapped(s) # Null -> is_private_ipv4(to_ipv4_mapped(s))
      [] \/ ZeroUpTo(s, 7) /\ s[8] \in {0, 1}
         \/ s[1] \div 512 = 126                     \* fc00::/7
         \/ s[1] \div 64 = 1018                     \* fe80::/10
         \/ s[1] \div 256 = 255                     \* ff00::/8
         \/ s[1] = 8193 /\ s[2] = 3512 -> TRUE      \* 2001:db8::/32
      [] to_ipv4(s) # Null -> is_private_ipv4(to_ipv4(s))
      [] OTHER -> FALSE
is_private_ip(ip) == IF Len(ip) = 4 THEN is_private_ipv4(ip) ELSE is_private_ipv6(ip)
is_public_ip(ip) == ~is_private_ip(ip)

\* app/url.rs: a line is [length, scheme, parses, cut], its scheme Null where it has no
\* "://", cut when its fiftieth byte is within a character: that prefix of a long
\* line is printed.  The text is kept as written.
SchemeLength == 8
WithScheme(line) ==
    IF line.scheme = Null THEN [line EXCEPT !.scheme = "https", !.length = @ + SchemeLength] ELSE line
validate_and_normalize_url(line) ==
    LET normalized == WithScheme(line)
        result == CASE normalized.length > MAX_URL_LENGTH -> IF line.cut THEN "panic" ELSE "skip"
                    [] ~normalized.parses \/ ~Web(normalized.scheme) -> "skip"
                    [] OTHER -> "keep"
    IN [result |-> result, line |-> normalized]

\* A host's labels; a trailing dot is an empty label.
NoTrailingDot(host) == IF Len(host) > 1 /\ Last(host) = "" THEN Front(host) ELSE host
is_localhost_domain(host) ==
    LET h == NoTrailingDot(host) IN h = <<"localhost", "localdomain">> \/ Last(h) = "localhost"
validate_url_safe(url) ==
    /\ url # Null /\ Web(url.scheme) /\ url.host # Null
    /\ IF url.is_ip THEN is_public_ip(url.host) ELSE ~is_localhost_domain(url.host)
ssrf_safe_redirect_policy(url) == IF validate_url_safe(url) THEN "follow" ELSE "stop"
\* The addresses a client may connect to.
filter_public_socket_addrs(ips) ==
    LET public == SelectSeq(ips, is_public_ip) IN IF public = <<>> THEN Failed ELSE Ok(public)

\* The resolver of the HTTP client.
resolve(answer) == IF answer.err # "none" THEN Failed ELSE filter_public_socket_addrs(answer.records)

----------------------------------------------------------------------------
(* initialization/client.rs and utils/retry.rs.                            *)

\* The clients for downloads and for the scan; other options are their pools.
download == [redirect |-> "SsrfSafe", user_agent |-> Null]
scan(user_agent) == [redirect |-> "None", user_agent |-> user_agent]
\* What the client does with a redirect.
build_ssrf_client(opts, url) == IF opts.redirect = "None" THEN "stop" ELSE ssrf_safe_redirect_policy(url)
Follows(opts, url) == build_ssrf_client(opts, url) = "follow"
\* A host that is an address is not resolved.
Connects(hop) == hop.url.is_ip \/ resolve(hop.answer).ok
\* A hop is a URL, what its host resolves to, and a redirect to the next hop; the
\* last one answers.  A redirect that is not followed is the answer.
get(opts, hops) ==
    LET Reached(n) == \A k \in 1 .. n : Connects(hops[k]) /\ (k > 1 => Follows(opts, hops[k].url))
        n == Max({k \in 0 .. Len(hops) : Reached(k)})
    IN [fetched |-> SubSeq(hops, 1, n),
        answer |-> IF n > 0 /\ (n = Len(hops) \/ ~Follows(opts, hops[n + 1].url)) THEN hops[n].url ELSE Null]

\* The outcome of each attempt; slept is the sum of the delays.
MAX_NETWORK_DOWNLOAD_RETRIES == 3
with_network_download_retry(base_delay_secs, outcomes) ==
    LET good == {k \in 1 .. MAX_NETWORK_DOWNLOAD_RETRIES : outcomes[k].ok}
        tries == IF good = {} THEN MAX_NETWORK_DOWNLOAD_RETRIES ELSE Min(good)
    IN [result |-> outcomes[tries], attempts |-> tries,
        slept |-> MapThenSumSet(LAMBDA k : base_delay_secs * 2 ^ (k - 1), 1 .. tries - 1)]

----------------------------------------------------------------------------
(* dns/resolution.rs and dns/records.rs.                                   *)

prefer_public_ip(ips) == Or(FirstOf(SelectSeq(ips, is_public_ip)), FirstOf(ips))
resolve_host_to_ip(answer) ==
    IF answer.err # "none" \/ answer.records = <<>> THEN Failed
    ELSE Ok(prefer_public_ip(answer.records))
\* An error of the lookup is no name.
reverse_dns_lookup(answer) ==
    IF answer.err # "none" THEN Null
    ELSE LET ptr == SelectSeq(answer.records, LAMBDA r : r.type = "PTR")
         IN IF ptr = <<>> THEN Null ELSE ptr[1].data

map_lookup_error(err) == IF err \in {"no_records", "nx_domain"} THEN Ok(<<>>) ELSE Failed
lookup_mapped(answer, type) ==
    IF answer.err # "none" THEN map_lookup_error(answer.err)
    ELSE Ok(Mapped(SelectSeq(answer.records, LAMBDA r : r.type = type), LAMBDA r : r.data))

lookup_ns_records(answer) == lookup_mapped(answer, "NS")
lookup_cname_records(answer) == lookup_mapped(answer, "CNAME")
lookup_aaaa_records(answer) == lookup_mapped(answer, "AAAA")
\* A text is a sequence of tokens; the first may be a tag.
is_storable_txt(txt) == Trim(txt) # <<>>
bound_txt_record(txt) == SubSeq(txt, 1, IF Len(txt) < MAX_TXT_RECORD_SIZE THEN Len(txt) ELSE MAX_TXT_RECORD_SIZE)
FirstN(s, n) == SubSeq(s, 1, IF Len(s) < n THEN Len(s) ELSE n)
take_storable_txt(records) == FirstN(SelectSeq(records, is_storable_txt), MAX_TXT_RECORD_COUNT)
\* The strings of a record are joined before they are bounded.
lookup_txt_records(answer) ==
    LET found == lookup_mapped(answer, "TXT")
    IN IF ~found.ok THEN found
       ELSE Ok(take_storable_txt(Mapped(found.value, LAMBDA strings : bound_txt_record(FlattenSeq(strings)))))
\* A stable sort by priority.
ByPriority(mx) ==
    LET priorities == {mx[i][1] : i \in DOMAIN mx}
        Sorted == SetToSortSeq(priorities, <)
    IN FlattenSeq(Mapped(Sorted, LAMBDA p : SelectSeq(mx, LAMBDA r : r[1] = p)))
lookup_mx_records(answer) ==
    LET found == lookup_mapped(answer, "MX") IN IF found.ok THEN Ok(ByPriority(found.value)) ELSE found
lookup_caa_records(answer) ==
    LET found == lookup_mapped(answer, "CAA")
    IN IF found.ok THEN Ok(Mapped(found.value, LAMBDA c : <<IF c.issuer_critical THEN 128 ELSE 0, c.tag, c.value>>))
       ELSE found

\* dns/extract.rs: the tag in front of a text.
Tagged(txt, tag) == Trim(txt) # <<>> /\ Lowered(Head(Trim(txt))) = tag
is_spf_txt(txt) == Tagged(txt, "v=spf1")
is_dmarc_txt(txt) == Tagged(txt, "v=dmarc1")
is_mta_sts_txt(txt) == Tagged(txt, "v=stsv1")
is_tls_rpt_txt(txt) == Tagged(txt, "v=tlsrptv1")
is_bimi_txt(txt) == Tagged(txt, "v=bimi1")
\* The first of the records its predicate accepts.
extract_first(accepted) == IF accepted = <<>> THEN Null ELSE Trim(accepted[1])
OfLookup(found, Pred(_)) == IF found.ok THEN extract_first(SelectSeq(found.value, Pred)) ELSE Null

VerificationWords ==
    {"google-site-verification", "ms-verify", "facebook-domain-verification", "atlassian-domain-verification"}
detect_txt_type(txt) ==
    CASE is_spf_txt(txt) -> "SPF"
      [] is_dmarc_txt(txt) -> "DMARC"
      [] is_mta_sts_txt(txt) -> "MTA-STS"
      [] is_tls_rpt_txt(txt) -> "TLS-RPT"
      [] is_bimi_txt(txt) -> "BIMI"
      [] \E i \in DOMAIN txt : Lowered(txt[i]) \in VerificationWords -> "VERIFICATION"
      [] OTHER -> "OTHER"

\* additional.rs: a list that is not empty becomes a JSON text, a failed lookup Null
\* and a partial failure.
AsJson(found) == IF found.ok /\ found.value # <<>> THEN found.value ELSE Null
Objects(found) == IF AsJson(found) = Null THEN Null ELSE [kind |-> "objects", items |-> found.value]
\* q maps a query to its answer.
fetch_additional_dns_records(q) ==
    LET ns == lookup_ns_records(q["NS"])
        txt == lookup_txt_records(q["TXT"])
        mx == lookup_mx_records(q["MX"])
        cname == lookup_cname_records(q["CNAME"])
        aaaa == lookup_aaaa_records(q["AAAA"])
        caa == lookup_caa_records(q["CAA"])
        own == OfLookup(txt, is_dmarc_txt)
        failures == <<<<ns, "DnsNsLookupError">>, <<txt, "DnsTxtLookupError">>, <<mx, "DnsMxLookupError">>,
                      <<cname, "DnsCnameLookupError">>, <<aaaa, "DnsAaaaLookupError">>, <<caa, "DnsCaaLookupError">>>>
    IN [nameservers |-> AsJson(ns), txt_records |-> AsJson(txt), mx_records |-> Objects(mx),
        spf_record |-> OfLookup(txt, is_spf_txt),
        dmarc_record |-> Or(own, OfLookup(lookup_txt_records(q["_dmarc"]), is_dmarc_txt)),
        mta_sts_record |-> OfLookup(lookup_txt_records(q["_mta-sts"]), is_mta_sts_txt),
        tls_rpt_record |-> OfLookup(lookup_txt_records(q["_smtp._tls"]), is_tls_rpt_txt),
        bimi_record |-> OfLookup(lookup_txt_records(q["default._bimi"]), is_bimi_txt),
        cname_chain |-> AsJson(cname), aaaa_records |-> AsJson(aaaa), caa_records |-> AsJson(caa),
        partial_failures |-> Mapped(SelectSeq(failures, LAMBDA f : ~f[1].ok), LAMBDA f : f[2])]

\* storage/insert/utils.rs reads the lists back.
parse_json_array(json) == IF json \in {Null, EmptyText, Malformed} THEN Null ELSE json
\* as i32
Wrapped(n) == IF n > I32_MAX THEN n - 2 * (I32_MAX + 1) ELSE n
\* A text form is its words; a number is its own word.
parse_mx_record(words) ==
    CASE words = <<>> -> Null
      [] words[1].number # Null -> IF Len(words) >= 2 THEN <<words[1].number, words[2].text>> ELSE Null
      [] OTHER -> <<0, words[1].text>>
\* A list of objects, or of texts; an object that lacks a part is dropped.
parse_mx_json_array(json) ==
    IF json \in {Null, EmptyText, Malformed} THEN Null
    ELSE LET objects == IF json.kind = "objects"
                        THEN Mapped(SelectSeq(json.items, LAMBDA o : o[1] # Null /\ o[2] # Null),
                                    LAMBDA o : <<Wrapped(o[1]), o[2]>>)
                        ELSE <<>>
             texts == IF json.kind = "texts" THEN Present(Mapped(json.items, parse_mx_record)) ELSE <<>>
         IN IF objects # <<>> THEN objects ELSE IF texts # <<>> THEN texts ELSE Null

----------------------------------------------------------------------------
(* tls/*.                                                                  *)

\* The names a version and an algorithm are stored by.
TlsVersion == [TLSv1_0 |-> "TLSv1.0", TLSv1_1 |-> "TLSv1.1", TLSv1_2 |-> "TLSv1.2", TLSv1_3 |-> "TLSv1.3",
               SSLv2 |-> "SSLv3", SSLv3 |-> "SSLv3"]
tls_version_from_protocol(version) == IF version \in DOMAIN TlsVersion THEN TlsVersion[version] ELSE "Unknown"
KeyAlgorithm ==
    "1.2.840.113549.1.1.1" :> "RSA" @@ "1.2.840.10045.2.1" :> "ECDSA" @@ "1.3.101.112" :> "Ed25519" @@ "1.3.101.113" :> "Ed448"
from_oid(oid) == IF oid \in DOMAIN KeyAlgorithm THEN KeyAlgorithm[oid] ELSE oid
order_public_addrs_ipv4_first(ips) ==
    SelectSeq(ips, LAMBDA a : Len(a) = 4) \o SelectSeq(ips, LAMBDA a : Len(a) # 4)
public_tls_socket_addrs(ips) ==
    LET addrs == order_public_addrs_ipv4_first(SelectSeq(ips, is_public_ip))
    IN IF addrs = <<>> THEN Failed ELSE Ok(addrs)
resolve_public_tls_addrs(url, answer) ==
    IF ~validate_url_safe(url) \/ answer.err # "none" THEN Failed ELSE public_tls_socket_addrs(answer.records)
\* Tried in order, each within its timeout; reach tells what an attempt meets.
connect_tls_tcp(addrs, reach) ==
    LET open == SelectSeq(addrs, LAMBDA a : reach[a] = "open") IN IF open = <<>> THEN Failed ELSE Ok(open[1])

EKU_OIDS == <<"server_auth", "client_auth", "code_signing", "email_protection", "time_stamping", "ocsp_signing">>
push_eku_oids(eku) == SelectSeq(EKU_OIDS, LAMBDA u : u \in eku.usages) \o eku.other
extract_certificate_oids(cert) ==
    LET Of(ext) == <<ext.oid>> \o (CASE ext.kind = "CertificatePolicies" -> ext.names
                                     [] ext.kind = "ExtendedKeyUsage" -> push_eku_oids(ext.eku)
                                     [] OTHER -> <<>>)
    IN FlattenSeq(Mapped(cert.extensions, Of))
extract_certificate_sans(cert) ==
    FlattenSeq(Mapped(SelectSeq(cert.extensions, LAMBDA e : e.kind = "SubjectAlternativeName"), LAMBDA e : e.names))
naive_utc_from_unix_timestamp(secs) == IF secs > MAX_TIMESTAMP THEN Failed ELSE Ok(secs)
NoCertificate ==
    [tls_version |-> Null, subject |-> Null, issuer |-> Null, valid_from |-> Null, valid_to |-> Null, oids |-> Null,
     cipher_suite |-> Null, key_algorithm |-> Null, subject_alternative_names |-> Null,
     fingerprint_sha256 |-> Null, serial_number |-> Null, is_self_signed |-> Null, is_wildcard |-> Null]
parse_certificate_info_from_der(cert, version, cipher) ==
    LET sans == extract_certificate_sans(cert)
        from == naive_utc_from_unix_timestamp(cert.not_before)
        to == naive_utc_from_unix_timestamp(cert.not_after)
    IN IF ~cert.parses \/ ~from.ok \/ ~to.ok THEN Failed
       ELSE Ok([tls_version |-> version, subject |-> cert.subject, issuer |-> cert.issuer,
                valid_from |-> from.value, valid_to |-> to.value, oids |-> Range(extract_certificate_oids(cert)),
                cipher_suite |-> cipher, key_algorithm |-> from_oid(cert.algorithm),
                subject_alternative_names |-> IF sans = <<>> THEN Null ELSE sans,
                fingerprint_sha256 |-> <<"sha256", cert.id>>, serial_number |-> cert.serial,
                is_self_signed |-> cert.subject = cert.issuer,
                is_wildcard |-> \E i \in DOMAIN sans : Head(sans[i]) = "*"])
\* peer is what the other end does: handshake, version, cipher and its certificates.
handshake_and_parse(peer) ==
    IF peer.handshake # "done" \/ peer.certificates = <<>> THEN Failed
    ELSE parse_certificate_info_from_der(peer.certificates[1], tls_version_from_protocol(peer.version), peer.cipher)
\* ServerName::try_from refuses a label that begins with a hyphen, which a URL may have.
parse_tls_server_name(url) == IF "-a" \in Range(url.host) THEN Failed ELSE Ok(url.host)
get_ssl_certificate_info(url, answer, reach, peers) ==
    LET addrs == IF parse_tls_server_name(url).ok THEN resolve_public_tls_addrs(url, answer) ELSE Failed
        conn == IF addrs.ok THEN connect_tls_tcp(addrs.value, reach) ELSE Failed
    IN IF conn.ok THEN handshake_and_parse(peers[conn.value]) ELSE Failed

\* tls_dns.rs: both at once, and neither failure loses the other's part.
fetch_tls_and_dns(url, answer, reverse, reach, peers) ==
    LET tls == IF url.scheme = "https" THEN get_ssl_certificate_info(url, answer, reach, peers) ELSE Ok(NoCertificate)
        ip == resolve_host_to_ip(answer)
    IN [certificate |-> IF tls.ok THEN tls.value ELSE NoCertificate,
        ip_address |-> IF ip.ok THEN ip.value ELSE Null,
        reverse_dns_name |-> IF ip.ok THEN reverse_dns_lookup(reverse) ELSE Null,
        partial_failures |-> (IF tls.ok THEN <<>> ELSE <<"TlsCertificateError">>)
                             \o (IF ip.ok THEN <<>> ELSE <<"DnsForwardLookupError">>)]

----------------------------------------------------------------------------
(* whois/parse.rs and types.rs.  The raw text is a sequence of lines       *)
(* [label, value]; a date is Null, a text that is no date, or a second and *)
(* a part of a millisecond.                                                *)

bound_raw_text(lines) == FirstN(lines, MAX_WHOIS_RAW_LINES)
extract_raw_field(lines, labels) ==
    LET hits == SelectSeq(lines, LAMBDA l : l.label \in labels /\ l.value # <<>>)
    IN IF hits = <<>> THEN Null ELSE hits[1].value
\* A value is its words; a word of two letters is a country.
iso_alpha2_country(value) == IF value # Null /\ Len(value) = 1 /\ value[1] \in {"DE", "US"} THEN value ELSE Null
is_privacy_org_prose(value) ==
    \/ \E i \in DOMAIN value : value[i] = "redacted"
    \/ value = <<"privacy">>
    \/ \E i \in 1 .. Len(value) - 1 : <<value[i], value[i + 1]>> \in
            {<<"privacy", "protection">>, <<"whois", "privacy">>, <<"for", "privacy">>, <<"data", "protected">>}
sanitize_registrant_org(value) ==
    IF value = Null \/ value = <<>> THEN Null ELSE IF is_privacy_org_prose(value) THEN Null ELSE value
enrich_result_from_raw_text(r) ==
    LET org == IF r.raw_text # Null THEN Or(r.registrant_org, extract_raw_field(r.raw_text, {"org"})) ELSE r.registrant_org
        country == IF r.raw_text # Null THEN Or(r.registrant_country, extract_raw_field(r.raw_text, {"country"}))
                   ELSE r.registrant_country
    IN [r EXCEPT !.registrant_org = sanitize_registrant_org(org), !.registrant_country = iso_alpha2_country(country)]
\* No format reads a text that is no date; the epoch stands for an unknown date.
parse_date_string(date) == IF date.kind = "date" THEN date ELSE Null
parse_whois_date(date) ==
    IF date = Null \/ parse_date_string(date) = Null THEN Null ELSE IF date.secs = 0 THEN Null ELSE date
NoWhois ==
    [creation_date |-> Null, expiration_date |-> Null, updated_date |-> Null, registrar |-> Null,
     registrant_country |-> Null, registrant_org |-> Null, status |-> <<>>, nameservers |-> <<>>, raw_text |-> Null]
convert_payload(payload) ==
    LET raw == bound_raw_text(payload.raw)
        parsed == payload.parsed
    IN enrich_result_from_raw_text(
         IF parsed = Null THEN [NoWhois EXCEPT !.raw_text = raw]
         ELSE [NoWhois EXCEPT !.creation_date = parse_whois_date(parsed.creation_date),
                              !.expiration_date = parse_whois_date(parsed.expiration_date),
                              !.updated_date = parse_whois_date(parsed.updated_date),
                              !.registrar = parsed.registrar, !.status = parsed.status,
                              !.nameservers = parsed.name_servers, !.raw_text = raw])

\* In the cache a date is milliseconds and an empty list is null.
Millis(date) == IF date = Null THEN Null ELSE 1000 * date.secs + date.nanos \div 1000000
\* TLA+'s \div and % are those of div_euclid and rem_euclid.
ms_to_dt(ms) ==
    IF ms = Null THEN Null
    ELSE IF ms \div 1000 > MAX_TIMESTAMP THEN Null
         ELSE [kind |-> "date", secs |-> ms \div 1000, nanos |-> (ms % 1000) * 1000000]
Dates == {"creation_date", "expiration_date", "updated_date"}
Lists == {"status", "nameservers"}
WhoisCacheResult(r) ==
    [f \in DOMAIN r |-> CASE f \in Dates -> Millis(r[f])
                          [] f \in Lists -> IF r[f] = <<>> THEN Null ELSE r[f]
                          [] OTHER -> r[f]]
WhoisResult(c) ==
    [f \in DOMAIN c |-> CASE f \in Dates -> ms_to_dt(c[f])
                          [] f \in Lists -> Or(c[f], <<>>)
                          [] OTHER -> c[f]]

----------------------------------------------------------------------------
(* geoip/lookup.rs and extract.rs.  A database is Null or maps an address  *)
(* to what it says of it.                                                  *)

CityFields == {"country_code", "country_name", "region", "city", "latitude", "longitude", "timezone", "postal_code"}
AsnFields == {"asn", "asn_org"}
\* A database tells of an address when it is loaded and its entry decodes.
Tells(db, ip) == IF db = Null THEN FALSE ELSE ip \in DOMAIN db /\ db[ip] # Malformed
Fill(out, db, ip, fields) ==
    IF ~Tells(db, ip) THEN out
    ELSE [f \in DOMAIN out |-> IF f \notin fields THEN out[f] ELSE IF f \in DOMAIN db[ip] THEN db[ip][f] ELSE Null]
lookup_ip(city, asn, ip) ==
    LET empty == [f \in CityFields \cup AsnFields |-> Null]
    IN IF ~(Tells(city, ip) \/ Tells(asn, ip)) THEN Null
       ELSE Fill(Fill(empty, city, ip, CityFields), asn, ip, AsnFields)
is_enabled(city) == city # Null

\* The first entry of the wanted name within the limits; an entry is [name, declared, size].
extract_mmdb_from_tar_gz(entries, name) ==
    LET hits == {i \in DOMAIN entries : entries[i].name = name}
        first == IF hits = {} THEN Len(entries) + 1 ELSE Min(hits)
        broken == \E i \in DOMAIN entries : i <= first /\ ~entries[i].readable
    IN CASE broken \/ hits = {} \/ first > MAX_GEOIP_ARCHIVE_ENTRY_COUNT -> Failed
         [] \/ entries[first].declared > MAX_GEOIP_ARCHIVE_ENTRY_SIZE
            \/ entries[first].size > MAX_GEOIP_ARCHIVE_ENTRY_SIZE -> Failed
         [] OTHER -> Ok(entries[first].size)
=============================================================================
