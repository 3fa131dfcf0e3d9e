------------------------------- MODULE UrlRow -------------------------------
(***************************************************************************)
(* From what was fetched to the rows of the database                       *)
(* (fetch/record/builder.rs, storage/insert/url, storage/insert/record.rs, *)
(* storage/insert/enrichment, storage/insert/failure.rs).  UrlStore has    *)
(* the interleavings of these writes; here is what they write.             *)
(*                                                                         *)
(* A database is [rows, failures, child, next]: the rows of url_status and *)
(* of url_failures by id, of each child table the rows by parent id and    *)
(* key, and the next id.  A child row is the columns that are not its key. *)
(***************************************************************************)
EXTENDS NetFacts

CONSTANT One      \* the key of a table with one row for each parent

----------------------------------------------------------------------------
(* builder.rs: the record.  o is all that was fetched.                     *)

UrlRecord ==
    {"initial_domain", "final_domain", "initial_url", "final_url", "ip_address", "reverse_dns_name", "status",
     "status_desc", "response_time", "title", "description", "meta_robots", "tls_version", "ssl_cert_subject",
     "ssl_cert_issuer", "ssl_cert_valid_from", "ssl_cert_valid_to", "timestamp", "nameservers", "txt_records",
     "mx_records", "spf_record", "dmarc_record", "cipher_suite", "key_algorithm", "run_id", "body_sha256",
     "body_truncated", "external_scripts_eligible", "external_scripts_scanned", "content_length", "http_version",
     "content_type", "canonical_url", "cert_fingerprint_sha256", "cert_serial_number", "cert_is_self_signed",
     "cert_is_wildcard", "cert_is_mismatched", "meta_refresh_url", "hsts_max_age", "hsts_include_subdomains",
     "hsts_preload", "mta_sts_record", "tls_rpt_record", "bimi_record", "cdn_provider"}
build_url_record(o) ==
    [initial_domain |-> o.resp.initial_domain, final_domain |-> o.resp.final_domain,
     initial_url |-> o.resp.initial_url, final_url |-> o.resp.final_url,
     ip_address |-> Or(o.tls_dns.ip_address, EmptyText), reverse_dns_name |-> o.tls_dns.reverse_dns_name,
     status |-> o.resp.status, status_desc |-> o.resp.status_desc, response_time |-> o.elapsed,
     title |-> o.html.title,
     description |-> IF o.html.description = <<>> THEN Null ELSE o.html.description,
     meta_robots |-> o.html.meta_robots,
     tls_version |-> o.tls_dns.certificate.tls_version, ssl_cert_subject |-> o.tls_dns.certificate.subject,
     ssl_cert_issuer |-> o.tls_dns.certificate.issuer,
     ssl_cert_valid_from |-> o.tls_dns.certificate.valid_from, ssl_cert_valid_to |-> o.tls_dns.certificate.valid_to,
     timestamp |-> o.timestamp,
     nameservers |-> o.dns.nameservers, txt_records |-> o.dns.txt_records, mx_records |-> o.dns.mx_records,
     spf_record |-> o.dns.spf_record, dmarc_record |-> o.dns.dmarc_record,
     cipher_suite |-> o.tls_dns.certificate.cipher_suite, key_algorithm |-> o.tls_dns.certificate.key_algorithm,
     run_id |-> o.run_id, body_sha256 |-> o.resp.body_sha256, body_truncated |-> o.resp.body_truncated,
     external_scripts_eligible |-> o.scripts.eligible, external_scripts_scanned |-> o.scripts.scanned,
     content_length |-> o.resp.content_length, http_version |-> o.resp.http_version,
     content_type |-> o.resp.content_type, canonical_url |-> o.html.canonical_url,
     cert_fingerprint_sha256 |-> o.tls_dns.certificate.fingerprint_sha256,
     cert_serial_number |-> o.tls_dns.certificate.serial_number,
     cert_is_self_signed |-> o.tls_dns.certificate.is_self_signed,
     cert_is_wildcard |-> o.tls_dns.certificate.is_wildcard, cert_is_mismatched |-> Null,
     meta_refresh_url |-> o.html.meta_refresh_url,
     hsts_max_age |-> Null, hsts_include_subdomains |-> Null, hsts_preload |-> Null,
     mta_sts_record |-> o.dns.mta_sts_record, tls_rpt_record |-> o.dns.tls_rpt_record,
     bimi_record |-> o.dns.bimi_record, cdn_provider |-> Null]

\* A wildcard stands for one label, or for none.
SanMatches(host, san) ==
    IF Head(san) = "*"
    THEN host = Tail(san) \/ (Len(host) = Len(san) /\ Tail(host) = Tail(san))
    ELSE host = san
\* A subject is a sequence of [attr, value].
CnMatches(host, subject) == \E i \in DOMAIN subject : subject[i].attr = "CN" /\ subject[i].value = host
cert_is_mismatched(host, cert) ==
    IF host = <<>> \/ cert.tls_version = Null THEN Null
    ELSE LET sans == Or(cert.subject_alternative_names, <<>>)
         IN /\ \A i \in DOMAIN sans : ~SanMatches(host, sans[i])
            /\ ~CnMatches(host, Or(cert.subject, <<>>))
HstsOf(headers) ==
    IF "strict-transport-security" \in DOMAIN headers
    THEN LET d == parse_hsts_directive(headers["strict-transport-security"])
         IN [d EXCEPT !.max_age = Stored(@)]
    ELSE [max_age |-> Null, include_subdomains |-> Null, preload |-> Null]

\* The facts that need more than one part, and the lists.
build_persisted_url_record(o) ==
    LET hsts == HstsOf(o.resp.security_headers)
        cert == o.tls_dns.certificate
    IN [url_record |->
            [build_url_record(o) EXCEPT
                !.hsts_max_age = hsts.max_age, !.hsts_include_subdomains = hsts.include_subdomains,
                !.hsts_preload = hsts.preload,
                !.cdn_provider = detect_cdn_provider(o.resp.http_headers, o.resp.security_headers,
                                                     o.dns.cname_chain, o.dns.nameservers),
                !.cert_is_mismatched = cert_is_mismatched(o.resp.host, cert)],
        security_headers |-> o.resp.security_headers, http_headers |-> o.resp.http_headers,
        oids |-> Or(cert.oids, {}), redirect_chain |-> o.redirect_chain, technologies |-> o.technologies,
        subject_alternative_names |-> Or(cert.subject_alternative_names, <<>>),
        analytics_ids |-> o.html.analytics_ids, geoip |-> o.geoip, structured_data |-> o.html.structured_data,
        social_media_links |-> o.html.social_media_links, contact_links |-> o.html.contact_links,
        exposed_secrets |-> o.exposed_secrets, whois |-> o.whois, partial_failures |-> o.partial_failures,
        favicon |-> o.favicon, cname_records |-> o.dns.cname_chain, aaaa_records |-> o.dns.aaaa_records,
        caa_records |-> o.dns.caa_records,
        csp_domains |-> IF "content-security-policy" \in DOMAIN o.resp.security_headers
                        THEN extract_csp_domains(o.resp.security_headers["content-security-policy"]) ELSE <<>>,
        cookies |-> extract_cookie_infos(o.resp.set_cookies), resource_hints |-> o.html.resource_hints,
        script_hosts |-> collect_script_hosts(o.resp.final_url, o.html.script_sources),
        security_txt |-> o.well_known.security_txt, robots_txt |-> o.well_known.robots_txt]

----------------------------------------------------------------------------
(* columns.rs: one list of columns, each with the field it is bound to,    *)
(* makes both statements; values are bound by position.                    *)

URL_STATUS_COLUMN_DEFS ==
    <<<<"initial_domain", "initial_domain">>, <<"final_domain", "final_domain">>,
      <<"initial_url", "initial_url">>, <<"final_url", "final_url">>, <<"ip_address", "ip_address">>,
      <<"reverse_dns_name", "reverse_dns_name">>, <<"http_status", "status">>,
      <<"http_status_text", "status_desc">>, <<"response_time_seconds", "response_time">>,
      <<"title", "title">>, <<"description", "description">>, <<"meta_robots", "meta_robots">>,
      <<"tls_version", "tls_version">>, <<"ssl_cert_subject", "ssl_cert_subject">>,
      <<"ssl_cert_issuer", "ssl_cert_issuer">>, <<"ssl_cert_valid_from_ms", "ssl_cert_valid_from">>,
      <<"ssl_cert_valid_to_ms", "ssl_cert_valid_to">>, <<"observed_at_ms", "timestamp">>,
      <<"spf_record", "spf_record">>, <<"dmarc_record", "dmarc_record">>, <<"cipher_suite", "cipher_suite">>,
      <<"key_algorithm", "key_algorithm">>, <<"run_id", "run_id">>, <<"body_sha256", "body_sha256">>,
      <<"body_truncated", "body_truncated">>, <<"external_scripts_eligible", "external_scripts_eligible">>,
      <<"external_scripts_scanned", "external_scripts_scanned">>, <<"content_length", "content_length">>,
      <<"http_version", "http_version">>, <<"content_type", "content_type">>, <<"canonical_url", "canonical_url">>,
      <<"cert_fingerprint_sha256", "cert_fingerprint_sha256">>, <<"cert_serial_number", "cert_serial_number">>,
      <<"cert_is_self_signed", "cert_is_self_signed">>, <<"cert_is_wildcard", "cert_is_wildcard">>,
      <<"cert_is_mismatched", "cert_is_mismatched">>, <<"meta_refresh_url", "meta_refresh_url">>,
      <<"hsts_max_age", "hsts_max_age">>, <<"hsts_include_subdomains", "hsts_include_subdomains">>,
      <<"hsts_preload", "hsts_preload">>, <<"mta_sts_record", "mta_sts_record">>,
      <<"tls_rpt_record", "tls_rpt_record">>, <<"bimi_record", "bimi_record">>, <<"cdn_provider", "cdn_provider">>>>

naive_datetime_to_millis(secs) == IF secs = Null THEN Null ELSE 1000 * secs
bind_url_status_column(def, r) ==
    IF def[2] \in {"ssl_cert_valid_from", "ssl_cert_valid_to"} THEN naive_datetime_to_millis(r[def[2]]) ELSE r[def[2]]
ColumnName(def) == def[1]
NotKey(def) == def[1] # "initial_domain"
url_status_insert_sql == Mapped(URL_STATUS_COLUMN_DEFS, ColumnName)
url_status_update_sql == SelectSeq(url_status_insert_sql, LAMBDA c : c # "initial_domain")
bind_url_status_query(r) == Mapped(URL_STATUS_COLUMN_DEFS, LAMBDA d : bind_url_status_column(d, r))
\* Mutated form: the update binds every column.
BindAll(r) == bind_url_status_query(r) \o <<r.run_id, r.initial_domain>>
\* The columns that are set, then the two of the WHERE.
bind_url_status_update_query(r) ==
    Mapped(SelectSeq(URL_STATUS_COLUMN_DEFS, NotKey), LAMBDA d : bind_url_status_column(d, r))
    \o <<r.run_id, r.initial_domain>>
\* The value bound to a column by its position.
Bound(columns, binds, c) == binds[CHOOSE i \in DOMAIN columns : columns[i] = c]

upsert_url_status_row(db, r) ==
    LET insert == bind_url_status_query(r)
        row == [c \in Range(url_status_insert_sql) |-> Bound(url_status_insert_sql, insert, c)]
        conflict == {id \in DOMAIN db.rows : db.rows[id].run_id = row.run_id /\ db.rows[id].initial_domain = row.initial_domain}
        binds == bind_url_status_update_query(r)
        n == Len(url_status_update_sql)
        hit == {id \in DOMAIN db.rows : db.rows[id].run_id = binds[n + 1] /\ db.rows[id].initial_domain = binds[n + 2]}
    IN IF conflict = {}
       THEN [id |-> db.next, inserted |-> TRUE,
             db |-> [db EXCEPT !.rows = (db.next :> row) @@ @, !.next = @ + 1]]
       ELSE [id |-> CHOOSE id \in conflict : TRUE, inserted |-> FALSE,
             db |-> [db EXCEPT !.rows = [id \in DOMAIN @ |->
                        IF id \in hit
                        THEN [c \in DOMAIN @[id] |-> IF c \in Range(url_status_update_sql)
                                                     THEN Bound(url_status_update_sql, binds, c) ELSE @[id][c]]
                        ELSE @[id]]]]

----------------------------------------------------------------------------
(* Child rows.  A statement is [table, keep, items]: a batch of items      *)
(* [k, v], and whether a conflict keeps the old row (DO NOTHING) or takes  *)
(* the new columns (DO UPDATE).  All statements of a table have one keep.  *)

Keyed(keys) == Mapped(keys, LAMBDA x : [k |-> x, v |-> {}])
Statement(table, keep, items) == [table |-> table, keep |-> keep, items |-> items]
\* The first item with a key stays, or the last one's columns.
Executed(rows, keep, items, id) ==
    LET At(k) == {i \in DOMAIN items : <<id, items[i].k>> = k}
        keys == {<<id, items[i].k>> : i \in DOMAIN items}
    IN [k \in DOMAIN rows \cup keys |->
          IF k \notin keys \/ (keep /\ k \in DOMAIN rows) THEN rows[k]
          ELSE items[IF keep THEN Min(At(k)) ELSE Max(At(k))].v]
\* Each table after the statements, in their order.
After(child, statements, id) ==
    [t \in DOMAIN child |->
        LET own == SelectSeq(statements, LAMBDA s : s.table = t)
        IN IF own = <<>> THEN child[t] ELSE Executed(child[t], own[1].keep, FlattenSeq(Mapped(own, LAMBDA s : s.items)), id)]
\* A writer is [table, todo]; an empty batch is no statement.  broken maps a table to
\* the statement of its writer that goes wrong: it ends the writer, and what ran
\* before stays.
Todo(writer) == SelectSeq(writer.todo, LAMBDA s : s.items # <<>>)
Fails(writer, broken) ==
    IF writer.table \in DOMAIN broken THEN broken[writer.table] <= Len(Todo(writer)) ELSE FALSE
Ran(writer, broken) ==
    IF Fails(writer, broken) THEN SubSeq(Todo(writer), 1, broken[writer.table] - 1) ELSE Todo(writer)
\* Writers one after the other; a failed one is recorded and the next goes on.
record_satellite_write(child, writers, id, broken) ==
    [child |-> After(child, FlattenSeq(Mapped(writers, LAMBDA w : Ran(w, broken))), id),
     failures |-> Mapped(SelectSeq(writers, LAMBDA w : Fails(w, broken)), LAMBDA w : w.table)]

\* One DELETE for each table, up to one that goes wrong; with the secrets go
\* their claims (ON DELETE CASCADE).
delete_child_rows(child, tables, id, undeletable) ==
    LET upto == IF undeletable \in Range(tables) THEN (CHOOSE i \in DOMAIN tables : tables[i] = undeletable) - 1 ELSE Len(tables)
        direct == Range(SubSeq(tables, 1, upto))
        gone == direct \cup (IF "url_exposed_secrets" \in direct THEN {"url_jwt_claims"} ELSE {})
    IN [ok |-> undeletable \notin Range(tables),
        child |-> [t \in DOMAIN child |->
                     IF t \in gone THEN Restrict(child[t], {k \in DOMAIN child[t] : k[1] # id}) ELSE child[t]]]

URL_STATUS_CORE_SATELLITE_TABLES ==
    <<"url_technologies", "url_nameservers", "url_txt_records", "url_mx_records", "url_security_headers",
      "url_http_headers", "url_certificate_oids", "url_redirect_chain", "url_certificate_sans",
      "url_cname_records", "url_ipv6_addresses", "url_caa_records", "url_csp_domains", "url_cookies",
      "url_resource_hints", "url_script_hosts", "url_security_txt", "url_robots_txt", "url_robots_directives">>
URL_STATUS_ENRICHMENT_SATELLITE_TABLES ==
    <<"url_analytics_ids", "url_structured_data", "url_social_media_links", "url_contact_links",
      "url_exposed_secrets", "url_partial_failures", "url_favicons", "url_geoip", "url_whois">>

core_and_enrichment_overlap ==
    Range(URL_STATUS_CORE_SATELLITE_TABLES) \cap Range(URL_STATUS_ENRICHMENT_SATELLITE_TABLES) # {}

----------------------------------------------------------------------------
(* url/satellite: what each writer binds.                                  *)

List(json) == Or(parse_json_array(json), <<>>)
insert_technologies(p) ==
    <<Statement("url_technologies", TRUE,
        Mapped(FirstPerKey(p.technologies, LAMBDA t : <<t.name, t.version>>),
               LAMBDA t : [k |-> <<t.name, t.version>>, v |-> <<t.category, t.is_implied, t.detection_source>>]))>>
insert_nameservers(p) == <<Statement("url_nameservers", TRUE, Keyed(List(p.url_record.nameservers)))>>
insert_txt_records(p) ==
    <<Statement("url_txt_records", TRUE,
        Keyed(Mapped(SelectSeq(List(p.url_record.txt_records), is_storable_txt), LAMBDA t : <<detect_txt_type(t), t>>)))>>
insert_mx_records(p) ==
    <<Statement("url_mx_records", TRUE, Keyed(Or(parse_mx_json_array(p.url_record.mx_records), <<>>)))>>
\* A map is written in any order.
HeaderItems(h) == Mapped(SetToSeq(DOMAIN h), LAMBDA n : [k |-> n, v |-> h[n]])
insert_security_headers(p) == <<Statement("url_security_headers", FALSE, HeaderItems(p.security_headers))>>
insert_http_headers(p) == <<Statement("url_http_headers", FALSE, HeaderItems(p.http_headers))>>
insert_oids(p) == <<Statement("url_certificate_oids", TRUE, Keyed(SetToSeq(p.oids)))>>
insert_redirect_chain(p) ==
    <<Statement("url_redirect_chain", FALSE, [i \in DOMAIN p.redirect_chain |-> [k |-> i, v |-> p.redirect_chain[i]]])>>
insert_certificate_sans(p) == <<Statement("url_certificate_sans", TRUE, Keyed(p.subject_alternative_names))>>
insert_cname_records(p) == <<Statement("url_cname_records", TRUE, Keyed(List(p.cname_records)))>>
insert_ipv6_addresses(p) == <<Statement("url_ipv6_addresses", TRUE, Keyed(List(p.aaaa_records)))>>
insert_caa_records(p) ==
    <<Statement("url_caa_records", FALSE,
        Mapped(List(p.caa_records), LAMBDA c : [k |-> <<c[2], c[3]>>, v |-> Wrapped(c[1])]))>>
insert_csp_domains(p) == <<Statement("url_csp_domains", TRUE, p.csp_domains)>>
insert_cookies(p) == <<Statement("url_cookies", FALSE, p.cookies)>>
insert_resource_hints(p) ==
    <<Statement("url_resource_hints", TRUE, Keyed(Mapped(p.resource_hints, LAMBDA h : <<h.hint, h.host, h.href>>)))>>
insert_script_hosts(p) == <<Statement("url_script_hosts", FALSE, p.script_hosts)>>
\* join("\n")
Joined(lines) == Fold(LAMBDA out, l : IF out = <<>> THEN <<l>> ELSE out \o <<"\n", l>>, <<>>, lines)
insert_security_txt(p) ==
    <<Statement("url_security_txt", FALSE,
        IF p.security_txt = Null THEN <<>>
        ELSE <<[k |-> One, v |-> [f \in DOMAIN p.security_txt |->
                    IF f \in {"contacts", "encryption", "acknowledgments", "canonical", "policy", "hiring"}
                    THEN Joined(p.security_txt[f]) ELSE p.security_txt[f]]]>>)>>
insert_robots_txt(p) ==
    IF p.robots_txt = Null THEN <<>>
    ELSE <<Statement("url_robots_txt", FALSE, <<[k |-> One, v |-> <<p.robots_txt.http_status, p.robots_txt.raw_body>>]>>),
           Statement("url_robots_directives", TRUE, Keyed(p.robots_txt.directives))>>

\* What the fact row's transaction is given; the other fields are enrichment's.
UrlRecordInsertParams ==
    {"url_record", "security_headers", "http_headers", "oids", "redirect_chain", "technologies",
     "subject_alternative_names", "cname_records", "aaaa_records", "caa_records", "csp_domains", "cookies",
     "resource_hints", "script_hosts", "security_txt", "robots_txt"}
from_persisted_record(p) == Restrict(p, UrlRecordInsertParams)
\* The core writers in their order, by the table a failure is recorded for.
CoreWriters(p) ==
    <<[table |-> "url_technologies", todo |-> insert_technologies(p)],
      [table |-> "url_nameservers", todo |-> insert_nameservers(p)],
      [table |-> "url_txt_records", todo |-> insert_txt_records(p)],
      [table |-> "url_mx_records", todo |-> insert_mx_records(p)],
      [table |-> "url_security_headers", todo |-> insert_security_headers(p)],
      [table |-> "url_http_headers", todo |-> insert_http_headers(p)],
      [table |-> "url_certificate_oids", todo |-> insert_oids(p)],
      [table |-> "url_redirect_chain", todo |-> insert_redirect_chain(p)],
      [table |-> "url_certificate_sans", todo |-> insert_certificate_sans(p)],
      [table |-> "url_cname_records", todo |-> insert_cname_records(p)],
      [table |-> "url_ipv6_addresses", todo |-> insert_ipv6_addresses(p)],
      [table |-> "url_caa_records", todo |-> insert_caa_records(p)],
      [table |-> "url_csp_domains", todo |-> insert_csp_domains(p)],
      [table |-> "url_cookies", todo |-> insert_cookies(p)],
      [table |-> "url_resource_hints", todo |-> insert_resource_hints(p)],
      [table |-> "url_script_hosts", todo |-> insert_script_hosts(p)],
      [table |-> "url_security_txt", todo |-> insert_security_txt(p)],
      [table |-> "url_robots_txt", todo |-> insert_robots_txt(p)]>>

\* x: what the database refuses: broken statements and a table whose rows
\* cannot be deleted.
insert_url_record_impl(db, p, x) ==
    LET up == upsert_url_status_row(db, p.url_record)
        clean == delete_child_rows(up.db.child, URL_STATUS_CORE_SATELLITE_TABLES, up.id, x.undeletable)
        end == IF clean.ok THEN record_satellite_write(clean.child, CoreWriters(from_persisted_record(p)), up.id, x.broken)
               ELSE [child |-> clean.child, failures |-> <<"core_satellites">>]
    IN [id |-> up.id, inserted |-> up.inserted, db |-> [up.db EXCEPT !.child = end.child], failures |-> end.failures]

----------------------------------------------------------------------------
(* enrichment.                                                             *)

Optional(value, Item(_)) == IF value = Null THEN <<>> ELSE <<Item(value)>>
insert_geoip_data_in_tx(p) == <<Statement("url_geoip", FALSE, Optional(p.geoip, LAMBDA g : [k |-> One, v |-> g]))>>
insert_whois_data_in_tx(p) ==
    <<Statement("url_whois", FALSE, Optional(p.whois, LAMBDA w : [k |-> One, v |-> WhoisCacheResult(w)]))>>
insert_favicon_data_in_tx(p) == <<Statement("url_favicons", FALSE, Optional(p.favicon, LAMBDA f : [k |-> One, v |-> f]))>>
insert_structured_rows(type, rows) ==
    Statement("url_structured_data", TRUE, Keyed(Mapped(rows, LAMBDA r : <<type, r[1], r[2]>>)))
MapRows(m) == Mapped(SetToSeq(DOMAIN m), LAMBDA n : <<n, m[n]>>)
insert_structured_data_in_tx(p) ==
    LET s == p.structured_data
    IN <<insert_structured_rows("json_ld", Mapped(s.json_ld, LAMBDA j : <<"@document", j>>)),
         insert_structured_rows("open_graph", MapRows(s.open_graph)),
         insert_structured_rows("twitter_card", MapRows(s.twitter_cards)),
         insert_structured_rows("schema_type",
             Mapped(SelectSeq(Mapped(s.schema_types, Trim), LAMBDA t : t # <<>>), LAMBDA t : <<t, EmptyText>>))>>
insert_social_media_links_in_tx(p) ==
    <<Statement("url_social_media_links", FALSE,
        Mapped(p.social_media_links, LAMBDA l : [k |-> <<l.platform, l.url>>, v |-> l.identifier]))>>
insert_contact_links_in_tx(p) ==
    <<Statement("url_contact_links", FALSE,
        Mapped(p.contact_links, LAMBDA l : [k |-> <<l.type, l.value>>, v |-> l.raw_href]))>>
insert_analytics_ids_in_tx(p) ==
    <<Statement("url_analytics_ids", TRUE, Keyed(Mapped(p.analytics_ids, LAMBDA a : <<a.provider, a.id>>)))>>

\* One statement for each secret, so that each tells its id: here its key.
SecretKey(s) == <<s.secret_type, s.matched_value>>
insert_secret_rows_in_tx(p) ==
    Mapped(p.exposed_secrets, LAMBDA s :
        Statement("url_exposed_secrets", FALSE, <<[k |-> SecretKey(s), v |-> <<s.severity, s.location, s.context>>]>>))
\* Mutated form: one id for each row.
IdPerRow(p) == Mapped(FirstPerKey(p.exposed_secrets, SecretKey), SecretKey)
\* One id for each secret, the same one for the same key.
ReturnedIds(p) == Mapped(p.exposed_secrets, SecretKey)
\* secrets.iter().zip(ids), those with decoded claims: a statement for each.
insert_jwt_claims_batch_in_tx(p, ids) ==
    LET n == IF Len(ids) < Len(p.exposed_secrets) THEN Len(ids) ELSE Len(p.exposed_secrets)
        zipped == [i \in 1 .. n |-> [id |-> ids[i], jwt |-> p.exposed_secrets[i].decoded_jwt]]
    IN Mapped(SelectSeq(zipped, LAMBDA z : z.jwt # Null),
              LAMBDA z : Statement("url_jwt_claims", FALSE, <<[k |-> z.id, v |-> z.jwt]>>))
\* No claims where the secrets could not be written.
insert_exposed_secrets_in_tx(p, broken) ==
    LET secrets == [table |-> "url_exposed_secrets", todo |-> insert_secret_rows_in_tx(p)]
        claims == [table |-> "url_jwt_claims", todo |-> insert_jwt_claims_batch_in_tx(p, ReturnedIds(p))]
    IN IF Fails(secrets, broken) THEN <<secrets>> ELSE <<secrets, claims>>

try_enrich_tx(table, todo) == <<[table |-> table, todo |-> todo]>>
EnrichmentWriters(p, broken) ==
    try_enrich_tx("url_geoip", insert_geoip_data_in_tx(p))
    \o try_enrich_tx("url_structured_data", insert_structured_data_in_tx(p))
    \o try_enrich_tx("url_social_media_links", insert_social_media_links_in_tx(p))
    \o try_enrich_tx("url_whois", insert_whois_data_in_tx(p))
    \o try_enrich_tx("url_contact_links", insert_contact_links_in_tx(p))
    \o insert_exposed_secrets_in_tx(p, broken)
    \o try_enrich_tx("url_analytics_ids", insert_analytics_ids_in_tx(p))
    \o try_enrich_tx("url_favicons", insert_favicon_data_in_tx(p))

\* Each partial failure is a row of its own; one that cannot be written is counted.
satellite_write_to_partial_failure(table) == [error_type |-> "SatelliteInsertError", error_message |-> table]
insert_url_partial_failure_in_tx(failure, record) == <<failure, record.timestamp, record.run_id>>
insert_partial_failures_in_tx(child, p, id, extra, broken) ==
    LET all == p.partial_failures \o Mapped(extra, satellite_write_to_partial_failure)
        kept == {i \in DOMAIN all : "url_partial_failures" \in DOMAIN broken => i # broken["url_partial_failures"]}
        rows == [k \in {<<id, i>> : i \in kept} |-> insert_url_partial_failure_in_tx(all[k[2]], p.url_record)]
    IN [child |-> [child EXCEPT !["url_partial_failures"] = rows @@ @],
        inserted |-> Cardinality(kept), failed |-> Len(all) - Cardinality(kept),
        satellite_errors |-> Cardinality({i \in kept : all[i].error_type = "SatelliteInsertError"})]

\* Mutated form: the failures of the fact row's transaction are left out.
EnrichmentFailuresOnly(core, own) == own
AllWriteFailures(core, own) == core \o own

\* One for each part that was not written; there is none for the claims.
total_failures(failed, tables) == failed + Cardinality(tables \ {"url_jwt_claims"})
insert_enrichment_txn(db, p, id, core_failures, x) ==
    LET clean == delete_child_rows(db.child, URL_STATUS_ENRICHMENT_SATELLITE_TABLES, id, x.undeletable)
        end == record_satellite_write(clean.child, EnrichmentWriters(p, x.broken), id, x.broken)
        partial == insert_partial_failures_in_tx(end.child, p, id, AllWriteFailures(core_failures, end.failures), x.broken)
    IN IF clean.ok
       THEN [db |-> [db EXCEPT !.child = partial.child], inserted |-> partial.inserted,
             satellite_errors |-> partial.satellite_errors, total_failures |-> total_failures(partial.failed, Range(end.failures))]
       ELSE [db |-> db, inserted |-> 0, satellite_errors |-> 0,
             total_failures |-> total_failures(Len(core_failures) + Len(p.partial_failures), {})]     \* rolled back

\* Two transactions: the fact row with its core satellites, then enrichment.
insert_persisted_url_record(db, p, x) ==
    LET fact == insert_url_record_impl(db, p, x)
        rest == insert_enrichment_txn(fact.db, p, fact.id, fact.failures, x)
    IN [db |-> rest.db, id |-> fact.id, inserted |-> fact.inserted, core_failures |-> fact.failures,
        enrichment_failures |-> rest.total_failures, partial_failures_inserted |-> rest.inserted, satellite_insert_errors_inserted |-> rest.satellite_errors]

----------------------------------------------------------------------------
(* failure.rs: a failure row with its redirects and headers, or nothing.   *)

insert_failure_redirect_chain(f) ==
    Statement("url_failure_redirect_chain", TRUE, [i \in DOMAIN f.redirect_chain |-> [k |-> i, v |-> f.redirect_chain[i]]])
insert_failure_response_headers(f) ==
    Statement("url_failure_response_headers", FALSE,
              Mapped(f.response_headers, LAMBDA h : [k |-> h[1], v |-> h[2]]))
insert_failure_satellite_data(f) ==
    [table |-> "url_failures", todo |-> <<insert_failure_redirect_chain(f), insert_failure_response_headers(f)>>]
FailureColumns ==
    {"url", "final_url", "domain", "final_domain", "error_type", "error_message", "http_status", "retry_count",
     "elapsed_time_seconds", "timestamp", "run_id"}
insert_url_failure_impl(db, f, broken) ==
    LET id == db.next
        done == record_satellite_write(db.child, <<insert_failure_satellite_data(f)>>, id, broken)
    IN IF done.failures = <<>>
       THEN [ok |-> TRUE, id |-> id,
             db |-> [db EXCEPT !.failures = (id :> Restrict(f, FailureColumns)) @@ @, !.child = done.child, !.next = @ + 1]]
       ELSE [ok |-> FALSE, id |-> Null, db |-> db]      \* rolled back
=============================================================================
