---------------------------- MODULE ExportFields ----------------------------
(***************************************************************************)
(* What an exported row shows in each format (export/fields.rs, row.rs,    *)
(* jsonl.rs, parquet.rs): the registry of fields, the columns of CSV and   *)
(* Parquet, the JSON object, the types of the Parquet columns against the  *)
(* builders that fill them, and the items of the lists: a record of        *)
(* row.rs, the struct Parquet makes of it by position, the object jsonl.rs *)
(* makes of it by name, and the fields CSV joins.  The digits of a number  *)
(* are left out (CSV rounds a response time to hundredths).                *)
(*                                                                         *)
(* A row is a function from field ids to what the database holds for them: *)
(* a scalar, a list (a sequence of items), or Null.  The item Comma holds  *)
(* a separator, KeyHeader is one of the headers CSV shows, and Implied a   *)
(* technology that another one implies.                                    *)
(***************************************************************************)
EXTENDS Integers, SequencesExt, Functions

CONSTANTS
    Null,
    EmptyCell,         \* an empty cell
    Comma,
    KeyHeader,
    Implied,
    EXPORT_LIMIT   \* MAX_EXPORT_RELATED_RECORDS

----------------------------------------------------------------------------
(* The registry.  A field is in CSV, in Parquet (under a name of its own), *)
(* and a flat key of the JSON object, or not.                              *)

Field(id, csv, parquet, flat) == [id |-> id, csv |-> csv, parquet |-> parquet, flat |-> flat]
Absent == ""
Each(ids, csv, typed, flat) ==
    [i \in DOMAIN ids |-> Field(ids[i], csv, IF typed THEN ids[i] ELSE Absent, flat)]
Flat(ids) == Each(ids, TRUE, TRUE, TRUE)      \* in every format
Typed(ids) == Each(ids, TRUE, TRUE, FALSE)    \* nested in the JSON object
Counted(ids) == Each(ids, TRUE, FALSE, FALSE) \* CSV only
FlatCount(ids) == Each(ids, TRUE, FALSE, TRUE)
Renamed(id, name, flat) == <<Field(id, TRUE, name, flat)>>

AddressFields ==
    Flat(<<"url", "initial_domain", "final_domain", "initial_url", "final_url", "ip_address", "reverse_dns">>)
    \o Renamed("status", "http_status", TRUE) \o Renamed("status_description", "http_status_text", TRUE)
    \o Renamed("response_time_ms", "response_time_seconds", TRUE)
PageFields ==
    Flat(<<"title", "description", "meta_robots", "body_sha256", "content_length", "http_version",
           "content_type", "canonical_url", "body_truncated">>)
TechnologyFields ==
    Flat(<<"redirect_count", "final_redirect_url">>) \o Typed(<<"technologies">>)
    \o Counted(<<"technology_categories">>) \o Flat(<<"technology_count">>)
    \o Typed(<<"tls_version", "ssl_cert_subject", "ssl_cert_issuer">>)
CertificateFields ==
    Renamed("ssl_cert_valid_to", "ssl_cert_valid_to_ms", FALSE)
    \o Typed(<<"cipher_suite", "key_algorithm", "cert_fingerprint_sha256", "certificate_sans">>)
    \o Counted(<<"certificate_san_count">>) \o Renamed("oids", "certificate_oids", FALSE)
    \o Counted(<<"oid_count", "nameserver_count", "txt_record_count", "mx_record_count">>)
DnsFields ==
    Typed(<<"cname_records">>) \o Counted(<<"cname_count">>) \o Typed(<<"ipv6_addresses">>)
    \o Counted(<<"ipv6_count">>) \o Typed(<<"caa_records">>) \o Counted(<<"caa_count">>)
    \o Flat(<<"spf_record", "dmarc_record", "mta_sts_record", "tls_rpt_record", "bimi_record">>)
HostFields ==
    Flat(<<"hsts_max_age", "hsts_include_subdomains", "hsts_preload", "cdn_provider">>)
    \o Typed(<<"script_hosts", "analytics_ids">>) \o FlatCount(<<"analytics_count">>)
LinkFields ==
    Typed(<<"social_media_links">>) \o FlatCount(<<"social_media_count">>)
    \o Counted(<<"structured_data_types", "structured_data_count">>)
    \o Typed(<<"http_headers">>) \o FlatCount(<<"http_header_count">>)
    \o Typed(<<"security_headers">>) \o FlatCount(<<"security_header_count">>)
    \o Typed(<<"geoip_country_code", "geoip_country_name", "geoip_region", "geoip_city">>)
PlaceFields ==
    Typed(<<"geoip_latitude", "geoip_longitude", "geoip_asn", "geoip_asn_org", "whois_registrar">>)
    \o Renamed("whois_creation_date", "whois_creation_date_ms", FALSE)
    \o Renamed("whois_expiration_date", "whois_expiration_date_ms", FALSE)
    \o Typed(<<"whois_registrant_country", "favicon_hash">>)
RecordFields ==
    Typed(<<"favicon_url">>) \o Renamed("timestamp", "observed_at_ms", TRUE) \o Flat(<<"run_id">>)
    \o Typed(<<"nameservers", "txt_records", "mx_records">>)
    \o Renamed("structured_data_entries", "structured_data", FALSE)
    \o Counted(<<"social_media_identifiers", "partial_failure_count">>) \o Typed(<<"partial_failures">>)
FindingFields ==
    Typed(<<"contact_links">>) \o Flat(<<"contact_link_count">>) \o Typed(<<"exposed_secrets">>)
    \o Flat(<<"exposed_secret_count">>) \o <<Field("redirect_chain", FALSE, "redirect_chain", FALSE)>>

EXPORT_FIELDS ==
    AddressFields \o PageFields \o TechnologyFields \o CertificateFields \o DnsFields \o HostFields
    \o LinkFields \o PlaceFields \o RecordFields \o FindingFields

Ids == {EXPORT_FIELDS[i].id : i \in DOMAIN EXPORT_FIELDS}
field_by_id(id) == EXPORT_FIELDS[CHOOSE i \in DOMAIN EXPORT_FIELDS :
                        EXPORT_FIELDS[i].id = id /\ \A j \in 1 .. i - 1 : EXPORT_FIELDS[j].id # id]

----------------------------------------------------------------------------
(* row.rs: counts and lists of a row that are derived from others.         *)

CountOf == [redirect_count |-> "redirect_chain", technology_count |-> "technologies",
            certificate_san_count |-> "certificate_sans", oid_count |-> "oids",
            nameserver_count |-> "nameservers", txt_record_count |-> "txt_records",
            mx_record_count |-> "mx_records", cname_count |-> "cname_records",
            ipv6_count |-> "ipv6_addresses", caa_count |-> "caa_records",
            analytics_count |-> "analytics_ids", social_media_count |-> "social_media_links",
            structured_data_count |-> "structured_data_entries", http_header_count |-> "http_headers",
            security_header_count |-> "security_headers", partial_failure_count |-> "partial_failures",
            contact_link_count |-> "contact_links", exposed_secret_count |-> "exposed_secrets"]
Counts == DOMAIN CountOf
Lists == {CountOf[c] : c \in Counts} \cup {"script_hosts"}
\* CSV text that names what the items of a list hold.
DerivedFrom == [technology_categories |-> "technologies", structured_data_types |-> "structured_data_entries",
                social_media_identifiers |-> "social_media_links"]
DerivedText == DOMAIN DerivedFrom
StringLists == {"certificate_sans", "oids"}   \* kept as one joined string

\* join(",") and split(','): an item with a comma comes back as two.
parse_string_list(items) ==
    FoldLeft(LAMBDA out, item : out \o (IF item = Comma THEN <<"head", "tail">> ELSE <<item>>), <<>>, items)

Limited(items) == SubSeq(items, 1, IF Len(items) < EXPORT_LIMIT THEN Len(items) ELSE EXPORT_LIMIT)
\* The joined string and its count.
fetch_string_list(items) == [joined |-> Limited(items), count |-> Len(Limited(items))]

\* The headers of CSV are filtered before they are cut, and counted by a query of
\* their own, over the whole table.
HeaderTexts == [http_headers_str |-> "http_headers", security_headers_str |-> "security_headers"]
HeaderCounts == {"http_header_count", "security_header_count"}
fetch_filtered_http_headers(items) ==
    [joined |-> Limited(SelectSeq(items, LAMBDA h : h = KeyHeader)), total |-> Len(items)]

\* build_export_row, from what the tables hold.  Implied technologies are left out
\* by the query unless they are asked for.
build_export_row(tables, include_implied_tech) ==
    LET Listed(l) == IF l \in StringLists THEN fetch_string_list(tables[l]).joined
                     ELSE Limited(SelectSeq(tables[l], LAMBDA i : include_implied_tech \/ i # Implied))
    IN [id \in Ids \cup DOMAIN HeaderTexts |->
        CASE id \in HeaderCounts -> fetch_filtered_http_headers(tables[CountOf[id]]).total
          [] id \in DOMAIN HeaderTexts -> fetch_filtered_http_headers(tables[HeaderTexts[id]]).joined
          [] id \in Counts \ HeaderCounts -> Len(Listed(CountOf[id]))
          [] id \in StringLists -> parse_string_list(Listed(id))
          [] id \in Lists \ StringLists -> Listed(id)
          [] id \in DerivedText -> ToSet(Listed(DerivedFrom[id]))
          [] id = "final_redirect_url" ->
                IF tables["redirect_chain"] = <<>> THEN EmptyCell ELSE Last(Listed("redirect_chain"))
          [] OTHER -> tables[id]]

----------------------------------------------------------------------------
(* fields.rs: CSV.  A missing value is an empty cell.                      *)

CSV_FIELD_ORDER ==
    <<"url", "initial_domain", "final_domain", "initial_url", "final_url", "ip_address", "reverse_dns",
      "status", "status_description", "response_time_ms", "title", "description", "meta_robots",
      "body_sha256", "content_length", "http_version", "content_type", "canonical_url", "body_truncated",
      "redirect_count", "final_redirect_url", "technologies", "technology_categories", "technology_count",
      "tls_version", "ssl_cert_subject", "ssl_cert_issuer", "ssl_cert_valid_to", "cipher_suite",
      "key_algorithm", "cert_fingerprint_sha256", "certificate_sans", "certificate_san_count", "oids",
      "oid_count", "nameserver_count", "txt_record_count", "mx_record_count", "cname_records",
      "cname_count", "ipv6_addresses", "ipv6_count", "caa_records", "caa_count", "spf_record",
      "dmarc_record", "mta_sts_record", "tls_rpt_record", "bimi_record", "hsts_max_age",
      "hsts_include_subdomains", "hsts_preload", "cdn_provider", "script_hosts", "analytics_ids",
      "analytics_count", "social_media_links", "social_media_count", "structured_data_types",
      "structured_data_count", "http_headers", "http_header_count", "security_headers",
      "security_header_count", "geoip_country_code", "geoip_country_name", "geoip_region", "geoip_city",
      "geoip_latitude", "geoip_longitude", "geoip_asn", "geoip_asn_org", "whois_registrar",
      "whois_creation_date", "whois_expiration_date", "whois_registrant_country", "favicon_hash",
      "favicon_url", "timestamp", "run_id", "nameservers", "txt_records", "mx_records",
      "structured_data_entries", "social_media_identifiers", "partial_failure_count", "partial_failures",
      "contact_links", "contact_link_count", "exposed_secrets", "exposed_secret_count">>
Extract(row, id) ==
    CASE id = "http_headers" -> row["http_headers_str"]
      [] id = "security_headers" -> row["security_headers_str"]
      [] row[id] = Null -> EmptyCell
      [] OTHER -> row[id]
csv_record_cells(row) ==
    [i \in DOMAIN CSV_FIELD_ORDER |-> Extract(row, field_by_id(CSV_FIELD_ORDER[i]).id)]

----------------------------------------------------------------------------
(* parquet.rs: one builder per column, finished in the order of the code,  *)
(* then paired with the names of the schema by position.                   *)

PARQUET_FIELD_ORDER ==
    <<"url", "initial_domain", "final_domain", "initial_url", "final_url", "ip_address", "reverse_dns",
      "status", "status_description", "response_time_ms", "title", "description", "meta_robots",
      "body_sha256", "content_length", "http_version", "content_type", "canonical_url", "body_truncated",
      "redirect_count", "final_redirect_url", "redirect_chain", "technology_count", "technologies",
      "tls_version", "ssl_cert_subject", "ssl_cert_issuer", "ssl_cert_valid_to", "cipher_suite",
      "key_algorithm", "cert_fingerprint_sha256", "certificate_sans", "oids", "cname_records",
      "ipv6_addresses", "caa_records", "spf_record", "dmarc_record", "mta_sts_record", "tls_rpt_record",
      "bimi_record", "hsts_max_age", "hsts_include_subdomains", "hsts_preload", "cdn_provider",
      "script_hosts", "nameservers", "txt_records", "mx_records", "analytics_ids", "social_media_links",
      "structured_data_entries", "http_headers", "security_headers", "partial_failures",
      "geoip_country_code", "geoip_country_name", "geoip_region", "geoip_city", "geoip_latitude",
      "geoip_longitude", "geoip_asn", "geoip_asn_org", "whois_registrar", "whois_creation_date",
      "whois_expiration_date", "whois_registrant_country", "favicon_hash", "favicon_url",
      "contact_link_count", "contact_links", "exposed_secret_count", "exposed_secrets", "timestamp",
      "run_id">>
build_parquet_schema == [i \in DOMAIN PARQUET_FIELD_ORDER |-> field_by_id(PARQUET_FIELD_ORDER[i]).parquet]

\* What the rows append to each builder, in the order of the declarations.
AppendPage == <<"url", "initial_domain", "final_domain", "initial_url", "final_url", "ip_address",
                "reverse_dns", "status", "status_description", "response_time_ms", "title", "description",
                "meta_robots", "body_sha256", "content_length", "http_version", "content_type",
                "canonical_url", "body_truncated", "redirect_count", "final_redirect_url",
                "redirect_chain", "technology_count", "technologies">>
AppendTlsAndDns == <<"tls_version", "ssl_cert_subject", "ssl_cert_issuer", "ssl_cert_valid_to",
                     "cipher_suite", "key_algorithm", "cert_fingerprint_sha256", "certificate_sans",
                     "oids", "cname_records", "ipv6_addresses", "caa_records", "spf_record",
                     "dmarc_record", "mta_sts_record", "tls_rpt_record", "bimi_record", "hsts_max_age",
                     "hsts_include_subdomains", "hsts_preload", "cdn_provider", "script_hosts",
                     "nameservers", "txt_records", "mx_records">>
AppendLists == <<"analytics_ids", "social_media_links", "structured_data_entries", "http_headers",
                 "security_headers", "partial_failures">>
AppendPlaces == <<"geoip_country_code", "geoip_country_name", "geoip_region", "geoip_city",
                  "geoip_latitude", "geoip_longitude", "geoip_asn", "geoip_asn_org", "whois_registrar",
                  "whois_creation_date", "whois_expiration_date", "whois_registrant_country",
                  "favicon_hash", "favicon_url", "contact_link_count", "contact_links">>
AppendSecrets == <<"exposed_secret_count", "exposed_secrets", "timestamp", "run_id">>

\* Mutated form: two columns of one type finished in the other order.
finishedSwapped ==
    AppendPage \o AppendTlsAndDns \o AppendLists
    \o [AppendPlaces EXCEPT ![10] = AppendPlaces[11], ![11] = AppendPlaces[10]] \o AppendSecrets

finished == AppendPage \o AppendTlsAndDns \o AppendLists \o AppendPlaces \o AppendSecrets

\* by_name: a name keeps the last builder paired with it.
by_name(name) ==
    finished[CHOOSE i \in DOMAIN finished : build_parquet_schema[i] = name
                        /\ \A j \in i + 1 .. Len(finished) : build_parquet_schema[j] # name]
write_batch(row) == [i \in DOMAIN build_parquet_schema |-> row[by_name(build_parquet_schema[i])]]

----------------------------------------------------------------------------
(* jsonl.rs: the JSON object.  GeoIP and WHOIS are objects of their own,   *)
(* or null.                                                                *)

GeoIpIds == {"geoip_country_code", "geoip_country_name", "geoip_region", "geoip_city", "geoip_latitude",
             "geoip_longitude", "geoip_asn", "geoip_asn_org"}
WhoisIds == {"whois_registrar", "whois_creation_date", "whois_expiration_date", "whois_registrant_country"}
Told(row, ids) == {id \in ids : row[id] # Null}
Restricted(row, ids) == [id \in ids |-> row[id]]
geoip_object(row) ==
    IF Told(row, {"geoip_country_code", "geoip_asn", "geoip_latitude"}) # {} THEN Restricted(row, GeoIpIds) ELSE Null
whois_object(row) ==
    IF Told(row, {"whois_registrar", "whois_creation_date"}) # {} THEN Restricted(row, WhoisIds) ELSE Null

\* Flat keys are written last, over the keys of the object.
JsonIds == Ids \ (GeoIpIds \cup WhoisIds \cup {"technology_categories", "social_media_identifiers",
                                                "partial_failure_count", "oid_count"})
insert_jsonl_flat_fields(row) == Restricted(row, {EXPORT_FIELDS[i].id : i \in {j \in DOMAIN EXPORT_FIELDS : EXPORT_FIELDS[j].flat}})
json_obj(row) ==
    insert_jsonl_flat_fields(row) @@ Restricted(row, JsonIds)
    @@ [geoip |-> geoip_object(row), whois |-> whois_object(row)]

Column(name, type, nullable) == [name |-> name, type |-> type, nullable |-> nullable]
Utf8(name) == Column(name, "utf8", FALSE)
OptUtf8(name) == Column(name, "utf8", TRUE)
Int64(name) == Column(name, "int64", FALSE)
OptInt64(name) == Column(name, "int64", TRUE)
Bool(name) == Column(name, "boolean", FALSE)

----------------------------------------------------------------------------
(* row.rs: what the program holds.                                         *)

\* The optional scalars.
OptionalMain ==
    {"initial_url", "final_url", "reverse_dns", "description", "meta_robots", "tls_version",
     "ssl_cert_subject", "ssl_cert_issuer", "ssl_cert_valid_to", "cipher_suite", "key_algorithm",
     "spf_record", "dmarc_record", "mta_sts_record", "tls_rpt_record", "bimi_record", "hsts_max_age",
     "hsts_include_subdomains", "hsts_preload", "cdn_provider", "run_id", "body_sha256",
     "content_length", "http_version", "content_type", "canonical_url", "cert_fingerprint_sha256"}
Optional == OptionalMain \cup GeoIpIds \cup WhoisIds \cup {"favicon_hash", "favicon_url"}

PageRecords ==
    [txt_records |-> <<Utf8("record_type"), Utf8("record_value")>>,
     mx_records |-> <<Int64("priority"), Utf8("mail_exchange")>>,
     structured_data_entries |-> <<Utf8("data_type"), Utf8("property_name"), Utf8("property_value")>>,
     social_media_links |-> <<Utf8("platform"), Utf8("profile_url"), OptUtf8("identifier")>>,
     contact_links |-> <<Utf8("contact_type"), Utf8("contact_value")>>,
     exposed_secrets |->
        <<Utf8("secret_type"), Utf8("matched_value"), Utf8("severity"), Utf8("location"), OptUtf8("context"),
          OptUtf8("jwt_algorithm"), OptUtf8("jwt_issuer"), OptUtf8("jwt_subject"), OptUtf8("jwt_audience"),
          OptInt64("jwt_expiration_ms"), OptInt64("jwt_issued_at_ms"), OptUtf8("jwt_header_json"),
          OptUtf8("jwt_payload_json")>>,
     partial_failures |-> <<Utf8("error_type"), Utf8("error_message")>>,
     http_headers |-> <<Utf8("name"), Utf8("value")>>,
     security_headers |-> <<Utf8("name"), Utf8("value")>>]
SiteRecords ==
    [redirect_chain |-> <<Utf8("redirect_url"), Int64("sequence_order"), OptInt64("http_status")>>,
     technologies |-> <<Utf8("name"), OptUtf8("version"), OptUtf8("category"), Bool("is_implied"),
                        OptUtf8("detection_source")>>,
     analytics_ids |-> <<Utf8("provider"), Utf8("tracking_id")>>,
     script_hosts |-> <<Utf8("host"), OptUtf8("registrable_domain"), Bool("is_first_party")>>,
     caa_records |-> <<Int64("flag"), Utf8("tag"), Utf8("value")>>]
Records == PageRecords @@ SiteRecords
StructLists == DOMAIN Records
FieldNames(l) == {Records[l][i].name : i \in DOMAIN Records[l]}

----------------------------------------------------------------------------
(* fields.rs: the schema.                                                  *)

SchemaInt32 == {"status", "redirect_count", "technology_count", "contact_link_count",
                "exposed_secret_count", "favicon_hash"}
SchemaInt64 == {"content_length", "ssl_cert_valid_to", "hsts_max_age", "geoip_asn",
                "whois_creation_date", "whois_expiration_date", "timestamp"}
SchemaFloat64 == {"response_time_ms", "geoip_latitude", "geoip_longitude"}
SchemaBoolean == {"body_truncated", "hsts_include_subdomains", "hsts_preload"}
SchemaList == {"technologies", "caa_records", "script_hosts", "analytics_ids", "social_media_links",
               "http_headers", "security_headers", "txt_records", "mx_records",
               "structured_data_entries", "partial_failures", "contact_links", "exposed_secrets",
               "redirect_chain", "certificate_sans", "oids", "cname_records", "ipv6_addresses", "nameservers"}
SchemaRequired == {"url", "initial_domain", "final_domain", "ip_address", "status_description", "title",
                   "final_redirect_url", "status", "redirect_count", "technology_count",
                   "contact_link_count", "exposed_secret_count", "response_time_ms", "body_truncated",
                   "timestamp"}
                  \cup (SchemaList \ {"certificate_sans", "oids", "cname_records", "ipv6_addresses", "nameservers"})
data_type(id) == CASE id \in SchemaInt32 -> "int32" [] id \in SchemaInt64 -> "int64"
                   [] id \in SchemaFloat64 -> "float64" [] id \in SchemaBoolean -> "boolean"
                   [] id \in SchemaList -> "list" [] OTHER -> "utf8"

arrow_types_site ==
    [redirect_chain |-> <<Utf8("redirect_url"), Int64("sequence_order")>>,
     technologies |-> <<Utf8("name"), OptUtf8("version"), OptUtf8("category"), Bool("is_implied"),
                        OptUtf8("detection_source")>>,
     caa_records |-> <<Int64("flag"), Utf8("tag"), Utf8("value")>>,
     txt_records |-> <<Utf8("record_type"), Utf8("content")>>,
     mx_records |-> <<Int64("priority"), Utf8("mail_exchange")>>,
     script_hosts |-> <<Utf8("host"), OptUtf8("registrable_domain"), Bool("is_first_party")>>]
arrow_types_page ==
    [analytics_ids |-> <<Utf8("provider"), Utf8("tracking_id")>>,
     social_media_links |-> <<Utf8("platform"), Utf8("url"), OptUtf8("identifier")>>,
     structured_data_entries |-> <<Utf8("data_type"), Utf8("property_name"), Utf8("property_value")>>,
     http_headers |-> <<Utf8("name"), Utf8("value")>>,
     security_headers |-> <<Utf8("name"), Utf8("value")>>,
     partial_failures |-> <<Utf8("error_type"), Utf8("error_message")>>,
     contact_links |-> <<Utf8("contact_type"), Utf8("contact_value")>>,
     exposed_secrets |->
        <<Utf8("secret_type"), Utf8("matched_value"), Utf8("severity"), Utf8("location"), OptUtf8("context"),
          OptUtf8("jwt_algorithm"), OptUtf8("jwt_issuer"), OptUtf8("jwt_subject"), OptUtf8("jwt_audience"),
          OptInt64("jwt_expiration_ms"), OptInt64("jwt_issued_at_ms"), OptUtf8("jwt_header_json"),
          OptUtf8("jwt_payload_json")>>]
arrow_types == arrow_types_site @@ arrow_types_page

----------------------------------------------------------------------------
(* parquet.rs: the builders.                                               *)

BuilderInt32 == {"status", "redirect_count", "technology_count", "favicon_hash", "contact_link_count",
                 "exposed_secret_count"}
BuilderInt64 == {"content_length", "ssl_cert_valid_to", "hsts_max_age", "geoip_asn",
                 "whois_creation_date", "whois_expiration_date", "timestamp"}
BuilderFloat64 == {"response_time_ms", "geoip_latitude", "geoip_longitude"}
BuilderBoolean == {"body_truncated", "hsts_include_subdomains", "hsts_preload"}
builder_type(id) == CASE id \in BuilderInt32 -> "int32" [] id \in BuilderInt64 -> "int64"
                      [] id \in BuilderFloat64 -> "float64" [] id \in BuilderBoolean -> "boolean"
                      [] id \in Lists -> "list" [] OTHER -> "utf8"

new_two_string_list_builder(f1, f2) == <<Utf8(f1), Utf8(f2)>>
new_three_string_list_builder(f1, f2, f3) == <<Utf8(f1), Utf8(f2), Utf8(f3)>>
SecretBuilder ==
    <<Utf8("secret_type"), Utf8("matched_value"), Utf8("severity"), Utf8("location")>>
    \o <<OptUtf8("context"), OptUtf8("jwt_algorithm"), OptUtf8("jwt_issuer"), OptUtf8("jwt_subject"),
         OptUtf8("jwt_audience"), OptInt64("jwt_expiration_ms"), OptInt64("jwt_issued_at_ms"),
         OptUtf8("jwt_header_json"), OptUtf8("jwt_payload_json")>>
SiteBuilders ==
    [caa_records |-> <<Int64("flag"), Utf8("tag"), Utf8("value")>>,
     script_hosts |-> <<Utf8("host"), OptUtf8("registrable_domain"), Bool("is_first_party")>>]
ListBuilders ==
    [redirect_chain |-> <<Utf8("redirect_url"), Int64("sequence_order")>>,
     technologies |-> <<Utf8("name"), OptUtf8("version"), OptUtf8("category"), Bool("is_implied"),
                        OptUtf8("detection_source")>>,
     txt_records |-> new_two_string_list_builder("record_type", "content"),
     mx_records |-> <<Int64("priority"), Utf8("mail_exchange")>>,
     analytics_ids |-> new_two_string_list_builder("provider", "tracking_id"),
     social_media_links |-> <<Utf8("platform"), Utf8("url"), OptUtf8("identifier")>>,
     structured_data_entries |-> new_three_string_list_builder("data_type", "property_name", "property_value"),
     http_headers |-> new_two_string_list_builder("name", "value"),
     security_headers |-> new_two_string_list_builder("name", "value"),
     partial_failures |-> new_two_string_list_builder("error_type", "error_message")]
Builders == SiteBuilders @@ ListBuilders
    @@ [contact_links |-> new_two_string_list_builder("contact_type", "contact_value"),
        exposed_secrets |-> SecretBuilder]

\* The fields of a record that are appended to its struct, by position.
AppendedFields(l) ==
    CASE l = "redirect_chain" -> <<"redirect_url", "sequence_order">>
      [] l = "technologies" -> <<"name", "version", "category", "is_implied", "detection_source">>
      [] l = "caa_records" -> <<"flag", "tag", "value">>
      [] l = "script_hosts" -> <<"host", "registrable_domain", "is_first_party">>
      [] l = "txt_records" -> <<"record_type", "record_value">>
      [] l = "mx_records" -> <<"priority", "mail_exchange">>
      [] l = "analytics_ids" -> <<"provider", "tracking_id">>
      [] l = "social_media_links" -> <<"platform", "profile_url", "identifier">>
      [] l = "structured_data_entries" -> <<"data_type", "property_name", "property_value">>
      [] l \in {"http_headers", "security_headers"} -> <<"name", "value">>
      [] l = "partial_failures" -> <<"error_type", "error_message">>
      [] l = "contact_links" -> <<"contact_type", "contact_value">>
      [] l = "exposed_secrets" ->
            <<"secret_type", "matched_value", "severity", "location", "context", "jwt_algorithm", "jwt_issuer",
              "jwt_subject", "jwt_audience", "jwt_expiration_ms", "jwt_issued_at_ms", "jwt_header_json",
              "jwt_payload_json">>
append_opt(value) == value     \* None is a null of the column
StructItem(l, record) == [i \in DOMAIN AppendedFields(l) |-> append_opt(record[AppendedFields(l)[i]])]

\* RecordBatch::try_new: the columns have the types of the schema, and a required
\* one no null.
try_new(row) ==
    /\ \A i \in DOMAIN PARQUET_FIELD_ORDER :
          LET id == PARQUET_FIELD_ORDER[i]
              filled == by_name(build_parquet_schema[i])
          IN /\ builder_type(filled) = data_type(id)
             /\ id \in SchemaRequired => row[filled] # Null
    /\ Builders = arrow_types
item_accepted(l, record) ==
    /\ Len(AppendedFields(l)) = Len(Builders[l])
    /\ \A i \in DOMAIN Builders[l] : ~Builders[l][i].nullable => StructItem(l, record)[i] # Null

----------------------------------------------------------------------------
(* jsonl.rs and the text of CSV.                                           *)

JsonKeys(l) ==
    CASE l = "txt_records" -> [record_type |-> "record_type", content |-> "record_value"]
      [] l = "social_media_links" -> [platform |-> "platform", url |-> "profile_url", identifier |-> "identifier"]
      [] l = "exposed_secrets" -> [secret_type |-> "secret_type", matched_value |-> "matched_value",
                                   severity |-> "severity", location |-> "location", context |-> "context"]
      [] OTHER -> [f \in FieldNames(l) |-> f]
ClaimKeys == [algorithm |-> "jwt_algorithm", issuer |-> "jwt_issuer", subject |-> "jwt_subject",
              audience |-> "jwt_audience", expiration_ms |-> "jwt_expiration_ms",
              issued_at_ms |-> "jwt_issued_at_ms", header_json |-> "jwt_header_json",
              payload_json |-> "jwt_payload_json"]
Object(keys, record) == [k \in DOMAIN keys |-> record[keys[k]]]
\* A secret has an object of claims when its algorithm or its issuer is known.
JsonItem(l, record) ==
    IF l = "exposed_secrets" /\ (record["jwt_algorithm"] # Null \/ record["jwt_issuer"] # Null)
    THEN Object(JsonKeys(l), record) @@ [jwt_claims |-> Object(ClaimKeys, record)]
    ELSE Object(JsonKeys(l), record)

\* The parts of a CSV item, in the order they are joined.
CsvParts(l) ==
    CASE l = "caa_records" -> <<"flag", "tag", "value">>
      [] l = "txt_records" -> <<"record_type", "record_value">>
      [] l = "mx_records" -> <<"priority", "mail_exchange">>
      [] l = "structured_data_entries" -> <<"data_type", "property_name", "property_value">>
      [] l = "partial_failures" -> <<"error_type", "error_message">>
      [] l = "contact_links" -> <<"contact_type", "contact_value">>
      [] l = "exposed_secrets" -> <<"severity", "secret_type", "location", "matched_value">>
JoinedPairs(l) ==
    CASE l = "technologies" -> <<"name", "version">>
      [] l = "analytics_ids" -> <<"provider", "tracking_id">>
      [] l = "social_media_links" -> <<"platform", "profile_url">>
join_colon_pairs(pair) == [i \in DOMAIN pair |-> IF pair[i] = Null THEN EmptyCell ELSE pair[i]]
CsvItem(l, record) ==
    IF l \in {"technologies", "analytics_ids", "social_media_links"}
    THEN join_colon_pairs([i \in 1 .. 2 |-> record[JoinedPairs(l)[i]]])
    ELSE [i \in DOMAIN CsvParts(l) |-> record[CsvParts(l)[i]]]
         \o (IF l = "exposed_secrets"
             THEN SelectSeq(<<record["jwt_algorithm"], record["jwt_issuer"]>>, LAMBDA v : v # Null) ELSE <<>>)
CsvLists == StructLists \ {"redirect_chain", "http_headers", "security_headers", "script_hosts"}
=============================================================================
